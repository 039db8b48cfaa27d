-------------------------- MODULE LifecycleProofs --------------------------
(***************************************************************************)
(* Proofs about Lifecycle, for any requests and any grace period.          *)
(*                                                                         *)
(* CutOnlyAfterDeadline is not inductive: that main leaves nothing behind  *)
(* when it exits needs, for each server it has drained, that the server    *)
(* accepts no more and that nothing is running or the deadline is over.    *)
(***************************************************************************)
EXTENDS Lifecycle, TLAPS

AfterClose(s) ==
  \/ s = "srv" /\ pc \in {"drain srv", "shutdown sslsrv", "drain sslsrv", "stop", "exit"}
  \/ s = "sslsrv" /\ pc \in {"drain sslsrv", "stop", "exit"}

AfterDrain(s) ==
  \/ s = "srv" /\ pc \in {"shutdown sslsrv", "drain sslsrv", "stop", "exit"}
  \/ s = "sslsrv" /\ pc \in {"stop", "exit"}

\* No request is before the servers, and main shuts sslsrv down only with ssl.
NothingEarly ==
  /\ pc \in {"load", "launch"} => \A s \in Servers : server[s] = "nil"
  /\ pc \in {"load", "launch"} => \A r \in Requests : request[r] = "new"
  /\ pc \in {"shutdown sslsrv", "drain sslsrv"} => ssl

\* No RPC runs before gRPC serves.
RpcsServed == server["grpc"] \in {"nil", "created"} => Active("grpc") = {}

\* What main has shut down stays down.
StaysClosed ==
  \A s \in {"srv", "sslsrv"} : AfterClose(s) /\ (s = "sslsrv" => ssl) => server[s] = "closed"

\* What main has waited for is done or late.
StaysDrained ==
  \A s \in {"srv", "sslsrv"} : AfterDrain(s) => Active(s) = {} \/ waited = Grace

\* As long as nothing excuses it, only Stop and the deadline cut.
CutLate ==
  \A r \in Requests :
    request[r] = "cut" => waited = Grace \/ Excused \/ (Kind[r] = "rpc" /\ pc = "exit")

IInv == TypeOK /\ NothingEarly /\ RpcsServed /\ StaysClosed /\ StaysDrained /\ CutLate

-----------------------------------------------------------------------------

\* Every request goes to one of the servers, an RPC and nothing else to gRPC.
LEMMA Targets ==
  \A r \in Requests : /\ Target(r) \in Servers
                      /\ Target(r) = "grpc" <=> Kind[r] = "rpc"
                      /\ Target(r) = "sslsrv" => ssl
BY LifecycleAssumption DEF Target, Servers

\* Ending the process cuts what is running, and nothing else.
LEMMA EndCutsRunning ==
  ASSUME NEW how, End(how)
  PROVE  request' = [r \in Requests |-> IF request[r] = "running" THEN "cut" ELSE request[r]]
BY Targets DEF End, Cut, Active

LEMMA InitIInv == Init => IInv
<1> SUFFICES ASSUME Init PROVE IInv
  OBVIOUS
<1>1. TypeOK
  <2>1. 0 \in 0..Grace
    BY LifecycleAssumption
  <2> QED
    BY <2>1 DEF Init, TypeOK
<1>2. NothingEarly
  BY DEF Init, NothingEarly
<1>3. \A s : ~AfterClose(s) /\ ~AfterDrain(s)
  BY DEF Init, AfterClose, AfterDrain
<1>4. RpcsServed /\ CutLate
  BY DEF Init, RpcsServed, Active, CutLate
<1> QED
  BY <1>1, <1>2, <1>3, <1>4 DEF IInv, StaysClosed, StaysDrained

\* A step that ends the process keeps all else but the requests.
LEMMA EndKeeps ==
  ASSUME IInv, NEW how \in {"config", "killed", "fatal", "panic", "throw", "ok"}, End(how), Running,
         UNCHANGED <<serviceConfig, pc, waited, server>>, signal' \in BOOLEAN,
         \/ Excused'
         \/ pc \in {"load", "launch"}
         \/ pc = "stop" /\ server["grpc"] = "nil"
         \/ pc = "exit"
  PROVE  IInv'
<1> DEFINE cutAll == [r \in Requests |-> IF request[r] = "running" THEN "cut" ELSE request[r]]
<1>1. request' = cutAll /\ exit' = how
  BY EndCutsRunning DEF End
<1>2. \A s \in Servers : Active(s)' = {}
  BY <1>1 DEF Active, Target
<1>3. TypeOK'
  BY <1>1, <1>2 DEF IInv, TypeOK, Servers
<1>4. NothingEarly' /\ RpcsServed' /\ StaysClosed' /\ StaysDrained'
  BY <1>1, <1>2 DEF IInv, NothingEarly, RpcsServed, StaysClosed, StaysDrained, AfterClose, AfterDrain, Servers, ssl
<1>5. CutLate'
  <2>1. ASSUME NEW r \in Requests, request'[r] = "cut"
        PROVE  \/ waited' = Grace
               \/ Excused'
               \/ Kind[r] = "rpc" /\ pc' = "exit"
    <3>1. CASE pc \in {"load", "launch"}
      BY <1>1, <2>1, <3>1 DEF IInv, NothingEarly
    <3>2. CASE (pc = "stop" /\ server["grpc"] = "nil") \/ pc = "exit"
      <4>1. CASE Kind[r] # "rpc" /\ request[r] = "running"
        <5>1. Target(r) \in {"srv", "sslsrv"}
          BY <4>1, Targets DEF Servers
        <5> QED
          BY <1>1, <3>2, <4>1, <5>1 DEF IInv, StaysDrained, AfterDrain, Active
      <4>2. CASE Kind[r] = "rpc" /\ request[r] = "running"
        <5>1. Target(r) = "grpc"
          BY <4>2, Targets
        <5> QED
          BY <3>2, <4>2, <5>1 DEF IInv, TypeOK, RpcsServed, Active
      <4>3. CASE request[r] = "cut"
        BY <2>1, <4>3 DEF IInv, CutLate, Excused, Running
      <4> QED
        BY <1>1, <2>1, <4>1, <4>2, <4>3
    <3> QED
      BY <3>1, <3>2
  <2> QED
    BY <2>1 DEF CutLate
<1> QED
  BY <1>3, <1>4, <1>5 DEF IInv

\* A step that changes no request keeps what was said of requests.
LEMMA QuietKeepsActive ==
  ASSUME UNCHANGED <<serviceConfig, request>>
  PROVE  ssl' = ssl /\ \A s \in Servers : Active(s)' = Active(s)
BY DEF Active, Target, ssl

\* The steps of main.
LEMMA MainKeeps ==
  ASSUME IInv, Main
  PROVE  IInv'
<1>1. CASE LoadFails \/ LaunchFails
  BY <1>1, EndKeeps DEF LoadFails, LaunchFails, Goto, IInv, TypeOK
<1>2. CASE LoadConfig \/ Launch
  <2>1. /\ pc \in {"load", "launch"} /\ pc' \in {"launch", "notify"}
        /\ UNCHANGED <<signal, waited, request, exit>>
        /\ server["grpc"]' = server["grpc"] /\ (pc' = "launch" => UNCHANGED server)
    BY <1>2 DEF LoadConfig, Launch, Goto, IInv, TypeOK, Servers
  <2>2. \A r \in Requests : request[r] = "new"
    BY <2>1 DEF IInv, NothingEarly
  <2>3. TypeOK'
    <3>1. CASE LoadConfig
      BY <3>1 DEF LoadConfig, Goto, IInv, TypeOK, Configs
    <3>2. CASE Launch
      BY <3>2 DEF Launch, Goto, IInv, TypeOK, Servers
    <3> QED
      BY <1>2, <3>1, <3>2
  <2>4. NothingEarly' /\ RpcsServed' /\ StaysClosed' /\ StaysDrained'
    BY <2>1, <2>2 DEF IInv, NothingEarly, RpcsServed, StaysClosed, StaysDrained, AfterClose, AfterDrain,
                      Active, Servers
  <2>5. CutLate'
    BY <2>1, <2>2 DEF CutLate
  <2> QED
    BY <2>3, <2>4, <2>5 DEF IInv
<1>3. CASE Notify \/ Receive
  <2>1. /\ UNCHANGED <<serviceConfig, waited, server, request, exit>> /\ signal' \in BOOLEAN
        /\ \/ pc = "notify" /\ pc' = "receive"
           \/ pc = "receive" /\ pc' = "shutdown srv"
        /\ Running
    BY <1>3 DEF Notify, Receive, Goto, IInv, TypeOK
  <2>2. ssl' = ssl /\ \A s \in Servers : Active(s)' = Active(s)
    BY <2>1, QuietKeepsActive
  <2>3. TypeOK' /\ RpcsServed'
    BY <2>1, <2>2 DEF IInv, TypeOK, RpcsServed, Servers
  <2>4. NothingEarly' /\ StaysClosed' /\ StaysDrained'
    BY <2>1, <2>2 DEF IInv, NothingEarly, StaysClosed, StaysDrained, AfterClose, AfterDrain
  <2>5. CutLate'
    BY <2>1 DEF IInv, CutLate, Excused, Running
  <2> QED
    BY <2>3, <2>4, <2>5 DEF IInv
<1>4. CASE CloseSrv \/ CloseSslsrv
  <2>1. /\ UNCHANGED <<serviceConfig, signal, waited, request, exit>> /\ Running
        /\ \/ /\ pc = "shutdown srv" /\ pc' = "drain srv"
              /\ server' = [server EXCEPT !["srv"] = "closed"]
           \/ /\ pc = "shutdown sslsrv" /\ pc' = "drain sslsrv"
              /\ server' = [server EXCEPT !["sslsrv"] = "closed"]
    BY <1>4 DEF CloseSrv, CloseSslsrv, Close, Goto
  <2>2. ssl' = ssl /\ \A s \in Servers : Active(s)' = Active(s)
    BY <2>1, QuietKeepsActive
  <2>3. TypeOK' /\ RpcsServed'
    BY <2>1, <2>2 DEF IInv, TypeOK, RpcsServed, Servers
  <2>4. NothingEarly' /\ StaysClosed'
    BY <2>1, <2>2 DEF IInv, TypeOK, NothingEarly, StaysClosed, AfterClose, Servers
  <2>5. StaysDrained'
    BY <2>1, <2>2 DEF IInv, StaysDrained, AfterDrain, Servers
  <2>6. CutLate'
    BY <2>1 DEF IInv, CutLate, Excused, Running
  <2> QED
    BY <2>3, <2>4, <2>5, <2>6 DEF IInv
<1>5. CASE DrainSrv \/ DrainSslsrv
  <2>1. /\ UNCHANGED <<serviceConfig, signal, waited, server, request, exit>> /\ Running
        /\ \/ /\ pc = "drain srv" /\ pc' = IF ssl THEN "shutdown sslsrv" ELSE "stop"
              /\ Active("srv") = {} \/ waited = Grace
           \/ /\ pc = "drain sslsrv" /\ pc' = "stop"
              /\ Active("sslsrv") = {} \/ waited = Grace
    BY <1>5 DEF DrainSrv, DrainSslsrv, Drain, Goto, Returns, Expired
  <2>2. ssl' = ssl /\ \A s \in Servers : Active(s)' = Active(s)
    BY <2>1, QuietKeepsActive
  <2>3. TypeOK' /\ RpcsServed'
    BY <2>1, <2>2 DEF IInv, TypeOK, RpcsServed, Servers
  <2>4. NothingEarly' /\ StaysClosed'
    BY <2>1, <2>2 DEF IInv, NothingEarly, StaysClosed, AfterClose
  <2>5. ~ssl => Active("sslsrv") = {}
    BY Targets DEF Active
  <2>6. StaysDrained'
    BY <2>1, <2>2, <2>5 DEF IInv, StaysDrained, AfterDrain, Servers
  <2>7. CutLate'
    BY <2>1 DEF IInv, CutLate, Excused, Running
  <2> QED
    BY <2>3, <2>4, <2>6, <2>7 DEF IInv
<1>6. CASE Stop
  <2>1. /\ request' = [r \in Requests |->
                         IF Target(r) = "grpc" /\ request[r] = "running" THEN "cut" ELSE request[r]]
        /\ UNCHANGED <<serviceConfig, signal, waited, exit>> /\ pc = "stop" /\ pc' = "exit"
        /\ server' = [server EXCEPT !["grpc"] = "closed"]
        /\ exit = "no"
    BY <1>6 DEF Stop, Cut, Active, Goto, Running
  <2>2. /\ Active("grpc")' = {} /\ ssl' = ssl
        /\ \A s \in {"srv", "sslsrv"} : Active(s)' = Active(s)
    BY <2>1 DEF Active, Target, ssl
  <2>3. TypeOK' /\ RpcsServed'
    BY <2>1, <2>2 DEF IInv, TypeOK, RpcsServed, Servers
  <2>4. NothingEarly' /\ StaysClosed'
    BY <2>1, <2>2 DEF IInv, TypeOK, NothingEarly, StaysClosed, AfterClose, Servers
  <2>5. StaysDrained'
    BY <2>1, <2>2 DEF IInv, StaysDrained, AfterDrain
  <2>6. CutLate'
    BY <2>1, Targets DEF IInv, CutLate, Excused
  <2> QED
    BY <2>3, <2>4, <2>5, <2>6 DEF IInv
<1>7. CASE StopPanics
  BY <1>7, EndKeeps DEF StopPanics, Goto, IInv, TypeOK
<1>8. CASE Exit
  BY <1>8, EndKeeps DEF Exit, Goto, IInv, TypeOK
<1> QED
  BY <1>1, <1>2, <1>3, <1>4, <1>5, <1>6, <1>7, <1>8 DEF Main

\* The other goroutines.
LEMMA GoroutinesKeep ==
  ASSUME IInv, Goroutines
  PROVE  IInv'
<1>1. CASE GrpcListenFails \/ TickerPanics
  <2>1. PICK how \in {"fatal", "panic"} :
          /\ UNCHANGED <<serviceConfig, pc, waited, server>> /\ signal' \in BOOLEAN
          /\ Running /\ End(how)
          /\ \/ how = "fatal" /\ server["grpc"] = "nil"
             \/ how = "panic" /\ serviceConfig.period <= 0
    BY <1>1 DEF GrpcListenFails, GrpcStarting, TickerPanics, IInv, TypeOK
  <2>2. Excused'
    BY <2>1 DEF End, Excused
  <2> QED
    BY <2>1, <2>2, EndKeeps
<1>2. CASE GrpcCreate \/ GrpcServe \/ \E s \in Servers : Listen(s)
  <2>1. PICK t \in Servers, new \in {"created", "serving", "failed"} :
          /\ server' = [server EXCEPT ![t] = new]
          /\ server[t] # "closed" /\ pc \notin {"load", "launch"}
          /\ t = "grpc" => server[t] \in {"nil", "created"}
          /\ UNCHANGED <<serviceConfig, pc, signal, waited, request, exit>> /\ Running
    BY <1>2 DEF GrpcCreate, GrpcStarting, GrpcServe, Listen, Servers, IInv, NothingEarly
  <2>2. ssl' = ssl /\ \A s \in Servers : Active(s)' = Active(s)
    BY <2>1, QuietKeepsActive
  <2>3. TypeOK'
    BY <2>1, <2>2 DEF IInv, TypeOK, Servers
  <2>4. RpcsServed'
    BY <2>1, <2>2 DEF IInv, TypeOK, RpcsServed, Servers
  <2>5. NothingEarly' /\ StaysClosed'
    BY <2>1, <2>2 DEF IInv, TypeOK, NothingEarly, StaysClosed, AfterClose, Servers
  <2>6. StaysDrained'
    BY <2>1, <2>2 DEF IInv, StaysDrained, AfterDrain, Servers
  <2>7. CutLate'
    BY <2>1 DEF IInv, CutLate, Excused, Running
  <2> QED
    BY <2>3, <2>4, <2>5, <2>6, <2>7 DEF IInv
<1> QED
  BY <1>1, <1>2 DEF Goroutines

\* Clients and the interrupt.
LEMMA ClientsKeep ==
  ASSUME IInv, Clients
  PROVE  IInv'
<1>1. CASE Interrupt
  <2>1. CASE pc \in {"load", "launch", "notify"}
    <3>1. /\ UNCHANGED <<serviceConfig, pc, waited, server>> /\ signal' \in BOOLEAN
          /\ Running /\ End("killed")
      BY <1>1, <2>1 DEF Interrupt, IInv, TypeOK
    <3>2. Excused' \/ pc \in {"load", "launch"}
      BY <2>1, <3>1 DEF End, Excused
    <3> QED
      BY <3>1, <3>2, EndKeeps
  <2>2. CASE pc \notin {"load", "launch", "notify"}
    <3>1. /\ signal' = TRUE
          /\ UNCHANGED <<serviceConfig, pc, waited, server, request, exit>>
      BY <1>1, <2>2 DEF Interrupt
    <3>2. ssl' = ssl /\ \A s \in Servers : Active(s)' = Active(s)
      BY <3>1, QuietKeepsActive
    <3> QED
      BY <3>1, <3>2 DEF IInv, TypeOK, NothingEarly, RpcsServed, StaysClosed, StaysDrained,
                        AfterClose, AfterDrain, CutLate, Excused, Servers
  <2> QED
    BY <2>1, <2>2
<1>2. ASSUME NEW r \in Requests, Accept(r)
      PROVE  IInv'
  <2>1. /\ request' = [request EXCEPT ![r] = "running"] /\ server[Target(r)] = "serving"
        /\ UNCHANGED <<serviceConfig, pc, signal, waited, server, exit>>
        /\ Running
    BY <1>2 DEF Accept
  <2>2. ssl' = ssl /\ \A s \in Servers : s # Target(r) => Active(s)' = Active(s)
    <3>1. ssl' = ssl /\ \A q \in Requests : Target(q)' = Target(q)
      BY <2>1 DEF Target, ssl
    <3>2. \A q \in Requests : q # r => request'[q] = request[q]
      BY <2>1 DEF IInv, TypeOK
    <3> QED
      BY <3>1, <3>2 DEF Active
  <2>3. TypeOK' /\ RpcsServed'
    BY <2>1, <2>2 DEF IInv, TypeOK, RpcsServed, Servers
  <2>4. NothingEarly' /\ StaysClosed'
    BY <2>1, <2>2, Targets DEF IInv, NothingEarly, StaysClosed, AfterClose
  <2>5. StaysDrained'
    BY <2>1, <2>2, Targets DEF IInv, StaysDrained, StaysClosed, AfterDrain, AfterClose, Servers
  <2>6. CutLate'
    BY <2>1 DEF IInv, TypeOK, CutLate, Excused, Running
  <2> QED
    BY <2>3, <2>4, <2>5, <2>6 DEF IInv
<1>3. ASSUME NEW r \in Requests, Answer(r)
      PROVE  IInv'
  <2>1. /\ request' = [request EXCEPT ![r] = "answered"] /\ request[r] = "running"
        /\ UNCHANGED <<serviceConfig, pc, signal, waited, server, exit>>
        /\ Running
    BY <1>3 DEF Answer
  <2>2. ssl' = ssl /\ \A s \in Servers : Active(s)' \subseteq Active(s)
    BY <2>1 DEF Active, Target, ssl, IInv, TypeOK
  <2>3. TypeOK' /\ RpcsServed'
    BY <2>1, <2>2 DEF IInv, TypeOK, RpcsServed, Servers
  <2>4. NothingEarly' /\ StaysClosed' /\ StaysDrained'
    BY <2>1, <2>2 DEF IInv, NothingEarly, StaysClosed, StaysDrained, AfterClose, AfterDrain, Servers
  <2>5. CutLate'
    BY <2>1 DEF IInv, TypeOK, CutLate, Excused, Running
  <2> QED
    BY <2>3, <2>4, <2>5 DEF IInv
<1>4. ASSUME NEW r \in Requests, Throw(r)
      PROVE  IInv'
  <2>1. /\ UNCHANGED <<serviceConfig, pc, waited, server>> /\ signal' \in BOOLEAN
        /\ Running /\ End("throw") /\ Excused'
    BY <1>4 DEF Throw, End, Excused, IInv, TypeOK
  <2> QED
    BY <2>1, EndKeeps
<1> QED
  BY <1>1, <1>2, <1>3, <1>4 DEF Clients

LEMMA PassKeeps ==
  ASSUME IInv, Pass
  PROVE  IInv'
<1>1. /\ waited < Grace /\ waited' = waited + 1 /\ Running
      /\ UNCHANGED <<serviceConfig, pc, signal, server, request, exit>>
  BY DEF Pass
<1>2. ssl' = ssl /\ \A s \in Servers : Active(s)' = Active(s)
  BY <1>1, QuietKeepsActive
<1>3. waited' \in 0..Grace /\ waited # Grace
  <2>1. waited \in 0..Grace /\ Grace \in Nat
    BY LifecycleAssumption DEF IInv, TypeOK
  <2> QED
    BY <1>1, <2>1
<1>4. TypeOK' /\ RpcsServed'
  BY <1>1, <1>2, <1>3 DEF IInv, TypeOK, RpcsServed, Servers
<1>5. NothingEarly' /\ StaysClosed'
  BY <1>1, <1>2 DEF IInv, NothingEarly, StaysClosed, AfterClose
<1>6. StaysDrained'
  BY <1>1, <1>2, <1>3 DEF IInv, StaysDrained, AfterDrain, Servers
<1>7. CutLate'
  BY <1>1, <1>3 DEF IInv, CutLate, Excused, Running
<1> QED
  BY <1>4, <1>5, <1>6, <1>7 DEF IInv

\* Every step of the servers keeps the invariant.
LEMMA Inductive == IInv /\ [Next]_vars => IInv'
<1> SUFFICES ASSUME IInv, [Next]_vars PROVE IInv'
  OBVIOUS
<1>1. CASE UNCHANGED vars
  <2>1. UNCHANGED <<serviceConfig, pc, signal, waited, server, request, exit>>
    BY <1>1 DEF vars
  <2>2. ssl' = ssl /\ \A s \in Servers : Active(s)' = Active(s)
    BY <2>1, QuietKeepsActive
  <2>3. TypeOK' /\ RpcsServed'
    BY <2>1, <2>2 DEF IInv, TypeOK, RpcsServed, Servers
  <2>4. NothingEarly' /\ StaysClosed'
    BY <2>1, <2>2 DEF IInv, NothingEarly, StaysClosed, AfterClose
  <2>5. StaysDrained'
    BY <2>1, <2>2 DEF IInv, StaysDrained, AfterDrain, Servers
  <2>6. CutLate'
    BY <2>1 DEF IInv, CutLate, Excused
  <2> QED
    BY <2>3, <2>4, <2>5, <2>6 DEF IInv
<1> QED
  BY <1>1, MainKeeps, GoroutinesKeep, ClientsKeep, PassKeeps DEF Next

\* Whatever the configuration says and clients, handlers and interrupts do, a
\* REST request is cut only when the grace period is over, and an RPC only when
\* no REST request is left to wait for, unless one of the four things of Excused
\* has ended the process.
THEOREM GraceKept == Spec => [](TypeOK /\ CutOnlyAfterDeadline)
<1>1. IInv => TypeOK /\ CutOnlyAfterDeadline
  BY DEF IInv, StaysDrained, AfterDrain, CutLate, CutOnlyAfterDeadline
<1> QED
  BY InitIInv, Inductive, <1>1, PTL DEF Spec

=============================================================================
