----------------------------- MODULE Lifecycle -----------------------------
(***************************************************************************)
(* cmd/service/main.go: main starts an http server, an https server when   *)
(* an sslport is configured, and a gRPC server, each in its own goroutine; *)
(* an interrupt makes it shut them down one after the other and exit.      *)
(* What it starts depends on the configuration.                            *)
(*                                                                         *)
(* The servers are libraries: http.Server.Shutdown closes the listener and *)
(* waits until no request is running or the context is done, and           *)
(* grpc.Server.Stop closes its connections at once.                        *)
(***************************************************************************)
EXTENDS Auth

CONSTANTS Requests,  \* requests that clients may send, one attempt each
          Kind,      \* what each asks for: "probe", "api" or "rpc"
          Grace,     \* time units of the shutdown context (15 seconds)
          Files,     \* what the configuration file may say
          Lines      \* command lines

Servers == {"srv", "sslsrv", "grpc"}

ASSUME LifecycleAssumption ==
  /\ Kind \in [Requests -> {"probe", "api", "rpc"}]
  /\ Grace \in Nat \ {0}

VARIABLES serviceConfig,
          pc,       \* next step of main
          signal,   \* whether the channel c holds an interrupt
          waited,   \* time since the shutdown context was made
          server,   \* state of each server; "nil" is a nil pointer
          request,  \* state of each request
          exit      \* how the process ended

vars == <<serviceConfig, pc, signal, waited, server, request, exit>>

Init ==
  /\ serviceConfig = DefaultConfig
  /\ pc = "load"
  /\ signal = FALSE
  /\ waited = 0
  /\ server = [s \in Servers |-> "nil"]
  /\ request = [r \in Requests |-> "new"]
  /\ exit = "no"

Running == exit = "no"
Goto(from, to) == Running /\ pc = from /\ pc' = to

ssl == serviceConfig.sslport > 0

\* Without ssl one server answers everything; with ssl srv has the probes.
Target(r) == CASE Kind[r] = "probe" -> "srv"
               [] Kind[r] = "api" -> IF ssl THEN "sslsrv" ELSE "srv"
               [] Kind[r] = "rpc" -> "grpc"

Active(s) == {r \in Requests : Target(r) = s /\ request[r] = "running"}
Cut(rs) == request' = [r \in Requests |-> IF r \in rs THEN "cut" ELSE request[r]]

\* The process ends; what it was working on gets no answer.
End(how) ==
  /\ exit' = how
  /\ Cut(UNION {Active(s) : s \in Servers})

-----------------------------------------------------------------------------
(* Start.                                                                  *)

\* No configuration folder: a panic.  No file or secret file that can be read:
\* os.Exit(1).
LoadFails ==
  /\ Goto("load", "load")
  /\ \E how \in {"config", "panic"} : End(how)
  /\ UNCHANGED <<serviceConfig, signal, waited, server>>

LoadConfig ==
  /\ Goto("load", "launch")
  /\ \E file \in Files, line \in Lines : serviceConfig' = initConfig(Load(file), line)
  /\ UNCHANGED <<signal, waited, server, request, exit>>

\* initJaeger panics over a bad endpoint, and GenerateTLSConfig ends the process
\* itself when it cannot make a certificate.
LaunchFails ==
  /\ Goto("launch", "launch")
  /\ \/ serviceConfig.tracing = "bad" /\ End("panic")
     \/ serviceConfig.tracing # "bad" /\ ssl /\ End("fatal")
  /\ UNCHANGED <<serviceConfig, signal, waited, server>>

\* The servers are made and their goroutines started.  An error of apiRoutes is
\* only logged.
Launch ==
  /\ Goto("launch", "notify")
  /\ serviceConfig.tracing # "bad"
  /\ server' = [server EXCEPT !["srv"] = "created", !["sslsrv"] = IF ssl THEN "created" ELSE "nil"]
  /\ UNCHANGED <<serviceConfig, signal, waited, request, exit>>

\* The goroutine of InitHealthSystem: time.NewTicker panics, which nobody recovers.
TickerPanics ==
  /\ Running /\ pc # "load" /\ serviceConfig.period <= 0
  /\ End("panic")
  /\ UNCHANGED <<serviceConfig, pc, signal, waited, server>>

\* signal.Notify(c, os.Interrupt)
Notify ==
  /\ Goto("notify", "receive")
  /\ UNCHANGED <<serviceConfig, signal, waited, server, request, exit>>

Port(s) == CASE s = "srv" -> serviceConfig.port
             [] s = "sslsrv" -> serviceConfig.sslport
             [] s = "grpc" -> serviceConfig.grpcport

Bound(s) == server[s] = "serving" \/ (s = "grpc" /\ server[s] = "created")

\* No other server of this process has the port; the system chooses one for 0.
Free(s) ==
  \/ Port(s) = 0
  \/ \A t \in Servers \ {s} : Bound(t) => Port(t) # Port(s)

\* ListenAndServe of a goroutine; after Shutdown it returns at once.  When the
\* port is taken, by whomever, that is only logged.
Listen(s) ==
  /\ Running /\ s # "grpc" /\ server[s] = "created"
  /\ \/ Free(s) /\ server' = [server EXCEPT ![s] = "serving"]
     \/ server' = [server EXCEPT ![s] = "failed"]
  /\ UNCHANGED <<serviceConfig, pc, signal, waited, request, exit>>

\* initGRPCServer has been started and has not come to grpc.NewServer yet.
GrpcStarting == Running /\ pc \notin {"load", "launch"} /\ server["grpc"] = "nil"

\* A port that is taken ends the process here.
GrpcListenFails ==
  /\ GrpcStarting
  /\ End("fatal")
  /\ UNCHANGED <<serviceConfig, pc, signal, waited, server>>

\* net.Listen and grpcServer = grpc.NewServer(opts...)
GrpcCreate ==
  /\ GrpcStarting /\ Free("grpc")
  /\ server' = [server EXCEPT !["grpc"] = "created"]
  /\ UNCHANGED <<serviceConfig, pc, signal, waited, request, exit>>

GrpcServe ==
  /\ Running /\ server["grpc"] = "created"
  /\ server' = [server EXCEPT !["grpc"] = "serving"]
  /\ UNCHANGED <<serviceConfig, pc, signal, waited, request, exit>>

-----------------------------------------------------------------------------
(* Clients.                                                                *)

\* With grpctsl gRPC uses the certificate of sslsrv; without ssl there is none
\* and every handshake fails.
Reachable(r) == Kind[r] = "rpc" /\ serviceConfig.grpctsl => ssl

Accept(r) ==
  /\ Running /\ request[r] = "new" /\ server[Target(r)] = "serving"
  /\ Reachable(r)
  /\ request' = [request EXCEPT ![r] = "running"]
  /\ UNCHANGED <<serviceConfig, pc, signal, waited, server, exit>>

Answer(r) ==
  /\ Running /\ request[r] = "running"
  /\ request' = [request EXCEPT ![r] = "answered"]
  /\ UNCHANGED <<serviceConfig, pc, signal, waited, server, exit>>

\* A handler runs into a fatal error of the Go runtime, which nothing recovers.
Throw(r) ==
  /\ Running /\ request[r] = "running"
  /\ End("throw")
  /\ UNCHANGED <<serviceConfig, pc, signal, waited, server>>

-----------------------------------------------------------------------------
(* Interrupt and shutdown.                                                 *)

\* Before Notify an interrupt kills the process.  Afterwards c holds one; what
\* does not fit is dropped, and nothing receives a second one.
Interrupt ==
  /\ Running
  /\ IF pc \in {"load", "launch", "notify"}
     THEN End("killed") /\ UNCHANGED signal
     ELSE signal' = TRUE /\ UNCHANGED <<request, exit>>
  /\ UNCHANGED <<serviceConfig, pc, waited, server>>

Receive ==
  /\ Goto("receive", "shutdown srv")
  /\ signal
  /\ signal' = FALSE
  /\ UNCHANGED <<serviceConfig, waited, server, request, exit>>

InShutdown == pc \notin {"load", "launch", "notify", "receive"}

\* Time, as the shutdown context measures it.
Pass ==
  /\ Running /\ InShutdown /\ waited < Grace
  /\ waited' = waited + 1
  /\ UNCHANGED <<serviceConfig, pc, signal, server, request, exit>>

\* Fault: a context without a deadline.
NeverExpired == FALSE
\* context.WithTimeout(context.Background(), time.Second*15)
Expired == waited = Grace

\* When Shutdown(ctx) returns.
Returns(s) == Active(s) = {} \/ Expired

Close(s, from, to) ==
  /\ Goto(from, to)
  /\ server' = [server EXCEPT ![s] = "closed"]
  /\ UNCHANGED <<serviceConfig, signal, waited, request, exit>>

Drain(s, from, to) ==
  /\ Goto(from, to)
  /\ Returns(s)
  /\ UNCHANGED <<serviceConfig, signal, waited, server, request, exit>>

CloseSrv == Close("srv", "shutdown srv", "drain srv")
DrainSrv == Drain("srv", "drain srv", IF ssl THEN "shutdown sslsrv" ELSE "stop")
CloseSslsrv == Close("sslsrv", "shutdown sslsrv", "drain sslsrv")
\* Fault: go sslsrv.Shutdown(ctx).
Detach == Goto("drain sslsrv", "stop") /\ UNCHANGED <<serviceConfig, signal, waited, server, request, exit>>

DrainSslsrv == Drain("sslsrv", "drain sslsrv", "stop")

\* Fault: no request is cut.
StopLeaving ==
  /\ Goto("stop", "exit")
  /\ server["grpc"] # "nil"
  /\ server' = [server EXCEPT !["grpc"] = "nil"]
  /\ UNCHANGED <<serviceConfig, signal, waited, request, exit>>

\* grpcServer.Stop()
Stop ==
  /\ Goto("stop", "exit")
  /\ server["grpc"] # "nil"
  /\ server' = [server EXCEPT !["grpc"] = "closed"]
  /\ Cut(Active("grpc"))
  /\ UNCHANGED <<serviceConfig, signal, waited, exit>>

\* initGRPCServer has not assigned grpcServer yet: a nil dereference.
StopPanics ==
  /\ Goto("stop", "stop")
  /\ server["grpc"] = "nil"
  /\ End("panic")
  /\ UNCHANGED <<serviceConfig, signal, waited, server>>

\* os.Exit(0)
Exit ==
  /\ Goto("exit", "exit")
  /\ End("ok")
  /\ UNCHANGED <<serviceConfig, signal, waited, server>>

Main ==
  \/ LoadFails \/ LoadConfig \/ LaunchFails \/ Launch \/ Notify \/ Receive
  \/ CloseSrv \/ DrainSrv \/ CloseSslsrv \/ DrainSslsrv \/ Stop \/ StopPanics \/ Exit

Goroutines ==
  \/ TickerPanics \/ GrpcListenFails \/ GrpcCreate \/ GrpcServe
  \/ \E s \in Servers : Listen(s)
Clients == Interrupt \/ \E r \in Requests : Accept(r) \/ Answer(r) \/ Throw(r)

Next == Main \/ Goroutines \/ Clients \/ Pass

\* main is scheduled and time goes on; handlers may hang, servers may stay slow.
Spec == Init /\ [][Next]_vars /\ WF_vars(Main) /\ WF_vars(Pass)

-----------------------------------------------------------------------------
(* Properties.                                                             *)

Configs == {initConfig(Load(file), line) : file \in Files, line \in Lines}

\* Every variable has its type, and once gRPC is closed no RPC is running.
TypeOK ==
  /\ serviceConfig \in IF pc = "load" THEN {DefaultConfig} ELSE Configs
  /\ signal \in BOOLEAN /\ waited \in 0..Grace
  /\ pc \in {"load", "launch", "notify", "receive", "shutdown srv", "drain srv",
             "shutdown sslsrv", "drain sslsrv", "stop", "exit"}
  /\ server \in [Servers -> {"nil", "created", "serving", "failed", "closed"}]
  /\ request \in [Requests -> {"new", "running", "answered", "cut"}]
  /\ exit \in {"no", "config", "killed", "fatal", "panic", "throw", "ok"}
  /\ pc = "exit" => server["grpc"] = "closed" /\ Active("grpc") = {}

\* What may end the process at any time: an interrupt before main asks for it, a
\* gRPC port that is taken while gRPC starts, a check period that is no period,
\* and a fatal error in a handler.
Excused ==
  \/ exit = "killed" /\ pc = "notify"
  \/ exit = "fatal" /\ server["grpc"] = "nil"
  \/ exit = "panic" /\ serviceConfig.period <= 0
  \/ exit = "throw"

\* A REST request that runs when the interrupt arrives is answered, unless it
\* takes longer than the grace period that both servers share; also requests
\* that sslsrv accepts while main still waits for srv.  RPCs get no grace, but
\* they are cut only when no REST request is left or its time is over: never by
\* a stop that leaves REST requests to be cut later, and never by the panic of
\* an interrupt that comes before gRPC.
CutOnlyAfterDeadline ==
  \A r \in Requests :
    request[r] = "cut" =>
      \/ waited = Grace
      \/ Excused
      \/ Kind[r] = "rpc" /\ pc = "exit" /\ Active("srv") \cup Active("sslsrv") = {}

\* An interrupt ends the process, also when a handler hangs, a server never
\* came up or gRPC is not ready.
InterruptEnds == signal ~> ~Running
=============================================================================
