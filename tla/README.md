# Verification of cel-service

TLA+ models of the service in `src/`, the TLC runs that check them, and TLAPS
proofs. The service evaluates expressions of Google's Common Expression
Language: a client sends a context and an expression, over REST or gRPC, and
gets a Boolean. Compiled expressions are kept in an LRU cache under an
identifier that the client chooses.

## The system

| Part | State | Operations |
|---|---|---|
| LRU cache, `internal/lrucache` | a list, a map into it, the mutex `dmu` | New, Put, Get, UpdateAccess, Remove, Has, GetFullIDList under the lock; Size, GetOldest, Clear without it |
| CEL processor, `internal/celproc` | the package variable `lcache`, two counters | ProcCel, ProcCelMany, GRPCProcCel, ClearCache |
| Entry points, `internal/apiv1`, `internal/csrv` | none | PostEval, PostEvalMany, Evaluate |
| Health, `internal/health` | the globals `healthy`, `healthmessage`, `lastChecked` | the ticker's goroutine; GET and HEAD /readyz |
| Lifecycle, `cmd/service` | three servers, the channel of signals | start, interrupt, shutdown |
| Router and middleware, `cmd/service`, `internal/api`, `internal/auth` | an unlocked map of metrics counters | API key, counter, token, handler of each request |
| Configuration, `internal/config` | a value that is computed once | Load, initConfig |
| Service errors, `internal/serror` | the registered wrappers | constructors, Wrap, Err |
| Logging, `internal/logging` | one logger, set up once | SetLevel, Init, a method per level |
| Certificates, `internal/crypt` | none | GenerateTLSConfig |
| Versions, slices, readers | values | parsing, comparison, search and removal |

The handlers of all three entry points run concurrently and call ProcCel,
which looks an identifier up in `lcache`, compiles when it has to, stores the
program and evaluates it. Lookup, compilation and store are separate critical
sections. What is hard, part by part:

- *LRU cache*: list and map must describe the same entries; Put takes them
  apart and puts them together again, and Size, GetOldest and Clear look or
  write without the lock.
- *CEL processor*: between a lookup and the store other callers use the same
  identifier for another expression, or evict it. Nobody may be evaluated by a
  program of somebody else's expression, and the cache must not show in an
  answer.
- *Entry points*: batches of several clients interleave model by model; each
  result has to keep its place; one failing model fails the batch and no more.
- *Health*: a goroutine that checks and the probes that watch it write the same
  globals without synchronisation, and everything depends on time.
- *Middleware*: requests look a counter up in a map, register and store it, all
  without a lock, and the registry refuses a name that is taken.
- *Lifecycle*: an interrupt at any moment of the start, handlers that hang, two
  servers that share one deadline, a pointer that another goroutine assigns,
  ports that the servers of one process take from each other.
- *Admission*: key and token are asked for under three conditions, on two
  routers that differ with ssl, and a jwt configuration that does not parse
  leaves a router without routes. Each request has to meet the one end that its
  configuration has for what it carries, for the first thing it lacks.

`PROJECT.json` lists each hazard at its line, with the properties that cover it.

## Modules

    LRUPromise        what an LRU cache promises: a map and an order of use
      ^ implemented by
    LRUCache          list and map, one step per call
      ^ implemented by (through the history of LRULinear)
    LRUThreads        one step per statement, mutex, goroutines

    CelEngine         requests, results, cel-go as constant functions
    Evaluation        a service without a cache
      ^ implemented by
    CelProc           ProcCel of concurrent callers; lcache is LRUPromise
      ^ extended by
    EvalService       PostEval, PostEvalMany, Evaluate over CelProc

    Health            ticker and probes over three globals, with time

    Config            defaults, file, flags: the configuration as a function
      ^ extended by
    Auth              which token of a request counts, and when it passes
      ^ extended by
    Lifecycle         main, three servers, clients, an interrupt
      ^ extended and implemented by
    Router            the requests' way through the middleware

    Serror            service errors; EvalService answers with them
    Logging, Certificate, Version, SlicesUtils     pure functions
    <module>Proofs            theorems of LRUCache, LRUThreads, CelProc,
                              EvalService, Health, Lifecycle, Router
    HelperProofs              theorems of the modules without a state
    MC<module>, MCEngine      instances for TLC

**LRUPromise** has a partial function `cached` and the recency order `older`. A
Put of a new key drops the oldest ones until there is room.

**LRUCache** has what the code has: `queue` is the `container/list`, as a
sequence of cells with the most recent in front, `entries` the map from
identifiers to cells, `value` the heap. `ret` is what the last call returned.
Each method is an action; the operations of `container/list` (PushFront,
MoveToFront, Back, Remove) are operators. Cells are reused when they are free,
which is what a garbage collector does.

**LRUThreads** makes each statement a step. `pc` names the next one, `node` and
`local` are the locals, `dmu` is the mutex, `Ops` says which calls each
goroutine makes. Clear is two assignments. A cell of a list that Clear has
replaced is in no queue, and MoveToFront and Remove ignore it, as
`container/list` does by comparing the element's list. A nil dereference runs
the deferred Unlock and ends the call as "panicked" (chi's Recoverer catches
it).

**CelEngine** keeps cel-go outside: `Compiler` says for each expression and set
of declared variables whether it compiles, `Evaluator` what a program gives for a
context. They are arbitrary constants, so no property depends on the language.
`Keys` is the definition of a context. What convertJson2Map makes of a value is
part of a context.

**CelProc** has the locals of each caller (`req`, `prg`, `res`), the counters
`builds` and `hits`, and the cache as an instance of LRUPromise, whose calls are
atomic: that is what the runs of LRUThreads show, and what MCLRUThreads_clear
shows to be wrong for Clear. A compiled program is the pair of its expression
and the variables it was compiled with, because that is what a later caller may
get from the cache.

**EvalService** adds the request each handler works on and its answer. A handler
of a batch calls ProcCel for one model after the other. GRPCProcCel copies context and
expression only, hence `Passed`. The body of a refusal is the Serr of
**Serror**, a record; the JSON text of an error stands for the record it encodes.

**Health** has one step per statement of doCheck, checkHealthCheckTimer and the
probes. A probe is a GET or a HEAD (`method`): GET answers by `healthy` (Read), HEAD
with render.NoContent, whose 204 no status set before changes (ReadHead). Time is an action: it passes whenever no bound forbids it, so any
goroutine may be late. The model keeps ages instead of clock values (`age` of
lastChecked, `since[h]` of a probe's reading), which keeps it finite. The ticker
drops a tick nobody has received. A torn read of the string `healthmessage` is a
disjunct of its own.

**Config** has a file and a command line as functions from the options that they
name. yaml.Unmarshal and flag.Parse are one operator (`Overlay`): what is not
named keeps its value. `DefaultConfig` and `FlagDefaults` are the code's.

**Auth** has what a request carries as a record: whether its key is the service's,
and the kind of token that is found in header and cookie. `VerifyRequest` is the
order in which internal/auth looks, `Authenticated` what the two filters make of it.
No signature is checked; the code does not check one either.

**Lifecycle** has the steps of main as `pc`, the configuration, the state of the
three servers, and the requests that clients have sent. LoadConfig computes
`serviceConfig` from a file and a command line; everything after reads it: which servers
there are, their ports (a port that another server of the process has bound is
taken), whether gRPC has tls, the period of the health check (TickerPanics).
http.Server.Shutdown, which waits for requests or for the context, and
grpc.Server.Stop, which does not wait, are modelled by what they do. A request may
take for ever. Its `Spec` is the service without filters; it is checked and proved
through Router.

**Router** adds where in the chain of filters each request is (`stage`) and what
the metrics middleware shares: the map `metrics` and the counters that are
`registered`. A write of the map has a begin and an end (Store, Stored). One that
overlaps another may be lost; an access during a write may be noticed by the
runtime, which ends the process (MapThrow). promauto panics when a name is taken,
which chi's Recoverer turns into a 500. What each request carries (`carries`) is
chosen once, from `Credentials`, and CheckKey and CheckToken decide by it. The
configuration decides which filters there are; an error of ParseJWTConfig leaves a
router without routes.

**Logging** and **Certificate** are functions from what they are given: where a
message of a level goes and whether the call ends the process; what a request
for a certificate and a set of failing library steps end in. **Version** has texts as sequences of fields of pieces, as strings.Split cuts
them; strconv is a constant. **SlicesUtils** gives with each result what the
caller's slice has become, which shares its array.

## Runs

| Run | Asks | Bounds |
|---|---|---|
| lru_sequential | Do list and map agree after any sequence of calls, and does every call do and return what LRUPromise says? | 4 identifiers for a capacity of 3, 4 cells: full, evicting, refilled |
| lru_linear | Is every locked call atomic, however two goroutines interleave, and do the calls add up to what LRUPromise promises? Is Size, unlocked, bounded? | capacity 2, 3 identifiers, a cell more for each goroutine |
| lru_all_calls | With the unlocked calls too: does a key lead to its own entry, is the lock held by exactly the goroutine that is inside, does every call end? | capacity 1, 2 identifiers |
| lru_clear | *violated*: is the size bounded when Clear is called concurrently? | as above |
| celproc_mixed | Two callers, shared identifiers, different expressions and context definitions, a cache that is evicted and cleared: does each caller run its own expression? Does the cache forget exactly its oldest program? | capacity 2, 3 identifiers, 6 lookups and compilations |
| celproc_stable | How often is a program compiled when nothing changes it? | 3 callers, 2 identifiers, 8 lookups and compilations |
| service | Do the three entry points answer as if there were no cache, in order, always? | 2 handlers, bodies of 0 to 2 models, two programs under one identifier, capacity 1 |
| service_grpc | *violated*: is a program reused over gRPC? | 2 handlers |
| service_ids | *violated*: does each result of a batch carry its id? | 2 handlers |
| health | Is the 200 of a GET right, is an alarm never false, does it pass? | period 2, a probe takes up to 2, two probes, each GET or HEAD |
| health_race | *violated*: is the check really not running when a probe says so? | same |
| server | Do REST requests get their grace period, does the process end, is each request counted, does each meet the end its configuration has for it? | two API requests of one metrics name, a probe of another, an RPC, grace 1, nine configuration files |

The bounds are the least at which the interesting cases meet. A cache that is
full and evicts shows at one entry and two identifiers; which of the entries is
the oldest takes two and a third identifier; the order of three needs
capacity 3. Two goroutines reach every interleaving of two critical sections, and
a third would only queue for the same lock. Two requests of one name race for
one counter while the probe writes the map for another. The nine files are the
combinations that make main or the router go different ways: without ssl and
filters; with key and a check period of zero; a tracer that cannot be made; with
key and two servers on one port; with key and token, on one router and on two; with
the token alone, and grpctsl without a certificate; a jwt configuration that does not
parse, on one router (the 404 is the probe's, too, and RPCs go on) and on two (the
health port goes on). The two API requests carry a good token in the cookie, no
key, and a header that is no token before a cookie that is; the probe carries
nothing. In the run `service` "a" stands for two expressions that compile, so
batches replace each other's program between two of their models, and their own. `MaxCounted` stops new calls, never
a step of a call under way, so every call ends within the bound. In Health the
ages saturate where no comparison tells them apart (`Oldest`, `TooLate`), and
`MaxStall` lets a probe sleep through the tick that refutes it.

### What the violated runs show

- **lru_clear**: Clear assigns the map and then the list, without the lock. A Put
  in between leaves a key whose element is in no list; it is never evicted, and
  the size exceeds the capacity. Only tests and benchmarks call Clear.
- **service_grpc**: GRPCProcCel drops the identifier, so gRPC requests never use
  the cache, although the README promises it for every call with one.
- **service_ids**: results of failed compilations and evaluations are built
  without an Id, so they cannot be told apart in a batch.
- **health_race**: a probe that has found the check overdue is delayed; the check
  completes; the probe then writes healthy = false, and the next probes are told
  that the check is not running. The next tick repairs it (`Recovers`).

### Differences from the documentation without a run

- **HEAD /readyz**: HeadReadiness (health.go:113-121) sets 200 or 503 by `healthy`, and
  then calls render.NoContent, which writes 204 in any case. The comment at
  health.go:112 calls it "is this service ready for taking requests"; a HEAD says that
  it is not only once the check is four periods late, by the 500 of the panic. Hence ReadyMeansAlive speaks of GET.
- **Errors of evaluations**: evalapi.go:54 and :93 annotate a 400 as `serror.Serr`. That is
  what a body that cannot be decoded and an empty expression get; a failed evaluation
  answers 400 with its CelResult, or the list of them (`Body`, `Status`), as README.md:70-76
  shows it and BatchAnswersInOrder has it.
- **gRPC "with the default port 50051 with TSL"** (README.md:129): the port is the flag's
  default, whatever the file says (GrpcPortOfTheFlag). TLS is not on by default: the
  flag's `true` is used only when the flag is given, and the configuration starts
  from false (GrpcPlainByDefault); configs/service.yaml asks for it.

### Fairness

Safety needs none. CallsEnd assumes that a goroutine that can run does, and that
a mutex somebody releases again and again is not refused to one waiter for ever
(Go's mutex hands itself to a waiter after a millisecond). RequestsAnswered
assumes the same of the handlers. Recovers assumes that time passes and the
goroutines run; that the ticker is punctual from some moment on is a premise of the
property, not of the model. InterruptEnds assumes that main runs and time passes, and nothing of
handlers, filters, servers or clients.

## Proofs

**LRUCacheProofs**, for any identifiers, payloads, cells and capacity: `IInv` is
inductive. IndexMatchesQueue alone is not: that an eviction removes exactly one
key needs the elements of the list to be distinct and each live cell to be linked.
The proof states this without positions in the list (`Consistent`), with lemmas on
what each list operation does to the set of its elements, and one lemma per call.
`SizeIsBounded` then gives that the equality test in Put suffices: the length
never passes the capacity. `PromiseKept` is the refinement: LRUCache implements
LRUPromise. Again positions are left behind: the order of use is which element
stands before which (`Before`), there is one lemma on what each list operation does to it
(`RemoveOrder`, `PushOrder`, `MoveOrder`, `BackOrder`), and one per call that turns
elements into the identifiers filed under them.

**LRUThreadsProofs**, for any goroutines and any choice of calls, in four parts.
The first holds whatever they call, Clear and GetOldest included: a cell says for
which identifier it was made (`MadeFor`), and the allocator does not hand it out
while the list, the map or a local refers to it, so an overwrite or a new cell
never changes whose entry it is that somebody holds (`Local`, `Heap`). OwnEntry alone is
not inductive, because a local that is set but not used yet must be right, too.
`LockDiscipline` is proved for all calls as well: the labels part into those between Lock
and Unlock and those of the calls that do not lock, and a goroutine is at one of the
former exactly while it is the owner (`HInv`); a nil dereference leaves them by the
deferred Unlock only.
The second is for goroutines that call what locks, and Size (`LockedOnly`; with
Clear it is false, as lru_clear shows). Who holds `dmu` is the only one inside a
call, so what is unfinished can be read off its label: at most one element of the
list has no key (`Gap`), all others match the map (`Match`), and the owner knows
whether its identifier is in the map and how long the list is (`Knows`). Each
statement opens the gap (deleting the victim's key, pushing the element, deleting
the key) or closes it. Between calls there is none, which is QuiescentConsistent;
the keys are never more than the elements, of which there are at most Capacity at
every statement, which is SizeWithinCapacity for a Size at any moment; and the list is
never empty where Back is dereferenced, which is NoPanic.
The third, for the same goroutines, is linearizability, `LockedCallsAreAtomic`:
LRUThreads with the history of LRULinear implements LRUCache. The cache as it was
when `dmu` was last released is what its next owner started from; `Doing` says,
label by label, how far that owner has brought it and that its result is already
the one LRUCache gives. At the deferred Unlock the cells in use are those of the list, because
nobody else holds one (`UnlockSweeps`), and what has been done is one call of LRUCache
(`UnlockIsCall`), to which the lock operations of the others add nothing.
The fourth, `GoroutinesKeepPromise`, goes from the statements up to LRUPromise. Linearizability
gives LRUCache for the history, and LRUCacheProofs is instantiated for the same
history (`Kept`), where its `PromiseKept` holds. What is left is that the two copies
of LRUCache, and the refinement mappings on top of them, are the same definition by
definition (`SameCalls`, `SameBars`, `SamePromise`).

**CelProcProofs**, for any number of callers, any requests, any compiler and
evaluator, and any capacity: `IInv` says of each caller, label by label, what it
knows, above all where its program comes from (`Origin`: a request with the same identifier
and expression, or its own), and of the cache that each entry is filed for what
it was compiled from. From it follow OwnExpression, Coherence and Explanation.
Refinement says that with `EqualDefinitions`, which the project's documentation
asks of clients ("The context definition should be equal"), CelProc implements
Evaluation: Compile, Eval and Reject map to a reply or a stutter, everything else
to a stutter, an ask or a leave. Without the premise it does not hold, and
Explanation says what does. BuildsAreBounded, which needs OneProgramPerIdentifier and
finitely many callers and identifiers, has no counter to lean on: nothing in the state
says who has compiled what. It counts pairs of a caller and an identifier that
can no longer compile (`Spent`): for an identifier that is not cached, the callers that are
about to store it; for one that is, all but those that looked too early. Every
compilation adds a pair, no step takes one away, because nothing is evicted
(`NoVictims`). OldestForgotten says that of a full cache exactly one entry makes room.
`Ordered`, the order of use as a strict total order of what is cached, is kept
by every use and every store (`TouchedOrdered`); that it has a first element needs
that the cache is finite: the entry with the fewest before it has none, or one of
those would have fewer (`SomeoneIsOldest`, the least number argument). So one store
drops one entry (`OneVictim`), and the size stays within the capacity.

**EvalServiceProofs**, for any handlers and bodies, on top of CelProc's invariant: what
a handler has collected are the stateless answers to the models it has asked so
far, in their order, and the caller inside ProcCel is at the next one
(`Progress`). AnswersInOrder and ServiceIsStateless need EqualDefinitions;
HandlersTyped, which says that no result is collected twice or too many, does not.
`ProcessorBehindHandlers` brings CelProc's own theorems to the service: a handler is a
caller as CelProc assumes them (`CallBegins`), in the middle of a batch too, so each model runs
its own expression and the cache forgets its oldest, whatever the definitions are.
EachResultExplained says of every place in a batch, and needs no premise either, that its
result depends on nothing but the requests that share identifier and expression with the model
there; an identifier that is empty shares nothing, hence a gRPC result is the stateless one.
(It is proved only: the run `service` has equal definitions, because it checks Transparent;
AnswerExplained, which says it of one call, is checked with unequal ones in celproc_mixed.)

**HealthProofs**, for any probes, period and delay: ReadyMeansAlive is not
inductive, because a GET that has raised an alarm gets to its 200 only through
a check that was completed since; what is carried along is that a probe that has
compared has found the check alive or the alarm stands (`AlarmStands`).
PunctualTickerNoAlarm follows from a bound on the age of `lastChecked` at each
statement of the check (`AgeBounded`), which a ticker that is at most a period late keeps
below the two periods of the probes; its premise `Outcomes = {TRUE}` is the check
of this code, which always succeeds.

**LifecycleProofs**, for any requests, any configurations and any grace period: `IInv` adds to
CutOnlyAfterDeadline what main relies on when it exits: a server it has shut down
accepts no more (`StaysClosed`), and one it has waited for has nothing running, or
the deadline is over (`StaysDrained`).

**RouterProofs**, for any finite number of requests and any names: every step of
Router is a step of Lifecycle or a stutter, with the same fairness
(`RouterIsLifecycle`), so the grace period holds with the middleware.
NothingUncounted needs to know where a counter can come from: the map has
registered counters only (`Mapped`; a lost write only loses a key), a request
that uses a counter holds the registered one (`Held`), which is registered for
its own name (`Owned`), and a new one has counted nothing (`Fresh`). Admission needs to know of
a request at each stage what the filters before it have asked,
and under which configuration the stage is mounted (`Fits`; `Screened` says so of
every request).

**HelperProofs**. *Configuration*: which of file and flag wins for each option;
the gRPC port of the file never does, no flag turns ssl off, gRPC is plain unless
asked. *Errors*: however often an error is wrapped, the first time decides.
*Logging*: Fatal ends the process at every level that can be configured, more
severe is never logged less, and no configuration makes a log file.
*Certificates*: GenerateTLSConfig never returns an error. *Versions*: the
comparisons are a strict order and its converse, and "neither greater nor smaller"
is not "equal": versions that differ in the special part alone are neither. Parsing
what String wrote keeps the numbers, and of the special part what stands before
its first dot or dash. *Slices*: a removal takes one occurrence and nothing else.

The type invariants of LRUCache, LRUThreads, CelProc, EvalService, Health and Router
are theorems too, each from the inductive invariant of its module.

The assumptions are those on the constants (`CapacityAssumption`,
`ThreadsAssumption`, `EngineAssumption`, `NilAssumption`, `BodiesAssumption`,
`HealthAssumption`, `LifecycleAssumption`, `RouterAssumption`), which TLC evaluates
on every run of those modules, and the premises that the theorems state: LockedOnly,
EqualDefinitions, OneProgramPerIdentifier with `Countable`, `Outcomes = {TRUE}`, and
in HelperProofs what strconv does with the pieces of a version (RoundTrip), that 127.0.0.1 is an IP address
(CertificateOfMain), that the registered wrappers return service errors
(`WrapperOK`), and the levels that can be configured (FatalEnds, SeverityMonotone).

Every invariant that a passing run checks is proved, and so are NoFalseAlarm and every
refinement; where a premise is needed it stands in the theorem, and the run
satisfies it. Only model-checked are the liveness properties (CallsEnd,
RequestsAnswered, Recovers, InterruptEnds): they rest on fairness and on when an
action is enabled, which the prover does not reason about. Out of its reach is, too,
what recurses over data.

## Not modelled

Readers and GenerateID have no caller in the service, the role check and the trace
filter are not mounted, and no handler sits behind Paginate. Of the configuration,
how a yaml file is read, the expansion of environment variables and the folders
are outside; readSecret can fail and does nothing else. How a key or a token is
decoded, the claims of a token, CORS, tracing, the pages under /client and the
content of /metrics are left out, as are the wording of messages and errors and the rotation
of log files. The case of `cel.NewEnv` failing, which the code logs and passes over, is
left out because which declarations cel-go refuses is not in the sources, and convertJson2Map is
part of the contexts. Generated code, the web page and the command-line clients
have no logic of the service.

## Plan

1. *Done*: the cache at three levels, ProcCel and its refinement, the entry
   points, health, configuration, lifecycle, tokens, middleware, errors, logging,
   certificates, versions, slices; theorems of all of them, of every invariant
   and refinement that the runs check.
2. *To prove next*: from which states an interrupt leads where, the safety half of
   InterruptEnds.
3. *Readers*: a state machine for readers that return short counts, against the
   equality of what they deliver.
4. *convertJson2Map* over bounded trees (recursive, for TLC only).
