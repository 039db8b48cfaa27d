------------------------------- MODULE Health -------------------------------
(***************************************************************************)
(* internal/health/health.go: the goroutine that runs the health check     *)
(* once a period, and the readiness probes that watch that goroutine.      *)
(* Both write the globals healthy and healthmessage, and nothing orders    *)
(* their statements; one step here is one statement.                       *)
(*                                                                         *)
(* Time advances in steps of one unit whenever nothing forbids it, so a    *)
(* goroutine may be late by any number of units.  It is kept relative: age *)
(* is the time since lastChecked, since[h] the time since probe h took its *)
(* reading t of the clock; t.Sub(lastChecked) is age - since[h].           *)
(***************************************************************************)
EXTENDS Integers

CONSTANTS Handlers,  \* goroutines that answer GET and HEAD /readyz
          Period,    \* healthcheck.period of the configuration
          MaxStall,  \* bound: how long a probe may take
          Outcomes,  \* what check may return; {TRUE} for the check in this code
          Nil

\* time.NewTicker panics for a period that is not positive: see Lifecycle.
ASSUME HealthAssumption ==
  /\ Period \in Nat \ {0} /\ MaxStall \in Nat
  /\ Outcomes \subseteq BOOLEAN

VARIABLES healthy, healthmessage, age,  \* the globals
          until,    \* time until the ticker sends
          tick,     \* whether background.C holds a tick
          late,     \* time since the check that is due became due
          tpc,      \* next statement of the ticker's goroutine
          outcome,  \* what check returned last
          pc,       \* next statement of each probe
          method,   \* of the request it answers
          since,    \* age of each probe's t
          reason    \* the message of a 503

globals == <<healthy, healthmessage, age>>
ticker == <<until, tick, late, tpc, outcome>>
probes == <<pc, method, since, reason>>
vars == <<globals, ticker, probes>>

\* Ages that no comparison tells apart.
Oldest == 4 * Period + 1 + MaxStall
TooLate == Period + 1
Least(a, b) == IF a < b THEN a ELSE b

NotRunning == "health check not running"

\* After InitHealthSystem, which runs the first check itself.
Init ==
  /\ outcome \in Outcomes
  /\ healthy = outcome
  /\ healthmessage = IF outcome THEN "" ELSE "msg"
  /\ age = 0
  /\ until = Period
  /\ tick = FALSE
  /\ late = 0
  /\ tpc = "wait"
  /\ pc = [h \in Handlers |-> "idle"]
  /\ method = [h \in Handlers |-> Nil]
  /\ since = [h \in Handlers |-> 0]
  /\ reason = [h \in Handlers |-> Nil]

Methods == {"GET", "HEAD"}
Due == tick \/ tpc # "wait"
Busy(h) == pc[h] # "idle"

\* One unit of time.  The ticker drops a tick when the last one is still there.
Pass ==
  /\ \A h \in Handlers : Busy(h) => since[h] < MaxStall
  /\ age' = Least(age + 1, Oldest)
  /\ until' = IF until = 1 THEN Period ELSE until - 1
  /\ tick' = (tick \/ until = 1)
  /\ late' = IF Due THEN Least(late + 1, TooLate) ELSE 0
  /\ since' = [h \in Handlers |-> IF Busy(h) THEN since[h] + 1 ELSE 0]
  /\ UNCHANGED <<healthy, healthmessage, tpc, outcome, pc, method, reason>>

-----------------------------------------------------------------------------
(* doCheck, called for each tick.                                          *)

TickerGoto(from, to) == tpc = from /\ tpc' = to

Receive ==
  /\ TickerGoto("wait", "check")
  /\ tick
  /\ tick' = FALSE
  /\ UNCHANGED <<globals, until, late, outcome, probes>>

\* Fault: a bad result is written, a good one does not take the alarm back.
KeepUnhealthy ==
  /\ TickerGoto("check", "message")
  /\ outcome' \in Outcomes
  /\ healthy' = (healthy /\ outcome')
  /\ UNCHANGED <<healthmessage, age, until, tick, late, probes>>

\* healthy, msg = check(tracer)
Check ==
  /\ TickerGoto("check", "message")
  /\ outcome' \in Outcomes
  /\ healthy' = outcome'
  /\ UNCHANGED <<healthmessage, age, until, tick, late, probes>>

\* The global healthy is read again; msg is "healthy" after a good check.
SetMessage ==
  /\ TickerGoto("message", "time")
  /\ healthmessage' = IF healthy THEN "" ELSE IF outcome THEN "healthy" ELSE "msg"
  /\ UNCHANGED <<healthy, age, until, tick, late, outcome, probes>>

\* lastChecked = time.Now()
SetTime ==
  /\ TickerGoto("time", "wait")
  /\ age' = 0
  /\ late' = 0
  /\ UNCHANGED <<healthy, healthmessage, until, tick, outcome, probes>>

Tick == Receive \/ Check \/ SetMessage \/ SetTime

-----------------------------------------------------------------------------
(* GetReadiness and HeadReadiness.                                         *)

Goto(h, from, to) == pc[h] = from /\ pc' = [pc EXCEPT ![h] = to]

\* Fault: >= instead of >.
AlmostOverdue(h, n) == age - since[h] >= n * Period

\* t.Sub(lastChecked) > n * period
Overdue(h, n) == age - since[h] > n * Period

\* t := time.Now()
Ask(h) ==
  /\ Goto(h, "idle", "compare")
  /\ \E m \in Methods : method' = [method EXCEPT ![h] = m]
  /\ UNCHANGED <<globals, ticker, since, reason>>

Compare(h) ==
  /\ Goto(h, "compare", IF Overdue(h, 2) THEN "alarm" ELSE "read")
  /\ UNCHANGED <<globals, ticker, method, since, reason>>

\* Fault: the alarm is not raised.
SilentAlarm(h) ==
  /\ Goto(h, "alarm", "explain")
  /\ UNCHANGED <<globals, ticker, method, since, reason>>

\* healthy = false
Alarm(h) ==
  /\ Goto(h, "alarm", "explain")
  /\ healthy' = FALSE
  /\ UNCHANGED <<healthmessage, age, ticker, method, since, reason>>

Explain(h) ==
  /\ Goto(h, "explain", "compareAgain")
  /\ healthmessage' = NotRunning
  /\ UNCHANGED <<healthy, age, ticker, method, since, reason>>

\* lastChecked is read a second time.
CompareAgain(h) ==
  /\ Goto(h, "compareAgain", IF Overdue(h, 4) THEN "panicked" ELSE "read")
  /\ UNCHANGED <<globals, ticker, method, since, reason>>

\* if healthy, of GetReadiness
Read(h) ==
  /\ method[h] = "GET"
  /\ Goto(h, "read", IF healthy THEN "ok" ELSE "unavailable")
  /\ UNCHANGED <<globals, ticker, method, since, reason>>

\* HeadReadiness sets a status by healthy and ends in render.NoContent, which
\* writes 204 in any case.
ReadHead(h) ==
  /\ method[h] = "HEAD"
  /\ Goto(h, "read", "204")
  /\ UNCHANGED <<globals, ticker, method, since, reason>>

\* The message of GetReadiness.
ReadMessage(h) ==
  /\ Goto(h, "unavailable", "503")
  /\ reason' = [reason EXCEPT ![h] = healthmessage]
  /\ UNCHANGED <<globals, ticker, method, since>>

\* A string is two words, and nothing keeps a reader from taking one of them
\* before and one after a write: a length with no text behind it is a nil
\* dereference.  (A comparison reads one word of lastChecked, its ext.)
TornMessage(h) ==
  /\ Goto(h, "unavailable", "panicked")
  /\ tpc = "message" \/ \E g \in Handlers : pc[g] = "explain"
  /\ UNCHANGED <<globals, ticker, method, since, reason>>

\* Fault: the message outlives the response.
KeepReason(h) ==
  /\ pc[h] \in {"ok", "503", "204", "panicked"}
  /\ pc' = [pc EXCEPT ![h] = "idle"]
  /\ method' = [method EXCEPT ![h] = Nil]
  /\ since' = [since EXCEPT ![h] = 0]
  /\ UNCHANGED <<globals, ticker, reason>>

\* The response is written.  A panic ends in middleware.Recoverer, as a 500.
Finish(h) ==
  /\ pc[h] \in {"ok", "503", "204", "panicked"}
  /\ pc' = [pc EXCEPT ![h] = "idle"]
  /\ method' = [method EXCEPT ![h] = Nil]
  /\ since' = [since EXCEPT ![h] = 0]
  /\ reason' = [reason EXCEPT ![h] = Nil]
  /\ UNCHANGED <<globals, ticker>>

Answer(h) ==
  \/ Compare(h) \/ Alarm(h) \/ Explain(h) \/ CompareAgain(h)
  \/ Read(h) \/ ReadHead(h) \/ ReadMessage(h) \/ TornMessage(h) \/ Finish(h)

Next == Pass \/ Tick \/ \E h \in Handlers : Ask(h) \/ Answer(h)

\* Time goes on, and goroutines that can run are scheduled.
Spec ==
  /\ Init /\ [][Next]_vars
  /\ WF_vars(Pass) /\ WF_vars(Tick)
  /\ \A h \in Handlers : WF_vars(Answer(h))

-----------------------------------------------------------------------------
(* Properties.                                                             *)

Messages == {"", "msg", "healthy", NotRunning}

\* Every variable has its type; a probe has a method while it runs and a reason
\* only for its 503.
TypeOK ==
  /\ healthy \in BOOLEAN /\ healthmessage \in Messages /\ age \in 0..Oldest
  /\ until \in 1..Period /\ tick \in BOOLEAN /\ late \in 0..TooLate
  /\ tpc \in {"wait", "check", "message", "time"} /\ outcome \in Outcomes
  /\ pc \in [Handlers -> {"idle", "compare", "alarm", "explain", "compareAgain",
                          "read", "ok", "unavailable", "503", "204", "panicked"}]
  /\ method \in [Handlers -> Methods \cup {Nil}]
  /\ since \in [Handlers -> 0..MaxStall]
  /\ reason \in [Handlers -> Messages \cup {Nil}]
  /\ \A h \in Handlers : IF Busy(h) THEN method[h] \in Methods ELSE method[h] = Nil
  /\ \A h \in Handlers : IF pc[h] = "503" THEN reason[h] \in Messages ELSE reason[h] = Nil

\* GET /readyz answers 200 only if a check was completed at most two periods
\* before it read the clock, or one is being completed now: to GET, a health
\* check that hangs is not reported as healthy, whatever the goroutines do in
\* between.  (Not so to HEAD, whose 204 says nothing about the check.)
ReadyMeansAlive ==
  \A h \in Handlers : pc[h] = "ok" => ~Overdue(h, 2) \/ tpc \in {"message", "time"}

\* A ticker that is never more than a period late raises no alarm.
Punctual == late <= Period
NoFalseAlarm ==
  []Punctual => [](\A h \in Handlers : pc[h] \notin {"alarm", "explain", "panicked"})

\* Once the ticker is punctual again, every alarm passes, also those that a
\* slow probe writes after the check that refutes them (for a check that
\* succeeds).
Recovers == <>[]Punctual => <>[]healthy

\* The comment on checkHealthCheckTimer: "checking if the health system (namly
\* the timer task) is working or stopped".  A probe that says it is not
\* running is wrong if a check was completed before it read the clock and not
\* even a period has passed since.
NotRunningIsTrue ==
  \A h \in Handlers :
    pc[h] = "503" /\ reason[h] = NotRunning => age > Period \/ age <= since[h]
=============================================================================
