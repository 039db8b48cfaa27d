---------------------------- MODULE HealthProofs ----------------------------
(***************************************************************************)
(* Proofs about Health, for any number of probes, any period and any bound *)
(* on how long a probe takes.                                              *)
(*                                                                         *)
(* ReadyMeansAlive is not inductive: a probe that found the check overdue  *)
(* and raised the alarm reaches a 200 only through a check that has been *)
(* completed since, so what is carried along is the alarm.                 *)
(***************************************************************************)
EXTENDS Health, TLAPS

\* A check was completed at most two periods before the probe's t, or it is being
\* completed.
Alive(h) == ~Overdue(h, 2) \/ tpc \in {"message", "time"}

\* A probe that has compared found the check alive or has raised the alarm.
Compared == {"explain", "compareAgain", "read"}
AlarmStands == \A h \in Handlers : pc[h] \in Compared => Alive(h) \/ ~healthy

IInv == TypeOK /\ AlarmStands /\ ReadyMeansAlive

LEMMA Constants ==
  /\ Period \in Int /\ Period > 0
  /\ MaxStall \in Int /\ MaxStall >= 0
  /\ Oldest = 4 * Period + 1 + MaxStall /\ TooLate = Period + 1
BY HealthAssumption DEF Oldest, TooLate

\* Time changes nothing about the comparison that a probe has made or will make.
LEMMA PassKeepsOverdue ==
  ASSUME TypeOK, Pass, NEW h \in Handlers, pc[h] # "idle"
  PROVE  (age' - since'[h] > 2 * Period) <=> (age - since[h] > 2 * Period)
<1>1. age \in Int /\ age <= Oldest /\ since[h] \in Int /\ since[h] < MaxStall
  BY Constants DEF TypeOK, Pass, Busy
<1>2. since'[h] = since[h] + 1 /\ age' = IF age + 1 < Oldest THEN age + 1 ELSE Oldest
  BY DEF Pass, Busy, Least, TypeOK
<1> QED
  BY <1>1, <1>2, Constants

LEMMA InitIInv == Init => IInv
<1> SUFFICES ASSUME Init PROVE IInv
  OBVIOUS
<1>1. 0 \in 0..Oldest /\ Period \in 1..Period /\ 0 \in 0..TooLate /\ 0 \in 0..MaxStall
  BY Constants
<1>2. outcome \in BOOLEAN /\ outcome \in Outcomes
  BY HealthAssumption DEF Init
<1>3. healthy \in BOOLEAN /\ healthmessage \in Messages
  BY <1>2 DEF Init, Messages
<1>4. /\ pc \in [Handlers -> {"idle"}] /\ method \in [Handlers -> {Nil}]
      /\ since \in [Handlers -> {0}] /\ reason \in [Handlers -> {Nil}]
      /\ age = 0 /\ until = Period /\ late = 0 /\ tick = FALSE /\ tpc = "wait"
  BY DEF Init
<1>5. TypeOK
  BY <1>1, <1>2, <1>3, <1>4 DEF TypeOK, Busy
<1> QED
  BY <1>4, <1>5 DEF IInv, AlarmStands, ReadyMeansAlive, Compared

LEMMA PassKeeps == IInv /\ Pass => IInv'
<1> SUFFICES ASSUME IInv, Pass PROVE IInv'
  OBVIOUS
<1>1. TypeOK'
  <2>1. age' \in 0..Oldest /\ until' \in 1..Period /\ late' \in 0..TooLate
    BY Constants DEF IInv, TypeOK, Pass, Least
  <2>2. since' \in [Handlers -> 0..MaxStall]
    BY Constants DEF IInv, TypeOK, Pass, Busy
  <2> QED
    BY <2>1, <2>2 DEF IInv, TypeOK, Pass, Busy
<1>2. \A h \in Handlers : pc[h] # "idle" => Alive(h)' = Alive(h)
  BY PassKeepsOverdue DEF IInv, Alive, Overdue, Pass
<1>3. pc' = pc /\ healthy' = healthy
  BY DEF Pass
<1>4. AlarmStands'
  BY <1>2, <1>3 DEF IInv, AlarmStands, Compared
<1>5. ReadyMeansAlive'
  BY <1>2, <1>3 DEF IInv, ReadyMeansAlive, Alive
<1> QED
  BY <1>1, <1>4, <1>5 DEF IInv

LEMMA TickKeeps == IInv /\ Tick => IInv'
<1> SUFFICES ASSUME IInv, Tick PROVE IInv'
  OBVIOUS
<1>1. pc' = pc /\ method' = method /\ since' = since /\ reason' = reason
  BY DEF Tick, Receive, Check, SetMessage, SetTime, probes
<1>2. TypeOK'
  <2>1. outcome' \in Outcomes /\ healthy' \in BOOLEAN
    BY HealthAssumption DEF IInv, TypeOK, Tick, Receive, Check, SetMessage, SetTime, globals
  <2>2. age' \in 0..Oldest /\ until' \in 1..Period /\ late' \in 0..TooLate
    <3>1. /\ until' = until
          /\ age' = age \/ age' = 0
          /\ late' = late \/ late' = 0
      BY DEF Tick, Receive, Check, SetMessage, SetTime, globals
    <3> QED
      BY <3>1, Constants DEF IInv, TypeOK
  <2>3. healthmessage' \in Messages
    <3>1. CASE SetMessage
      <4>1. healthmessage' = "" \/ healthmessage' = "healthy" \/ healthmessage' = "msg"
        BY <3>1 DEF SetMessage
      <4> QED
        BY <4>1 DEF Messages
    <3>2. CASE Receive \/ Check \/ SetTime
      BY <3>2 DEF IInv, TypeOK, Receive, Check, SetTime, globals
    <3> QED
      BY <3>1, <3>2 DEF Tick
  <2>4. tick' \in BOOLEAN
    BY DEF IInv, TypeOK, Tick, Receive, Check, SetMessage, SetTime
  <2>5. tpc' \in {"wait", "check", "message", "time"}
    BY DEF Tick, Receive, Check, SetMessage, SetTime, TickerGoto
  <2> QED
    BY <1>1, <2>1, <2>2, <2>3, <2>4, <2>5 DEF IInv, TypeOK, Busy
<1>3. CASE Receive
  <2>1. tpc = "wait" /\ age' = age /\ healthy' = healthy
    BY <1>3 DEF Receive, TickerGoto, globals
  <2> QED
    BY <1>1, <1>2, <2>1 DEF IInv, AlarmStands, ReadyMeansAlive, Alive, Overdue
<1>4. CASE Check \/ SetMessage
  <2>1. tpc' \in {"message", "time"}
    BY <1>4 DEF Check, SetMessage, TickerGoto
  <2> QED
    BY <1>2, <2>1 DEF IInv, AlarmStands, ReadyMeansAlive, Alive
<1>5. CASE SetTime
  <2>1. \A h \in Handlers : ~(age' - since'[h] > 2 * Period)
    BY <1>1, <1>5, Constants DEF SetTime, IInv, TypeOK
  <2> QED
    BY <1>2, <2>1 DEF IInv, AlarmStands, ReadyMeansAlive, Alive, Overdue
<1> QED
  BY <1>3, <1>4, <1>5 DEF Tick

\* A step of a probe.
Probe(h) == Ask(h) \/ Answer(h)

LEMMA ProbeTyped ==
  ASSUME TypeOK, NEW h \in Handlers, Probe(h)
  PROVE  TypeOK'
<1>1. CASE Ask(h)
  BY <1>1 DEF Ask, Goto, TypeOK, Busy, globals, ticker
<1>2. CASE Compare(h) \/ CompareAgain(h) \/ Read(h) \/ ReadHead(h)
  BY <1>2 DEF Compare, CompareAgain, Read, ReadHead, Goto, TypeOK, Busy, globals, ticker
<1>3. CASE Alarm(h) \/ Explain(h)
  BY <1>3 DEF Alarm, Explain, Goto, TypeOK, Busy, ticker, Messages
<1>4. CASE ReadMessage(h) \/ TornMessage(h)
  BY <1>4 DEF ReadMessage, TornMessage, Goto, TypeOK, Busy, globals, ticker
<1>5. CASE Finish(h)
  BY <1>5, Constants DEF Finish, TypeOK, Busy, globals, ticker
<1> QED
  BY <1>1, <1>2, <1>3, <1>4, <1>5 DEF Probe, Answer

LEMMA ProbeKeeps ==
  ASSUME IInv, NEW h \in Handlers, Probe(h)
  PROVE  IInv'
<1>1. TypeOK'
  BY ProbeTyped DEF IInv
<1>2. tpc' = tpc /\ age' = age /\ (healthy' = healthy \/ ~healthy')
  BY DEF Probe, Ask, Answer, Compare, Alarm, Explain, CompareAgain, Read, ReadHead, ReadMessage, TornMessage,
         Finish, globals, ticker
<1>3. \A g \in Handlers \ {h} : pc'[g] = pc[g] /\ since'[g] = since[g]
  BY DEF IInv, TypeOK, Probe, Ask, Answer, Compare, Alarm, Explain, CompareAgain, Read, ReadHead, ReadMessage,
         TornMessage, Finish, Goto
<1>4. \A g \in Handlers \ {h} : Alive(g)' = Alive(g)
  BY <1>2, <1>3 DEF Alive, Overdue
<1>5. pc'[h] \in Compared => Alive(h)' \/ ~healthy'
  <2>1. CASE Compare(h)
    BY <1>2, <2>1 DEF Compare, Goto, Alive, Overdue, Compared, IInv, TypeOK
  <2>2. CASE Alarm(h)
    BY <2>2 DEF Alarm
  <2>3. CASE Explain(h) \/ CompareAgain(h)
    <3>1. pc[h] \in Compared /\ healthy' = healthy /\ since' = since
      BY <2>3 DEF Explain, CompareAgain, Goto, Compared, globals
    <3> QED
      BY <1>2, <3>1 DEF IInv, AlarmStands, Alive, Overdue
  <2>4. CASE Ask(h) \/ Read(h) \/ ReadHead(h) \/ ReadMessage(h) \/ TornMessage(h) \/ Finish(h)
    BY <2>4 DEF Ask, Read, ReadHead, ReadMessage, TornMessage, Finish, Goto, Compared, IInv, TypeOK
  <2> QED
    BY <2>1, <2>2, <2>3, <2>4 DEF Probe, Answer
<1>6. pc'[h] = "ok" => Alive(h)'
  <2>1. CASE Read(h)
    <3>1. pc'[h] = "ok" => pc[h] \in Compared /\ healthy
      BY <2>1 DEF Read, Goto, Compared, IInv, TypeOK
    <3>2. since' = since
      BY <2>1 DEF Read
    <3> QED
      BY <1>2, <3>1, <3>2 DEF IInv, AlarmStands, Alive, Overdue
  <2>2. CASE Ask(h) \/ Compare(h) \/ Alarm(h) \/ Explain(h) \/ CompareAgain(h) \/ ReadHead(h)
             \/ ReadMessage(h) \/ TornMessage(h) \/ Finish(h)
    BY <2>2 DEF Ask, Compare, Alarm, Explain, CompareAgain, ReadHead, ReadMessage, TornMessage, Finish, Goto, IInv, TypeOK
  <2> QED
    BY <2>1, <2>2 DEF Probe, Answer
<1>7. AlarmStands'
  BY <1>2, <1>3, <1>4, <1>5 DEF IInv, AlarmStands
<1>8. ReadyMeansAlive'
  BY <1>3, <1>4, <1>6 DEF IInv, ReadyMeansAlive, Alive
<1> QED
  BY <1>1, <1>7, <1>8 DEF IInv

LEMMA Stutter == IInv /\ UNCHANGED vars => IInv'
BY DEF IInv, TypeOK, Busy, AlarmStands, ReadyMeansAlive, Alive, Overdue, vars, globals, ticker, probes

LEMMA NextKeeps == IInv /\ [Next]_vars => IInv'
BY PassKeeps, TickKeeps, ProbeKeeps, Stutter DEF Next, Probe

\* Every variable keeps its type, and a probe has a reason only for its 503; the 200
\* of a GET always stands for a live check, however the ticker and any number of
\* probes, of GET and of HEAD, interleave and however late they are.
THEOREM ReadyProbesAreRight == Spec => [](TypeOK /\ ReadyMeansAlive)
<1>1. IInv => TypeOK /\ ReadyMeansAlive
  BY DEF IInv
<1> QED
  BY InitIInv, NextKeeps, <1>1, PTL DEF Spec

\* In particular a GET that is answered 503 has a message to explain it with, and
\* nobody else keeps one.
THEOREM HealthTyped == Spec => []TypeOK
BY ReadyProbesAreRight, PTL

-----------------------------------------------------------------------------
(* A punctual ticker raises no alarm.                                      *)

\* While no check is due, the next tick comes before the last check is a period
\* old; from then on the check ages with its lateness.
AgeBounded ==
  /\ Due => age <= Period + late
  /\ ~Due => age + until <= Period

NoAlarm(h) == pc[h] \in {"idle", "compare", "read", "ok", "204"}

PInv == TypeOK /\ AgeBounded /\ healthy /\ outcome /\ \A h \in Handlers : NoAlarm(h)

LEMMA InitPInv ==
  ASSUME Outcomes = {TRUE}, Init
  PROVE  PInv
<1>1. TypeOK
  BY InitIInv DEF IInv
<1>2. outcome = TRUE /\ healthy = TRUE
  BY DEF Init
<1>3. ~Due
  BY DEF Init, Due
<1>4. age = 0 /\ until = Period
  BY DEF Init
<1>5. age + until <= Period
  BY <1>4, Constants
<1> QED
  BY <1>1, <1>2, <1>3, <1>5 DEF Init, PInv, AgeBounded, NoAlarm

LEMMA TwoPeriods ==
  ASSUME PInv, Punctual
  PROVE  age \in Int /\ age <= 2 * Period
BY Constants DEF PInv, TypeOK, AgeBounded, Punctual

LEMMA NextPInv ==
  ASSUME Outcomes = {TRUE}, PInv, Punctual, Punctual', [Next]_vars, TypeOK'
  PROVE  PInv'
<1>1. CASE Pass
  <2>1. age' = age + 1 /\ age \in Int
    BY <1>1, Constants, TwoPeriods DEF Pass, Least
  <2>2. Due => age' <= Period + late' /\ Due'
    <3> SUFFICES ASSUME Due PROVE age' <= Period + late' /\ Due'
      OBVIOUS
    <3>1. Due'
      BY <1>1 DEF Pass, Due
    <3>2. late' = late + 1
      BY <1>1, Constants DEF Pass, PInv, TypeOK, Least, Punctual
    <3>3. age <= Period + late /\ late \in Int
      BY Constants DEF PInv, AgeBounded, TypeOK
    <3> QED
      BY <2>1, <3>1, <3>2, <3>3, Constants
  <2>3. ~Due /\ until = 1 => age' <= Period + late' /\ Due'
    <3> SUFFICES ASSUME ~Due, until = 1 PROVE age' <= Period + late' /\ Due'
      OBVIOUS
    <3>1. age + 1 <= Period
      BY Constants DEF PInv, AgeBounded, TypeOK
    <3>2. late' = 0 /\ Due'
      BY <1>1 DEF Pass, Due
    <3> QED
      BY <2>1, <3>1, <3>2, Constants
  <2>4. ~Due /\ until # 1 => age' + until' <= Period /\ ~Due'
    <3> SUFFICES ASSUME ~Due, until # 1 PROVE age' + until' <= Period /\ ~Due'
      OBVIOUS
    <3>1. age + until <= Period /\ until \in Int
      BY Constants DEF PInv, AgeBounded, TypeOK
    <3>2. ~Due'
      BY <1>1 DEF Pass, Due
    <3>3. until' = until - 1
      BY <1>1 DEF Pass
    <3> QED
      BY <2>1, <3>1, <3>2, <3>3, Constants
  <2>5. AgeBounded'
    BY <2>2, <2>3, <2>4 DEF AgeBounded
  <2> QED
    BY <1>1, <2>5 DEF Pass, PInv, NoAlarm
<1>2. CASE Tick
  <2>1. AgeBounded'
    <3>1. CASE Receive \/ Check \/ SetMessage
      <4>1. Due /\ Due' /\ age' = age /\ late' = late
        BY <3>1 DEF Receive, Check, SetMessage, TickerGoto, Due, globals
      <4> QED
        BY <4>1 DEF PInv, AgeBounded
    <3>2. CASE SetTime
      <4>1. age' = 0 /\ late' = 0 /\ until' = until /\ until \in Int /\ until <= Period
        BY <3>2, Constants DEF SetTime, PInv, TypeOK
      <4> QED
        BY <4>1, Constants DEF AgeBounded
    <3> QED
      BY <1>2, <3>1, <3>2 DEF Tick
  <2>2. pc' = pc
    BY <1>2 DEF Tick, Receive, Check, SetMessage, SetTime, probes
  <2>3. outcome' = TRUE /\ healthy' = TRUE
    <3>1. outcome = TRUE /\ healthy = TRUE
      BY DEF PInv, TypeOK
    <3> QED
      BY <1>2, <3>1 DEF Tick, Receive, Check, SetMessage, SetTime, globals
  <2> QED
    BY <2>1, <2>2, <2>3 DEF PInv, NoAlarm
<1>3. ASSUME NEW h \in Handlers, Probe(h)
      PROVE  PInv'
  <2>1. ~Overdue(h, 2)
    BY TwoPeriods, Constants DEF Overdue, PInv, TypeOK
  <2>2. NoAlarm(h)
    BY DEF PInv
  <2>3. Ask(h) \/ Compare(h) \/ Read(h) \/ ReadHead(h) \/ Finish(h)
    BY <1>3, <2>2 DEF Probe, Answer, NoAlarm, Alarm, Explain, CompareAgain, ReadMessage, TornMessage, Goto
  <2>4. globals' = globals /\ ticker' = ticker
    BY <2>3 DEF Ask, Compare, Read, ReadHead, Finish
  <2>5. AgeBounded' /\ healthy' /\ outcome'
    BY <2>4 DEF PInv, AgeBounded, Due, globals, ticker
  <2>6. \A g \in Handlers : NoAlarm(g)'
    BY <2>1, <2>3 DEF Ask, Compare, Read, ReadHead, Finish, Goto, NoAlarm, PInv, TypeOK
  <2> QED
    BY <2>5, <2>6 DEF PInv
<1>4. CASE UNCHANGED vars
  BY <1>4 DEF PInv, AgeBounded, Due, NoAlarm, vars, globals, ticker, probes
<1> QED
  BY <1>1, <1>2, <1>3, <1>4 DEF Next, Probe

\* With the check of this code, which always succeeds, a ticker that is never more
\* than a period late makes no probe raise an alarm or run into a panic.
THEOREM PunctualTickerNoAlarm ==
  ASSUME Outcomes = {TRUE}
  PROVE  Spec => NoFalseAlarm
<1>1. Spec => []TypeOK
  BY ReadyProbesAreRight, PTL
<1>2. Init => PInv
  BY InitPInv
<1>3. PInv /\ Punctual /\ Punctual' /\ [Next]_vars /\ TypeOK' => PInv'
  BY NextPInv
<1>4. PInv => \A h \in Handlers : pc[h] \notin {"alarm", "explain", "panicked"}
  BY DEF PInv, NoAlarm
<1> QED
  BY <1>1, <1>2, <1>3, <1>4, PTL DEF Spec, NoFalseAlarm
=============================================================================
