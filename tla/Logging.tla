------------------------------ MODULE Logging ------------------------------
(***************************************************************************)
(* internal/logging, and initLogging of cmd/service/main.go: which calls   *)
(* of the logger say something, where, and which end the process.          *)
(***************************************************************************)
EXTENDS Integers

CONSTANT ToUpper  \* strings.ToUpper

\* The calls and the level of each.  Fatal calls log.Fatalf, which exits.
LevelOf == [DEBUG |-> 0, INFO |-> 1, ALERT |-> 2, ERROR |-> 3, FATAL |-> 4]
Calls == DOMAIN LevelOf

\* var Logger serviceLogger; where it writes to before Init is the log package's
\* stderr.
ZeroLogger ==
  [LevelInt |-> 0, GelfURL |-> "", Filename |-> "", gelfActive |-> FALSE, sinks |-> {"stderr"}]

\* A name that is none of the five changes nothing.
SetLevel(s, level) ==
  [s EXCEPT !.LevelInt = IF ToUpper[level] \in Calls THEN LevelOf[ToUpper[level]] ELSE @]

InitLogger(s) ==
  [s EXCEPT !.gelfActive = s.GelfURL # "",
            !.sinks = IF s.Filename = "" THEN {"stdout"} ELSE {"file", "stdout"}]

\* The configured file name goes through ReplaceConfigdir and back into
\* serviceConfig, not to the logger.
initLogging(s, config) == InitLogger([SetLevel(s, config.level) EXCEPT !.GelfURL = config.gelfurl])

Enabled(s, call) == s.LevelInt <= LevelOf[call]

\* Where the message of a call goes to.
Says(s, call) ==
  IF Enabled(s, call) THEN s.sinks \cup (IF s.gelfActive THEN {"gelf"} ELSE {}) ELSE {}

EndsProcess(s, call) == call = "FATAL" /\ Enabled(s, call)
=============================================================================
