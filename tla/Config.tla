------------------------------- MODULE Config -------------------------------
(***************************************************************************)
(* internal/config and initConfig of cmd/service/main.go: how the options  *)
(* of the service come from the defaults, a yaml file and the command      *)
(* line.  A file and a command line are functions from the options that    *)
(* they name.  A value of auth.properties is a record with its Go type.    *)
(***************************************************************************)
EXTENDS Integers

\* The tracing options are "off" when neither host nor endpoint is given, and
\* authType is what EqualFold compares with "jwt".
DefaultConfig ==
  [port |-> 8000, sslport |-> 8443, grpctsl |-> FALSE, grpcport |-> 0,
   serviceURL |-> "https://127.0.0.1:8443", secretfile |-> "", apikey |-> FALSE,
   period |-> 30, level |-> "INFO", filename |-> "${configdir}/logging.log", gelfurl |-> "",
   authType |-> "", properties |-> [key \in {} |-> ""], tracing |-> "off", metrics |-> FALSE]

\* What the flags are when the command line does not give them.
FlagDefaults ==
  [port |-> 0, sslport |-> 0, serviceURL |-> "", grpcport |-> 50051, grpctsl |-> TRUE]

\* yaml.Unmarshal into a value that is filled already, and flag.Parse.
Overlay(given, under) == [k \in DOMAIN under |-> IF k \in DOMAIN given THEN given[k] ELSE under[k]]

Load(file) == Overlay(file, DefaultConfig)

\* A port of 0 or less and an empty URL count as not given; grpctsl counts only
\* when flag.Visit has met it.
initConfig(config, line) ==
  LET flag == Overlay(line, FlagDefaults) IN
  [config EXCEPT !.port = IF flag.port > 0 THEN flag.port ELSE @,
                 !.sslport = IF flag.sslport > 0 THEN flag.sslport ELSE @,
                 !.serviceURL = IF flag.serviceURL # "" THEN flag.serviceURL ELSE @,
                 !.grpcport = IF flag.grpcport > 0 THEN flag.grpcport ELSE @,
                 !.grpctsl = IF "grpctsl" \in DOMAIN line THEN flag.grpctsl ELSE @]

\* GetConfigValueAsString, -Bool and -Int fail unless the property is there, with
\* one of these types.
HasConfigValue(properties, key, types) ==
  key \in DOMAIN properties /\ properties[key].type \in types
=============================================================================
