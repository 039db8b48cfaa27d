---------------------------- MODULE Certificate ----------------------------
(***************************************************************************)
(* internal/crypt/generatecert.go: a self-signed certificate for sslsrv.   *)
(* The crypto library is outside: broken are the steps that it fails in.   *)
(***************************************************************************)
EXTENDS Integers

CONSTANTS IsIP,    \* what net.ParseIP makes of a host name
          Dates    \* what time.Parse makes of a date, in nanoseconds

Curves == {"P224", "P256", "P384", "P521"}

\* The kind of key; "none" is a curve that is not known.
KeyKind(gc) ==
  CASE gc.EcdsaCurve = "" -> IF gc.Ed25519Key THEN "ed25519" ELSE "rsa"
    [] gc.EcdsaCurve \in Curves -> "ecdsa"
    [] OTHER -> "none"

\* publicKey finds a key of the same kind, or nil.
publicKey(kind) == IF kind \in {"rsa", "ecdsa", "ed25519"} THEN kind ELSE "nil"

\* Host is split at ",": a set of names.
Template(gc, now) ==
  LET notBefore == IF gc.ValidFrom = "" THEN now ELSE Dates[gc.ValidFrom] IN
  [NotBefore |-> notBefore, NotAfter |-> notBefore + gc.ValidFor,
   IPAddresses |-> {h \in gc.Host : IsIP[h]}, DNSNames |-> {h \in gc.Host : ~IsIP[h]},
   IsCA |-> gc.IsCA,
   KeyUsage |-> {"encipher", "sign"} \cup (IF gc.IsCA THEN {"sign certificates"} ELSE {}),
   PublicKey |-> publicKey(KeyKind(gc))]

\* log.Fatalf ends the process over an unknown curve, a date that does not parse,
\* and each step of the library that fails ...
Fatal(gc, broken) ==
  \/ KeyKind(gc) = "none"
  \/ gc.ValidFrom # "" /\ gc.ValidFrom \notin DOMAIN Dates
  \/ broken \cap {"GenerateKey", "rand.Int", "CreateCertificate", "MarshalPKCS8PrivateKey"} # {}

\* ... but the last: without a key pair the certificate is empty and err is nil.
GenerateTLSConfig(gc, now, broken) ==
  IF Fatal(gc, broken) THEN [ends |-> TRUE]
  ELSE [ends |-> FALSE, err |-> "nil",
        Certificates |-> IF "X509KeyPair" \in broken THEN "empty" ELSE Template(gc, now)]

\* 10 * 365 * 24 * time.Hour, of 3600 seconds of a thousand million nanoseconds.
TenYears == 10 * 365 * 24 * 3600 * 1000000000

\* What main asks for.
MainCertificate ==
  [Host |-> {"127.0.0.1"}, ValidFrom |-> "", ValidFor |-> TenYears, IsCA |-> FALSE,
   EcdsaCurve |-> "P384", Ed25519Key |-> FALSE]
=============================================================================
