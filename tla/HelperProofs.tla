---------------------------- MODULE HelperProofs ----------------------------
(***************************************************************************)
(* Theorems about the modules that compute and keep no state: versions,    *)
(* slices, service errors, the configuration, logging and certificates.    *)
(***************************************************************************)
EXTENDS Version, SlicesUtils, Serror, Config, Logging, Certificate,
        SequenceTheorems, FiniteSetTheorems, FunctionTheorems, WellFoundedInduction, TLAPS

(* The configuration.                                                      *)

LEMMA Overlaid ==
  ASSUME NEW given, NEW under, NEW k \in DOMAIN under
  PROVE  /\ DOMAIN Overlay(given, under) = DOMAIN under
         /\ Overlay(given, under)[k] = IF k \in DOMAIN given THEN given[k] ELSE under[k]
BY DEF Overlay

\* What becomes of the options that a flag may set.
LEMMA Configured ==
  ASSUME NEW config, NEW line, DOMAIN config = DOMAIN DefaultConfig
  PROVE  LET flag == Overlay(line, FlagDefaults)
             result == initConfig(config, line)
         IN  /\ result.port = IF flag.port > 0 THEN flag.port ELSE config.port
             /\ result.sslport = IF flag.sslport > 0 THEN flag.sslport ELSE config.sslport
             /\ result.grpcport = IF flag.grpcport > 0 THEN flag.grpcport ELSE config.grpcport
             /\ result.grpctsl = IF "grpctsl" \in DOMAIN line THEN flag.grpctsl ELSE config.grpctsl
BY DEF initConfig, DefaultConfig

LEMMA Options ==
  /\ {"port", "sslport", "serviceURL", "grpcport", "grpctsl"} = DOMAIN FlagDefaults
  /\ DOMAIN FlagDefaults \subseteq DOMAIN DefaultConfig
BY DEF FlagDefaults, DefaultConfig

\* Of a port, the last one counts that is given: a flag of more than 0, or the
\* file, or the default.
THEOREM FlagsOverFile ==
  ASSUME NEW file, NEW line, NEW k \in {"port", "sslport"}
  PROVE  initConfig(Load(file), line)[k] =
           IF k \in DOMAIN line /\ line[k] > 0 THEN line[k]
           ELSE IF k \in DOMAIN file THEN file[k]
           ELSE DefaultConfig[k]
<1>1. DOMAIN Load(file) = DOMAIN DefaultConfig /\ k \in DOMAIN FlagDefaults /\ k \in DOMAIN DefaultConfig
  BY Options, Overlaid DEF Load
<1>2. Load(file)[k] = IF k \in DOMAIN file THEN file[k] ELSE DefaultConfig[k]
  BY <1>1, Overlaid DEF Load
<1>3. Overlay(line, FlagDefaults)[k] = IF k \in DOMAIN line THEN line[k] ELSE FlagDefaults[k]
  BY <1>1, Overlaid
<1>4. initConfig(Load(file), line)[k] =
        IF Overlay(line, FlagDefaults)[k] > 0 THEN Overlay(line, FlagDefaults)[k] ELSE Load(file)[k]
  BY <1>1, Configured
<1>5. FlagDefaults["port"] = 0 /\ FlagDefaults["sslport"] = 0
  BY DEF FlagDefaults
<1> QED
  BY <1>2, <1>3, <1>4, <1>5

\* So no command line turns ssl off: only a file does, with an sslport of 0.
THEOREM NoFlagTurnsSslOff ==
  ASSUME NEW file, NEW line,
         "sslport" \in DOMAIN file => file["sslport"] > 0
  PROVE  initConfig(Load(file), line).sslport > 0
<1>1. DefaultConfig["sslport"] > 0
  BY DEF DefaultConfig
<1> QED
  BY <1>1, FlagsOverFile

\* The flag grpcport has a default, so what the file says of grpcport counts for
\* nothing unless the command line gives a port of 0 or less.
THEOREM GrpcPortOfTheFlag ==
  ASSUME NEW file, NEW line,
         "grpcport" \in DOMAIN line => line["grpcport"] > 0
  PROVE  initConfig(Load(file), line).grpcport =
           IF "grpcport" \in DOMAIN line THEN line["grpcport"] ELSE 50051
<1>1. DOMAIN Load(file) = DOMAIN DefaultConfig /\ "grpcport" \in DOMAIN FlagDefaults
  BY Options, Overlaid DEF Load
<1>2. Overlay(line, FlagDefaults)["grpcport"] =
        IF "grpcport" \in DOMAIN line THEN line["grpcport"] ELSE FlagDefaults["grpcport"]
  BY <1>1, Overlaid
<1>3. FlagDefaults["grpcport"] = 50051
  BY DEF FlagDefaults
<1> QED
  BY <1>1, <1>2, <1>3, Configured

\* The flag grpctsl has the default TRUE, which never counts: when neither file nor
\* command line names grpctsl, gRPC has no TLS.
THEOREM GrpcPlainByDefault ==
  ASSUME NEW file, NEW line, "grpctsl" \notin DOMAIN file, "grpctsl" \notin DOMAIN line
  PROVE  FlagDefaults.grpctsl /\ ~initConfig(Load(file), line).grpctsl
<1>1. DOMAIN Load(file) = DOMAIN DefaultConfig /\ "grpctsl" \in DOMAIN DefaultConfig
  BY Options, Overlaid DEF Load
<1>2. Load(file)["grpctsl"] = DefaultConfig["grpctsl"]
  BY <1>1, Overlaid DEF Load
<1>3. initConfig(Load(file), line).grpctsl = Load(file)["grpctsl"]
  BY <1>1, Configured
<1> QED
  BY <1>2, <1>3 DEF FlagDefaults, DefaultConfig

-----------------------------------------------------------------------------
(* Logging.                                                                *)

\* What Fatal relies on: the level has no value above its own, whatever the
\* configuration names, so Fatal always ends the process; main never goes on with
\* a gRPC server that has no listener.
THEOREM FatalEnds ==
  ASSUME NEW s, s.LevelInt \in 0..4, DOMAIN s = DOMAIN ZeroLogger, NEW config
  PROVE  LET t == initLogging(s, config)
         IN  t.LevelInt \in 0..4 /\ EndsProcess(s, "FATAL") /\ EndsProcess(t, "FATAL")
<1>1. \A l \in Calls : LevelOf[l] \in 0..4
  BY DEF Calls, LevelOf
<1>2. initLogging(s, config).LevelInt =
        IF ToUpper[config.level] \in Calls THEN LevelOf[ToUpper[config.level]] ELSE s.LevelInt
  BY DEF initLogging, InitLogger, SetLevel, ZeroLogger
<1>3. initLogging(s, config).LevelInt \in 0..4
  BY <1>1, <1>2
<1> QED
  BY <1>3 DEF EndsProcess, Enabled, LevelOf

\* A level lets through what a higher one lets through.
THEOREM SeverityMonotone ==
  ASSUME NEW s, s.LevelInt \in 0..4, NEW c \in Calls, NEW d \in Calls,
         LevelOf[c] <= LevelOf[d], Enabled(s, c)
  PROVE  Enabled(s, d)
<1>1. LevelOf[c] \in 0..4 /\ LevelOf[d] \in 0..4
  BY DEF Calls, LevelOf
<1> QED
  BY <1>1 DEF Enabled

\* Whatever file name the configuration has, the service writes no log file: main
\* does not hand the name to the logger.
THEOREM NoLogFile ==
  ASSUME NEW config, NEW call \in Calls
  PROVE  "file" \notin Says(initLogging(ZeroLogger, config), call)
BY DEF Says, initLogging, InitLogger, SetLevel, ZeroLogger

-----------------------------------------------------------------------------
(* Certificates.                                                           *)

\* GenerateTLSConfig never returns an error: what main does in that case is dead
\* code, and a key pair that fails leaves an empty certificate behind.
THEOREM NeverAnError ==
  ASSUME NEW gc, NEW now, NEW broken
  PROVE  LET r == GenerateTLSConfig(gc, now, broken)
         IN  \/ r.ends
             \/ ~r.ends /\ r.err = "nil" /\ ("X509KeyPair" \in broken => r.Certificates = "empty")
BY DEF GenerateTLSConfig

\* The certificate of sslsrv has a public key of its private key's kind, names
\* 127.0.0.1 and no other host, whatever the serviceURL is, and is valid for ten
\* years, which an int64 of nanoseconds can hold.
THEOREM CertificateOfMain ==
  ASSUME NEW now \in Int, IsIP["127.0.0.1"] = TRUE
  PROVE  LET t == Template(MainCertificate, now)
         IN  /\ t.PublicKey = KeyKind(MainCertificate) /\ KeyKind(MainCertificate) = "ecdsa"
             /\ t.IPAddresses = {"127.0.0.1"} /\ t.DNSNames = {}
             /\ t.NotAfter - t.NotBefore = TenYears /\ TenYears < 9223372036854775807
             /\ "sign certificates" \notin t.KeyUsage
BY DEF Template, MainCertificate, KeyKind, publicKey, Curves, TenYears

-----------------------------------------------------------------------------
(* Versions.                                                               *)

\* IsGreaterThan is a strict order.
THEOREM GreaterIsStrictOrder ==
  \A u, v, w \in Versions :
    /\ ~IsGreaterThan(v, v)
    /\ IsGreaterThan(u, v) /\ IsGreaterThan(v, w) => IsGreaterThan(u, w)
  BY DEF Versions, IsGreaterThan

\* The three comparisons, written independently in the code, fit together: at
\* most one of them holds, IsSmallerThan is the converse of IsGreaterThan, and
\* none holds for exactly the versions that differ in their special part alone.
\* So "neither greater nor smaller" is not "equal".
THEOREM ComparisonsFit ==
  \A v, o \in Versions :
    /\ IsSmallerThan(v, o) <=> IsGreaterThan(o, v)
    /\ ~(IsGreaterThan(v, o) /\ IsSmallerThan(v, o))
    /\ IsEqual(v, o) => ~IsGreaterThan(v, o) /\ ~IsSmallerThan(v, o)
    /\ ~IsGreaterThan(v, o) /\ ~IsSmallerThan(v, o) /\ ~IsEqual(v, o)
         <=> v # o /\ v = [o EXCEPT !.Special = v.Special]
<1> SUFFICES ASSUME NEW v \in Versions, NEW o \in Versions
             PROVE  /\ IsSmallerThan(v, o) <=> IsGreaterThan(o, v)
                    /\ ~(IsGreaterThan(v, o) /\ IsSmallerThan(v, o))
                    /\ IsEqual(v, o) => ~IsGreaterThan(v, o) /\ ~IsSmallerThan(v, o)
                    /\ ~IsGreaterThan(v, o) /\ ~IsSmallerThan(v, o) /\ ~IsEqual(v, o)
                         <=> v # o /\ v = [o EXCEPT !.Special = v.Special]
  OBVIOUS
<1> DEFINE same == v.Major = o.Major /\ v.Minor = o.Minor /\ v.Patch = o.Patch
<1>1. same <=> v = [o EXCEPT !.Special = v.Special]
  BY DEF Versions
<1>2. IsEqual(v, o) <=> v = o
  BY DEF Versions, IsEqual
<1>3. ~IsGreaterThan(v, o) /\ ~IsSmallerThan(v, o) <=> same
  BY DEF Versions, IsGreaterThan, IsSmallerThan
<1>4. /\ IsSmallerThan(v, o) <=> IsGreaterThan(o, v)
      /\ ~(IsGreaterThan(v, o) /\ IsSmallerThan(v, o))
  BY DEF Versions, IsGreaterThan, IsSmallerThan
<1> QED
  BY <1>1, <1>2, <1>3, <1>4

\* What is appended to three fields leaves them where they are.
LEMMA ThreeFirst ==
  ASSUME NEW S, NEW s \in Seq(S), NEW t \in Seq(S), Len(s) = 3
  PROVE  /\ Len(s \o t) > 2
         /\ (s \o t)[1] = s[1] /\ (s \o t)[2] = s[2] /\ (s \o t)[3] = s[3]
<1>1. Len(t) \in Nat
  OBVIOUS
<1>2. Len(s \o t) = Len(s) + Len(t)
  BY ConcatProperties
<1>3. \A i \in 1 .. Len(s) + Len(t) : (s \o t)[i] = IF i <= Len(s) THEN s[i] ELSE t[i - Len(s)]
  BY ConcatProperties
<1> QED
  BY <1>1, <1>2, <1>3

\* What String writes, ParseVersion reads back: the three numbers, and of the
\* special part what stands before its first "." or "-".
THEOREM RoundTrip ==
  ASSUME Error \notin Int, Empty \in Piece,
         \A n \in 0..MaxInt32 : Decimal[n] \in Piece /\ ParseInt[<<Decimal[n]>>] = n,
         NEW v \in Versions,
         v.Major \in 0..MaxInt32, v.Minor \in 0..MaxInt32, v.Patch \in 0..MaxInt32
  PROVE  ParseVersion(String(v)) =
           [version |-> [v EXCEPT !.Special = << <<v.Special[1][1]>> >>], ok |-> TRUE]
<1> DEFINE text == String(v)
           plain == v.Special = NoText
<1>1. v.Special \in Seq(Fields) /\ v.Special # <<>> /\ v.Special[1] \in Fields
  BY DEF Versions, Texts
<1>2. /\ v.Special[1] \in Seq(Piece) /\ Len(v.Special[1]) > 0
      /\ v.Special[1][1] \in Piece
  BY <1>1 DEF Fields
<1>3. /\ Len(text) > 2
      /\ text[1] = <<Decimal[v.Major]>> /\ text[2] = <<Decimal[v.Minor]>>
      /\ text[3] = IF plain THEN <<Decimal[v.Patch]>> ELSE <<Decimal[v.Patch]>> \o v.Special[1]
  <2>1. CASE plain
    BY <2>1 DEF String
  <2>2. CASE ~plain
    <3> DEFINE core == << <<Decimal[v.Major]>>, <<Decimal[v.Minor]>> >>
               patch == <<Decimal[v.Patch]>> \o Head(v.Special)
    <3>1. Head(v.Special) = v.Special[1] /\ Tail(v.Special) \in Seq(Fields)
      BY <1>1
    <3>2. text = Append(core, patch) \o Tail(v.Special)
      BY <2>2 DEF String
    <3>3. Decimal[v.Major] \in Piece /\ Decimal[v.Minor] \in Piece /\ Decimal[v.Patch] \in Piece
      OBVIOUS
    <3>4. patch \in Seq(Piece)
      BY <1>2, <3>1, <3>3
    <3>5. core \in Seq(Seq(Piece)) /\ Len(core) = 2
      BY <3>3
    <3>6. Tail(v.Special) \in Seq(Seq(Piece))
      BY <3>1 DEF Fields
    <3>7. /\ Append(core, patch) \in Seq(Seq(Piece)) /\ Len(Append(core, patch)) = 3
          /\ Append(core, patch)[1] = <<Decimal[v.Major]>>
          /\ Append(core, patch)[2] = <<Decimal[v.Minor]>>
          /\ Append(core, patch)[3] = patch
      BY <3>4, <3>5
    <3>8. \A s, t \in Seq(Seq(Piece)) : Len(s) = 3 =>
            Len(s \o t) > 2 /\ (s \o t)[1] = s[1] /\ (s \o t)[2] = s[2] /\ (s \o t)[3] = s[3]
      BY ThreeFirst
    <3>9. /\ Len(text) > 2
          /\ text[1] = <<Decimal[v.Major]>> /\ text[2] = <<Decimal[v.Minor]>>
          /\ text[3] = patch
      <4> HIDE DEF core, patch, text
      <4> QED
        BY <3>2, <3>6, <3>7, <3>8
    <3> HIDE DEF text
    <3> QED
      BY <2>2, <3>1, <3>9
  <2> QED
    BY <2>1, <2>2
<1>4. /\ HasSpecial(text) <=> ~plain
      /\ ~plain => text[3][1] = Decimal[v.Patch] /\ text[3][2] = v.Special[1][1]
  <2>1. CASE plain
    BY <1>3, <2>1 DEF HasSpecial
  <2>2. CASE ~plain
    <3>1. Decimal[v.Patch] \in Piece
      OBVIOUS
    <3>2. text[3] = <<Decimal[v.Patch]>> \o v.Special[1]
      BY <1>3, <2>2
    <3>3. /\ Len(<<Decimal[v.Patch]>> \o v.Special[1]) > 1
          /\ (<<Decimal[v.Patch]>> \o v.Special[1])[1] = Decimal[v.Patch]
          /\ (<<Decimal[v.Patch]>> \o v.Special[1])[2] = v.Special[1][1]
      BY <1>2, <3>1
    <3> QED
      BY <1>3, <2>2, <3>2, <3>3 DEF HasSpecial
  <2> QED
    BY <2>1, <2>2
<1>5. plain => << <<v.Special[1][1]>> >> = NoText
  BY DEF NoText
<1>6. Number(text, 1) = v.Major /\ Number(text, 2) = v.Minor /\ Number(text, 3) = v.Patch
  <2>1. ParseInt[<<Decimal[v.Major]>>] = v.Major /\ ParseInt[<<Decimal[v.Minor]>>] = v.Minor
          /\ ParseInt[<<Decimal[v.Patch]>>] = v.Patch
    OBVIOUS
  <2> HIDE DEF text
  <2>2. Number(text, 1) = v.Major /\ Number(text, 2) = v.Minor
    BY <1>3, <2>1 DEF Number
  <2>3. Number(text, 3) = v.Patch
    BY <1>3, <1>4, <2>1 DEF Number
  <2> QED
    BY <2>2, <2>3
<1>7. \A j \in 1..3 : Number(text, j) # Error
  <2>1. v.Major # Error /\ v.Minor # Error /\ v.Patch # Error
    OBVIOUS
  <2>2. 1..3 = {1, 2, 3}
    OBVIOUS
  <2> QED
    BY <1>6, <2>1, <2>2
<1> HIDE DEF text
<1>8. ParseVersion(text) =
        [version |-> [Major |-> v.Major, Minor |-> v.Minor, Patch |-> v.Patch,
                      Special |-> IF HasSpecial(text) THEN << <<text[3][2]>> >> ELSE NoText],
         ok |-> TRUE]
  <2>1. \A i \in 1..3 : ~(\E j \in 1..i : Number(text, j) = Error)
    BY <1>7
  <2>2. /\ ~(\E j \in 1..1 : Number(text, j) = Error)
        /\ ~(\E j \in 1..2 : Number(text, j) = Error)
        /\ ~(\E j \in 1..3 : Number(text, j) = Error)
    BY <2>1
  <2> QED
    BY <1>6, <2>2 DEF ParseVersion
<1>9. [v EXCEPT !.Special = << <<v.Special[1][1]>> >>] =
        [Major |-> v.Major, Minor |-> v.Minor, Patch |-> v.Patch,
         Special |-> << <<v.Special[1][1]>> >>]
  BY DEF Versions
<1> QED
  BY <1>4, <1>5, <1>8, <1>9 DEF text

-----------------------------------------------------------------------------
(* Slices.                                                                 *)

Occurrences(s, x) == Cardinality({k \in Slots(s) : s[k] = x})

\* A set of natural numbers that is not empty has a least element.
LEMMA Least ==
  ASSUME NEW T \in SUBSET Nat, T # {}
  PROVE  \E m \in T : \A k \in T : ~(k < m)
<1>1. IsWellFoundedOn(OpToRel(<, Nat), Nat)
  BY NatLessThanWellFounded
<1>2. PICK m \in T : \A k \in T : <<k, m>> \notin OpToRel(<, Nat)
  BY <1>1, WFMin
<1> QED
  BY <1>2 DEF OpToRel

\* Find gives the first index that has e, and -1 exactly when Contains is false.
THEOREM FindIsFirst ==
  ASSUME NEW s \in Slices, NEW e \in Str
  PROVE  /\ Find(s, e) >= 0 <=> Contains(s, e)
         /\ Contains(s, e) => /\ Find(s, e) \in 0 .. Len(s) - 1
                              /\ s[Find(s, e) + 1] = e
                              /\ \A j \in 1 .. Find(s, e) : s[j] # e
<1>1. Len(s) \in Nat
  BY DEF Slices
<1>2. CASE ~Contains(s, e)
  BY <1>2 DEF Find
<1>3. CASE Contains(s, e)
  <2> DEFINE First(k) == s[k] = e /\ \A j \in 1 .. k - 1 : s[j] # e
             T == {k \in Slots(s) : s[k] = e}
  <2>1. T \in SUBSET Nat /\ T # {}
    BY <1>1, <1>3 DEF Contains, Slots
  <2>2. PICK m \in T : \A k \in T : ~(k < m)
    <3> HIDE DEF T
    <3> QED
      BY <2>1, Least
  <2>3. m \in Slots(s) /\ First(m)
    BY <1>1, <2>2 DEF Slots
  <2> DEFINE f == CHOOSE k \in Slots(s) : First(k)
  <2>4. f \in Slots(s) /\ First(f)
    <3> HIDE DEF First
    <3> QED
      BY <2>3
  <2>5. Find(s, e) = f - 1
    BY <1>3 DEF Find
  <2> HIDE DEF f
  <2>6. f \in 1 .. Len(s) /\ f - 1 + 1 = f
    BY <1>1, <2>4 DEF Slots
  <2> QED
    BY <1>1, <1>3, <2>4, <2>5, <2>6
<1> QED
  BY <1>2, <1>3

\* Remove takes the element at i out, once, and keeps all others, in another
\* order: the last one takes its place.  The slice of the caller is not the result;
\* it still has its length, and its last element twice.
THEOREM RemoveTakesOne ==
  ASSUME NEW s \in Slices, NEW i \in 0 .. Len(s) - 1, NEW x \in Str
  PROVE  LET r == Remove(s, i)
         IN /\ r.result \in Slices
            /\ Occurrences(r.result, x) = Occurrences(s, x) - IF x = s[i + 1] THEN 1 ELSE 0
            /\ Len(r.caller) = Len(s)
            /\ r.caller[i + 1] = s[Len(s)] /\ r.caller[Len(s)] = s[Len(s)]
<1> DEFINE n == Len(s)
           k == i + 1
           array == [s EXCEPT ![k] = s[n]]
           t == SubSeq(array, 1, n - 1)
<1>1. n \in Nat \ {0} /\ k \in 1..n /\ s \in [1..n -> Str]
  BY DEF Slices
<1>2. array \in Seq(Str) /\ Len(array) = n /\ array[k] = s[n] /\ array[n] = s[n]
  BY <1>1 DEF Slices
<1>3. /\ t \in Seq(Str) /\ Len(t) = n - 1
      /\ \A j \in 1 .. n - 1 : t[j] = IF j = k THEN s[n] ELSE s[j]
  <2>1. \A j \in 1..n : array[j] = IF j = k THEN s[n] ELSE s[j]
    BY <1>1 DEF Slices
  <2> HIDE DEF array
  <2> QED
    BY <1>1, <1>2, <2>1
<1> DEFINE S == {j \in 1..n : s[j] = x}
           D == {j \in 1 .. n - 1 : t[j] = x}
           F == [j \in S \ {k} |-> IF j = n THEN k ELSE j]
<1> HIDE DEF array, t, n, k
<1>4. F \in Bijection(S \ {k}, D)
  <2>1. F \in [S \ {k} -> D]
    BY <1>1, <1>3
  <2>2. \A a, b \in S \ {k} : F[a] = F[b] => a = b
    BY <1>1
  <2>3. ASSUME NEW d \in D
        PROVE  \E a \in S \ {k} : F[a] = d
    <3>1. CASE d = k
      BY <1>1, <1>3, <2>3, <3>1
    <3>2. CASE d # k
      BY <1>1, <1>3, <2>3, <3>2
    <3> QED
      BY <3>1, <3>2
  <2> HIDE DEF F, D, S
  <2> QED
    BY <2>1, <2>2, <2>3, Fun_IsBij
<1>5. ExistsBijection(S \ {k}, D)
  BY <1>4, Fun_ExistsBij
<1>6. IsFiniteSet(S)
  <2>1. IsFiniteSet(1..n)
    BY <1>1, FS_Interval
  <2>2. S \in SUBSET (1..n)
    OBVIOUS
  <2> HIDE DEF S
  <2> QED
    BY <2>1, <2>2, FS_Subset
<1>7. /\ IsFiniteSet(S \ {k})
      /\ Cardinality(S \ {k}) = Cardinality(S) - IF x = s[k] THEN 1 ELSE 0
  <2>1. k \in S <=> x = s[k]
    BY <1>1
  <2>2. Cardinality(S) \in Nat
    BY <1>6, FS_CardinalityType
  <2> HIDE DEF S
  <2> QED
    BY <1>6, <2>1, <2>2, FS_RemoveElement
<1>8. Cardinality(D) = Cardinality(S \ {k})
  <2> HIDE DEF D, S
  <2> QED
    BY <1>5, <1>7, FS_Bijection
<1>9. Occurrences(s, x) = Cardinality(S) /\ Occurrences(t, x) = Cardinality(D)
  BY <1>3 DEF Occurrences, Slots, n
<1>10. Remove(s, i) = [caller |-> array, result |-> t]
  BY DEF Remove, array, t, n, k
<1> HIDE DEF S, D
<1> QED
  BY <1>2, <1>3, <1>7, <1>8, <1>9, <1>10 DEF Slices, n, k

\* RemoveString takes one e out of a slice that has any, the rest stays; a slice
\* that has none is returned as it is.
THEOREM RemoveStringTakesOne ==
  ASSUME NEW s \in Slices, NEW e \in Str, NEW x \in Str
  PROVE  LET t == RemoveString(s, e).result
         IN /\ t \in Slices
            /\ Occurrences(t, x) =
                 Occurrences(s, x) - IF x = e /\ Contains(s, e) THEN 1 ELSE 0
<1>1. CASE Contains(s, e)
  <2>1. Find(s, e) >= 0 /\ Find(s, e) \in 0 .. Len(s) - 1 /\ s[Find(s, e) + 1] = e
    BY <1>1, FindIsFirst
  <2>2. RemoveString(s, e) = Remove(s, Find(s, e))
    BY <2>1 DEF RemoveString
  <2> QED
    BY <1>1, <2>1, <2>2, RemoveTakesOne
<1>2. CASE ~Contains(s, e)
  <2>1. RemoveString(s, e).result = s
    BY <1>2, FindIsFirst DEF RemoveString
  <2>2. Occurrences(s, x) \in Nat
    <3>1. IsFiniteSet(Slots(s))
      BY FS_Interval DEF Slots, Slices
    <3>2. IsFiniteSet({k \in Slots(s) : s[k] = x})
      BY <3>1, FS_Subset
    <3> QED
      BY <3>2, FS_CardinalityType DEF Occurrences
  <2> QED
    BY <1>2, <2>1, <2>2
<1> QED
  BY <1>1, <1>2

-----------------------------------------------------------------------------
(* Service errors.                                                         *)

\* What Wrapper may have been given: functions that know an error or do not.
WrapperOK ==
  /\ DOMAIN wrapper \subseteq Nat
  /\ \A i \in DOMAIN wrapper : \A err :
       LET e == wrapper[i][err] IN
       \/ e.type = "nil"
       \/ e.type = "Serr" /\ DOMAIN e = {"type", "Code", "Key", "Srv", "Msg", "Origin"}

\* The first of the wrappers that know an error is there to be found.
LEMMA FirstKnows ==
  ASSUME WrapperOK, NEW err, Knowing(err) # {}
  PROVE  FirstKnowing(err) \in Knowing(err)
<1>1. Knowing(err) \in SUBSET Nat
  BY DEF Knowing, WrapperOK
<1>2. PICK i \in Knowing(err) : \A j \in Knowing(err) : ~(j < i)
  BY <1>1, Least
<1>3. \A j \in Knowing(err) : i <= j
  BY <1>1, <1>2
<1> QED
  BY <1>2, <1>3 DEF FirstKnowing

\* Who wraps first decides: a service error that is wrapped again, by Err or by
\* anybody, keeps its code, key, message and origin.
THEOREM FirstWrapDecides ==
  ASSUME WrapperOK, NEW err, NEW c, NEW d, NEW a, NEW b
  PROVE  Wrapc(Wrapc(err, c, a), d, b) = Wrapc(err, c, a)
<1>1. CASE err.type \in {"nil", "Serr"}
  BY <1>1 DEF Wrapc
<1>2. CASE err.type \notin {"nil", "Serr"}
  <2>1. Wrapc(err, c, a).type = "Serr"
    <3>1. CASE Knowing(err) # {}
      <4>1. wrapper[FirstKnowing(err)][err].type = "Serr"
        BY <3>1, FirstKnows DEF Knowing
      <4> QED
        BY <1>2, <3>1, <4>1 DEF Wrapc, build
    <3>2. CASE Knowing(err) = {}
      BY <1>2, <3>2 DEF Wrapc, build, Serr
    <3> QED
      BY <3>1, <3>2
  <2> QED
    BY <2>1 DEF Wrapc
<1> QED
  BY <1>1, <1>2

\* A request that a handler refuses as bad is answered with status 400, with the
\* key that the handler gave; no wrapper and no default of Err changes that.
THEOREM RefusalKept ==
  ASSUME NEW err, NEW args \in Seq(STRING), args # <<>>
  PROVE  Err(BadRequest(err, args)).Code = 400 /\ Err(BadRequest(err, args)).Key = args[1]
BY DEF Err, Wrap, Wrapc, BadRequest, build, Serr

\* Err hides the key that a wrapper has chosen: any error that is no service
\* error is answered with the key "unexpected-error".
THEOREM ErrHidesKey ==
  ASSUME WrapperOK, NEW err, err.type \notin {"nil", "Serr"}
  PROVE  Err(err).Key = "unexpected-error"
<1> DEFINE args == <<"unexpected-error">>
<1>1. Len(args) = 1 /\ args[1] = "unexpected-error"
  OBVIOUS
<1>2. ASSUME NEW e, DOMAIN e = {"type", "Code", "Key", "Srv", "Msg", "Origin"}
      PROVE  build(e, err, args).Key = args[1]
  <2> HIDE DEF args
  <2> QED
    BY <1>1, <1>2 DEF build
<1>3. DOMAIN Serr(500, "", "") = {"type", "Code", "Key", "Srv", "Msg", "Origin"}
  BY DEF Serr
<1>4. Knowing(err) # {} =>
        DOMAIN wrapper[FirstKnowing(err)][err] = {"type", "Code", "Key", "Srv", "Msg", "Origin"}
  BY FirstKnows DEF Knowing, WrapperOK
<1>5. Err(err) = Wrapc(err, 500, args)
  BY DEF Err, Wrap
<1> HIDE DEF args
<1>6. CASE Knowing(err) # {}
  <2>1. Wrapc(err, 500, args) = build(wrapper[FirstKnowing(err)][err], err, args)
    BY <1>6 DEF Wrapc
  <2>2. build(wrapper[FirstKnowing(err)][err], err, args).Key = args[1]
    BY <1>2, <1>4, <1>6
  <2> QED
    BY <1>1, <1>5, <2>1, <2>2
<1>7. CASE Knowing(err) = {}
  <2>1. Wrapc(err, 500, args) = build(Serr(500, "", ""), err, args)
    BY <1>7 DEF Wrapc
  <2>2. build(Serr(500, "", ""), err, args).Key = args[1]
    BY <1>2, <1>3
  <2> QED
    BY <1>1, <1>5, <2>1, <2>2
<1> QED
  BY <1>6, <1>7

=============================================================================
