-------------------------------- MODULE Auth --------------------------------
(***************************************************************************)
(* internal/auth: the token of a request.  What a request carries is a     *)
(* record: key, whether its api key is the service's, and header and       *)
(* cookie, the token that TokenFromHeader and TokenFromCookie find there:  *)
(* "none", "jwt" (two parts that decode) or "junk".                        *)
(***************************************************************************)
EXTENDS Config

Carried == [key : BOOLEAN, header : {"none", "jwt", "junk"}, cookie : {"none", "jwt", "junk"}]

\* The value of "validate" is read and never used: Validate is empty.
ParseJWTConfigFails(properties) == ~HasConfigValue(properties, "validate", {"bool"})

\* The signature is not checked.
DecodeJWT(token) == [IsValid |-> token = "jwt", err |-> token # "jwt"]

NoToken == [IsValid |-> FALSE, err |-> TRUE]

\* Fault: a header that does not decode leaves the word to the cookie.
VerifyEither(c) ==
  IF "jwt" \in {c.header, c.cookie} THEN DecodeJWT("jwt") ELSE NoToken

\* The first place where a token is found decides.
VerifyRequest(c) ==
  IF c.header # "none" THEN DecodeJWT(c.header)
  ELSE IF c.cookie # "none" THEN DecodeJWT(c.cookie)
  ELSE NoToken

\* Verifier puts token and error into the context; Authenticator takes them out,
\* refuses an error and a token that is nil or not valid.
Authenticated(c) == LET token == VerifyRequest(c) IN ~token.err /\ token.IsValid
=============================================================================
