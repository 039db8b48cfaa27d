------------------------------- MODULE Serror -------------------------------
(***************************************************************************)
(* internal/serror and the part of internal/utils/httputils that answers   *)
(* with it: service errors and how other errors become one.  An error is a *)
(* record whose type is "nil" (no error), "Serr", or anything else, with   *)
(* the text that it says.                                                  *)
(***************************************************************************)
EXTENDS Integers, Sequences

CONSTANT wrapper  \* what Wrapper was given: functions from errors to Serrs or NoError

Service == "cel-service"
NoError == [type |-> "nil"]

Serr(code, key, msg) ==
  [type |-> "Serr", Code |-> code, Key |-> key, Srv |-> "", Msg |-> msg, Origin |-> ""]

\* Error(): the JSON text of a Serr stands for the Serr that it encodes.
Text(err) ==
  IF err.type = "Serr" THEN [err EXCEPT !.Key = IF @ = "" THEN "unexpected-error" ELSE @]
  ELSE err.text

\* args are a key and a message; both may be left out.
build(e, err, args) ==
  [e EXCEPT !.Origin = IF err.type = "nil" THEN @ ELSE Text(err),
            !.Key = IF Len(args) > 0 THEN args[1] ELSE @,
            !.Msg = IF Len(args) > 1 THEN args[2] ELSE @,
            !.Srv = Service]

New(code, args) == build(Serr(code, "", ""), NoError, args)

\* The wrappers that know err.
Knowing(err) == {i \in DOMAIN wrapper : wrapper[i][err].type = "Serr"}
FirstKnowing(err) == CHOOSE i \in Knowing(err) : \A j \in Knowing(err) : i <= j

Wrapc(err, code, args) ==
  IF err.type \in {"nil", "Serr"} THEN err
  ELSE IF Knowing(err) # {} THEN build(wrapper[FirstKnowing(err)][err], err, args)
  ELSE build(Serr(code, "", ""), err, args)

Wrap(err, args) == Wrapc(err, 500, args)

Unauthorized(err, args) == build(Serr(401, "unauthorized", ""), err, args)
Forbidden(err, args) == build(Serr(403, "forbidden", ""), err, args)
BadRequest(err, args) == build(Serr(400, "badrequest", ""), err, args)

NotFound(typ, id, err) ==
  build(Serr(404, typ \o "-not-found", "could not find " \o typ \o " " \o id), err, <<>>)

InternalServerError(err) ==
  build(Serr(500, "internal", <<"internal server error", err>>), err, <<>>)

Is(err, code) == err.type = "Serr" /\ err.Code = code

\* httputils.Err answers with this and with its Code as the status.
Err(err) == Wrap(err, <<"unexpected-error">>)

\* httputils.Decode and the decode of evalapi.go; decoding and validating are
\* library calls that each report an error or none.
Decode(decoding, validation) ==
  IF decoding.type # "nil" THEN BadRequest(decoding, <<"decode-body", "could not decode body">>)
  ELSE IF validation.type # "nil" THEN BadRequest(validation, <<"validate-body", "body invalid">>)
  ELSE NoError

Param(cid, name) ==
  IF cid = "" THEN BadRequest(NoError, <<"missing-param", "missing " \o name \o " in path">>)
  ELSE NoError
=============================================================================
