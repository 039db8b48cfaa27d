------------------------------ MODULE MCRouter ------------------------------
(* Small instance of Router: two requests of the API with one metrics      *)
(* name, a probe with another, and an RPC.  The first request's token is   *)
(* in its cookie; the second lacks the key or has a header that is no      *)
(* token.                                                                  *)
EXTENDS Router

SmallRequests == {"a1", "a2", "probe", "rpc"}
SmallKind == [r \in SmallRequests |-> IF r \in {"probe", "rpc"} THEN r ELSE "api"]
SmallNameOf == [r \in SmallRequests |-> IF r \in {"a1", "a2"} THEN "a" ELSE r]

Carries(key, header, cookie) == [key |-> key, header |-> header, cookie |-> cookie]
SmallCredentials ==
  [r \in SmallRequests |->
     CASE r = "a1" -> {Carries(TRUE, "none", "jwt")}
       [] r = "a2" -> {Carries(FALSE, "jwt", "none"), Carries(TRUE, "junk", "jwt")}
       [] OTHER -> {Carries(FALSE, "none", "none")}]

Validate(type) == [validate |-> [type |-> type]]
SmallFiles ==
  {[sslport |-> 0],
   [apikey |-> TRUE, period |-> 0],
   [tracing |-> "bad"],
   [sslport |-> 0, apikey |-> TRUE, port |-> 50051],
   [apikey |-> TRUE, authType |-> "jwt", properties |-> Validate("bool")],
   [sslport |-> 0, apikey |-> TRUE, authType |-> "jwt", properties |-> Validate("bool")],
   [sslport |-> 0, authType |-> "jwt", properties |-> Validate("bool"), grpctsl |-> TRUE],
   [authType |-> "jwt", properties |-> Validate("string")],
   [sslport |-> 0, apikey |-> TRUE, authType |-> "jwt", properties |-> Validate("string")]}
SmallLines == {[port |-> 0]}
=============================================================================
