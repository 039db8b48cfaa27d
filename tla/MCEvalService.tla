--------------------------- MODULE MCEvalService ----------------------------
(* Small instances of EvalService: the engine of MCEngine, and bodies of   *)
(* one or two models.  Two programs that compile contend for "a", so that  *)
(* batches replace each other's, and their own.                            *)
EXTENDS EvalService, MCEngine

one == Model("1", "a", "x == 1", "x=1")
two == Model("2", "a", "x == 1", "x=2")
three == Model("1", "a", "y == 1", "x=1,y=1")
odd == Model("1", "a", "odd", "x=1")
none == Model("2", "b", Empty, "x=1")

\* The models of the bodies, and what gRPC makes of them.
MCModels == UNION {{m, Passed("grpc", m)} : m \in {one, two, three, odd, none}}

MCBodies == {<<one>>, <<two>>, <<three>>, <<one, two>>, <<one, three>>, <<two, odd>>, <<odd>>, <<none>>, <<>>}
SameProgram == {<<one>>, <<two>>}

ASSUME EqualDefinitions
=============================================================================
