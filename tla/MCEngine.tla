------------------------------ MODULE MCEngine ------------------------------
(***************************************************************************)
(* A small language for the instances of CelProc and EvalService: two      *)
(* variables, three contexts (two of them with the same keys), and an      *)
(* expression of each kind: one that needs x, one that needs y, one that   *)
(* is no Boolean and one that has no program.                              *)
(***************************************************************************)
MCExprs == {"", "x == 1", "y == 1", "x", "odd"}
MCContexts == {"x=1", "x=2", "x=1,y=1"}
MCVars == {"x", "y"}
MCKeys == [c \in MCContexts |-> IF c = "x=1,y=1" THEN {"x", "y"} ELSE {"x"}]

Needs(e) == IF e = "y == 1" THEN {"y"} ELSE {"x"}

MCCompiler ==
  [p \in MCExprs \X SUBSET MCVars |->
     IF ~(Needs(p[1]) \subseteq p[2]) THEN "type-check error"
     ELSE IF p[1] = "odd" THEN "program construction error"
     ELSE "ok"]

MCEvaluator ==
  [p \in [expr : MCExprs, vars : SUBSET MCVars] \X MCContexts |->
     IF ~(Needs(p[1].expr) \subseteq MCKeys[p[2]]) THEN "error"
     ELSE IF p[1].expr = "x" THEN "other"
     ELSE IF p[1].expr = "x == 1" /\ p[2] = "x=2" THEN "false"
     ELSE "true"]

Model(id, identifier, expression, context) ==
  [Id |-> id, Identifier |-> identifier,
   Expression |-> expression, Context |-> context]
=============================================================================
