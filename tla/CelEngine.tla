----------------------------- MODULE CelEngine ------------------------------
(***************************************************************************)
(* The data of internal/celproc and the pure part of ProcCel: requests,    *)
(* results, what google/cel-go is to this code, and how ProcCel turns what *)
(* cel-go says into a CelResult.                                           *)
(*                                                                         *)
(* cel-go is external.  creatEvalProgram declares one variable for every   *)
(* key of the context and compiles the expression, so whether it compiles  *)
(* depends on the expression and on the set of keys alone; what a program  *)
(* evaluates to depends on the program and on the context it is given.     *)
(* Both are constants here, so nothing is assumed about the language.      *)
(***************************************************************************)
CONSTANTS RequestIds,   \* CelModel.Id
          Identifiers,  \* CelModel.Identifier, "" among them
          Exprs,        \* CelModel.Expression, "" among them
          Contexts,     \* CelModel.Context after convertJson2Map
          Vars,         \* keys of contexts
          Keys,         \* the keys of each context: its definition
          Compiler,     \* outcome of env.Compile and env.Program
          Evaluator,    \* outcome of prg.Eval
          Models,       \* the requests that clients send
          Empty         \* the empty string

CelModel == [Id : RequestIds, Identifier : Identifiers,
             Expression : Exprs, Context : Contexts]

\* A cel.Program: the expression, and the variables it was compiled with.
Programs == [expr : Exprs, vars : SUBSET Vars]

CompileErrors == {"type-check error", "program construction error"}
Outcomes == {"true", "false", "error", "other"}
Errors == CompileErrors \cup
          {"none", "empty expression", "evaluation error", "unknown result type"}

\* CelResult and the error returned beside it; wording is left out.
CelResult == [Id : RequestIds, Result : BOOLEAN, err : Errors]

ASSUME EngineAssumption ==
  /\ Models \subseteq CelModel
  /\ Empty \in RequestIds
  /\ Keys \in [Contexts -> SUBSET Vars]
  /\ Compiler \in [Exprs \X SUBSET Vars -> CompileErrors \cup {"ok"}]
  /\ Evaluator \in [Programs \X Contexts -> Outcomes]

-----------------------------------------------------------------------------
Rejection(m) == [Id |-> m.Id, Result |-> FALSE, err |-> "empty expression"]

\* The errors that creatEvalProgram and prg.Eval report: their results are
\* built without an Id.
Failure(err) == [Id |-> Empty, Result |-> FALSE, err |-> err]

\* prg.Eval returns a *types.Err only together with an error, so that case of
\* createCelResult is not reached.
createCelResult(id, out) ==
  [Id |-> id, Result |-> out = "true",
   err |-> IF out = "other" THEN "unknown result type" ELSE "none"]

Compiled(m, vars) == Compiler[m.Expression, vars]
Program(m, vars) == [expr |-> m.Expression, vars |-> vars]

\* prg.Eval(context) and what ProcCel makes of it.
Evaluated(m, prg) ==
  LET out == Evaluator[prg, m.Context] IN
  IF out = "error" THEN Failure("evaluation error") ELSE createCelResult(m.Id, out)

\* The answer to m when its expression is compiled for the variables vars.
AnswerWith(m, vars) ==
  IF m.Expression = Empty THEN Rejection(m)
  ELSE IF Compiled(m, vars) # "ok" THEN Failure(Compiled(m, vars))
  ELSE Evaluated(m, Program(m, vars))

\* The answer of a service without a cache: the program is always compiled
\* for the context it is given.
Answer(m) == AnswerWith(m, Keys[m.Context])

\* README: "The context definition should be equal, the values of course can
\* be changed".
EqualDefinitions ==
  \A m, n \in Models :
    /\ m.Identifier = n.Identifier
    /\ m.Identifier # Empty
    /\ m.Expression = n.Expression
    => Keys[m.Context] = Keys[n.Context]
=============================================================================
