CONSTANTS
  RequestIds = {"", "1", "2"}
  Identifiers = {"", "a", "b"}
  Exprs <- MCExprs
  Contexts <- MCContexts
  Vars <- MCVars
  Keys <- MCKeys
  Compiler <- MCCompiler
  Evaluator <- MCEvaluator
  Models <- StableModels
  Empty = ""
  Callers = {t1, t2, t3}
  Capacity = 2
  MaxCounted = 8
  MayClear = FALSE
  Nil = Nil
SPECIFICATION Spec
INVARIANT BuildsBounded
