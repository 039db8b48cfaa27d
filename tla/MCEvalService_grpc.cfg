CONSTANTS
  RequestIds = {"", "1", "2"}
  Identifiers = {"", "a", "b"}
  Exprs <- MCExprs
  Contexts <- MCContexts
  Vars <- MCVars
  Keys <- MCKeys
  Compiler <- MCCompiler
  Evaluator <- MCEvaluator
  Models <- MCModels
  Bodies <- SameProgram
  Kinds = {"grpc"}
  Empty = ""
  Callers = {t1, t2}
  Capacity = 1
  MaxCounted = 6
  MayClear = FALSE
  Nil = Nil
  SerrBody = SerrBody
SPECIFICATION ServiceSafe
INVARIANT CachedProgramReused
