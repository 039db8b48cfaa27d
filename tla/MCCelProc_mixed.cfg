CONSTANTS
  RequestIds = {"", "1", "2"}
  Identifiers = {"", "a", "b", "c"}
  Exprs <- MCExprs
  Contexts <- MCContexts
  Vars <- MCVars
  Keys <- MCKeys
  Compiler <- MCCompiler
  Evaluator <- MCEvaluator
  Models <- MixedModels
  Empty = ""
  Callers = {t1, t2}
  Capacity = 2
  MaxCounted = 6
  MayClear = TRUE
  Nil = Nil
SPECIFICATION Spec
INVARIANTS TypeOK RunsOwnExpression CacheCoherent ForgetsOldest AnswerExplained
