CONSTANTS
  RequestIds = {"", "1", "2"}
  Identifiers = {"", "a", "b"}
  Exprs <- MCExprs
  Contexts <- MCContexts
  Vars <- MCVars
  Keys <- MCKeys
  Compiler <- MCCompiler
  Evaluator <- MCEvaluator
  Models <- MCModels
  Bodies <- MCBodies
  Kinds = {"post", "many", "grpc"}
  Empty = ""
  Callers = {t1, t2}
  Capacity = 1
  MaxCounted = 3
  MayClear = TRUE
  Nil = Nil
  SerrBody = SerrBody
SPECIFICATION ServiceSpec
INVARIANTS ServiceTypeOK BatchAnswersInOrder
PROPERTIES Transparent RequestsAnswered
