CONSTANTS
  BigIntegers = {"big"}
  Builtins = {}
  Main = "m"
  Programs <- MCPrograms
  Orders <- MCOrders
  Functions <- Definitions
  Workers = {w1, w2}
  NoFunction = NoFunction
  MaxSpaces = 4
  Identifiers = {"main", "f", "g", "h", "c", "s"}
  MaxUses = 2
  MaxCalls = 2
SPECIFICATION StartupSpec
INVARIANTS ReadsAsWritten NamesBound UsesAreWhole OncePerWorker OnlyImportsUnbound
PROPERTY RunCompletes
CHECK_DEADLOCK FALSE
