SPECIFICATION Spec
CONSTANTS
  Builtin <- MCBuiltin
  Lua <- MCLua
  Bundle <- MCBundle
  Documents <- MCDocuments
  Broken = {"bad"}
  Name <- MCName
  Official <- MCLua
  Writing <- MCLua
  Script <- MCScript
  MaxStarts = 3
  MaxToggles = 2
INVARIANTS ResolvesAsDeclared ServesWhatItRequires StatusTellsTruth MigratedBeforeRun
PROPERTIES IntentKept
CHECK_DEADLOCK FALSE
