CONSTANTS
  Plugin = {p1}
  Task = {t1}
  MaxSubprocesses = 1
  MaxCrashRestarts = 2
  MaxMishaps = 0
  Nobody = Nobody
SPECIFICATION PluginSpec
INVARIANT NeverInLimbo
CHECK_DEADLOCK FALSE
