SPECIFICATION LifecycleSpec
CONSTANTS
  MaxAttempts = 5
  Worker = {w1, w2}
CHECK_DEADLOCK FALSE
INVARIANT ShutdownIsGraceful
