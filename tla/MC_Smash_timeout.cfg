CONSTANTS
  MaxProcs = 2
  MaxTime = 3
  Durations = {0, 2}
  KillSignals = {9}
  Commands <- MC_Timeouts
SPECIFICATION Spec
INVARIANT TimedOutKilled
\* quit ends the shell: exit_shell stops the main loop and the process.
CHECK_DEADLOCK FALSE
