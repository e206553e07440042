CONSTANTS
  MaxProcs = 3
  MaxTime = 2
  Durations = {1}
  KillSignals = {9, 18, 19}
  Commands <- MC_AllCommands
SPECIFICATION Spec
INVARIANT TypeOK
INVARIANT JobsConsistent
\* quit ends the shell: exit_shell stops the main loop and the process.
CHECK_DEADLOCK FALSE
