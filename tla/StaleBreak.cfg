\* A break requested while no loop runs, or on a loop's last frame, stays set and ends the next loop with -2.
CONSTANTS
  Counts <- MCCounts
  FileLen <- MCFileLen
  MaxCalls <- MCMaxCalls
  MaxBreaks <- MCMaxBreaks
  HandlerOps <- MCHandlerSafe

SPECIFICATION Spec

INVARIANT BreakOnlyWhenRequested

\* The caller may stop making calls: a finished behaviour is not a deadlock.
CHECK_DEADLOCK FALSE
