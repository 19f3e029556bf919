\* The dispatch path when close is never concurrent with B's PcapBreakLoop
\* (spec 5), the handler only returns or breaks, and PcapNextEx's buffer fits.
CONSTANTS
  Counts <- MCCounts
  FileLen <- MCFileLen
  MaxCalls <- MCMaxCalls
  MaxBreaks <- MCMaxBreaks
  HandlerOps <- MCHandlerSafe

SPECIFICATION Spec

INVARIANT NoNativeFault
INVARIANT CountBound
INVARIANT DispatchReturnsDelivered

PROPERTY BreakTerminates

\* The caller may stop making calls: a finished behaviour is not a deadlock.
CHECK_DEADLOCK FALSE
