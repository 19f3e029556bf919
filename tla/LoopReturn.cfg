\* PcapLoop returns pcap_loop's 0, not the number of frames, when its count is used up.
CONSTANTS
  Counts <- MCCounts
  FileLen <- MCFileLen
  MaxCalls <- MCMaxCalls
  MaxBreaks <- MCMaxBreaks
  HandlerOps <- MCHandlerSafe

SPECIFICATION Spec

INVARIANT LoopReturnsCount

\* The caller may stop making calls: a finished behaviour is not a deadlock.
CHECK_DEADLOCK FALSE
