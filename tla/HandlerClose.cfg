\* A Java handler that calls PcapClose on the Pcap its own PcapLoop or PcapDispatch is reading.
CONSTANTS
  Counts <- MCCounts
  FileLen <- MCFileLen
  MaxCalls <- MCMaxCalls
  MaxBreaks <- MCMaxBreaks
  HandlerOps <- MCHandlerCloses

SPECIFICATION Spec

INVARIANT NoNativeFault

\* The caller may stop making calls: a finished behaviour is not a deadlock.
CHECK_DEADLOCK FALSE
