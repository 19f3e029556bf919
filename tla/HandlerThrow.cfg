\* A Java handler that throws from nextPacket while libpcap has more records to hand pcap_callback.
CONSTANTS
  Counts <- MCCounts
  FileLen <- MCFileLen
  MaxCalls <- MCMaxCalls
  MaxBreaks <- MCMaxBreaks
  HandlerOps <- MCHandlerThrows

SPECIFICATION Spec

INVARIANT NoNativeFault

\* The caller may stop making calls: a finished behaviour is not a deadlock.
CHECK_DEADLOCK FALSE
