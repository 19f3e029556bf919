\* Every PcapIf carries the flags of its own device.
CONSTANTS
  AF_INET <- MC_AF_INET
  AF_INET6 <- MC_AF_INET6
  HostDevLists <- MCHostDevLists
  NetAnswers <- MCNetAnswers
  InAddrs <- MCInAddrs
  LittleEndian = TRUE
  NULL = NULL
  MaxCalls <- MCMaxCalls

SPECIFICATION Spec

INVARIANT DevicesMirrorNative

\* The caller may stop making calls: a finished behaviour is not a deadlock.
CHECK_DEADLOCK FALSE
