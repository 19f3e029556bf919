\* Device enumeration and net lookup hand the caller what libpcap found, in the spec's form.
CONSTANTS
  AF_INET <- MC_AF_INET
  AF_INET6 <- MC_AF_INET6
  HostDevLists <- MCHostDevLists
  NetAnswers <- MCNetAnswers
  InAddrs <- MCInAddrs
  LittleEndian = TRUE
  NULL = NULL
  MaxCalls <- MCMaxCalls

SPECIFICATION Spec

INVARIANT TypeOK
INVARIANT EnumerationFaithful
INVARIANT LookupNetInNetworkOrder

\* The caller may stop making calls: a finished behaviour is not a deadlock.
CHECK_DEADLOCK FALSE
