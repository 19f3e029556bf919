\* Every bf_insns array pcap_compile allocates is named by the BpfProgram or freed by PcapFreeCode.
CONSTANTS
  LinkTypes <- MCLinkTypes
  Snaplens <- MCSnaplens
  ErrorCodes <- MCErrorCodes
  Counts <- MCCounts
  OpenDeadMayFail = FALSE
  MaxCalls <- MCMaxCalls

SPECIFICATION Spec

INVARIANT FilterCodeAccounted

\* The caller may stop making calls, and undefined behaviour ends a run.
CHECK_DEADLOCK FALSE
