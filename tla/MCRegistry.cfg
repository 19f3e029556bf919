\* Every JNI call on Pcap, PcapDumper, BpfProgram and Arp objects that returns
\* to Java behaves as the handle registry promises, and ArpGet returns what ArpAdd added.
CONSTANTS
  P1 = P1
  P2 = P2
  H1 = H1
  Unparsable = Unparsable
  Garbage = Garbage
  NoEntry = NoEntry
  Unset = Unset
  \* pcap_open_dead's allocation succeeds: the registry's promise assumes memory.
  OpenDeadMayFail = FALSE

SPECIFICATION Spec

INVARIANT GetReturnsAdded

PROPERTY Lifecycle
PROPERTY ArpLifecycle

\* The caller may stop making calls, and undefined behaviour ends a run.
CHECK_DEADLOCK FALSE
