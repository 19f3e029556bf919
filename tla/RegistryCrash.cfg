\* No JNI entry on a Pcap, PcapDumper, BpfProgram or Arp object crashes: a call on a closed object, PcapDump on an open dumper, or a Pcap whose pcap_open_dead failed.
CONSTANTS
  P1 = P1
  P2 = P2
  H1 = H1
  Unparsable = Unparsable
  Garbage = Garbage
  NoEntry = NoEntry
  Unset = Unset
  OpenDeadMayFail = TRUE

SPECIFICATION Spec

INVARIANT EntriesNeverCrash

\* The caller may stop making calls, and undefined behaviour ends a run.
CHECK_DEADLOCK FALSE
