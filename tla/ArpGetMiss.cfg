\* ArpGet on an address with no ARP mapping must leave the entry's hardware address unset.
CONSTANTS
  P1 = P1
  P2 = P2
  H1 = H1
  Unparsable = Unparsable
  Garbage = Garbage
  NoEntry = NoEntry
  Unset = Unset
  OpenDeadMayFail = FALSE

SPECIFICATION Spec

INVARIANT GetMissLeavesHaUnset

\* The caller may stop making calls, and undefined behaviour ends a run.
CHECK_DEADLOCK FALSE
