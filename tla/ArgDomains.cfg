\* The argument checks of the entry points against the spec's domains.
CONSTANTS
  LinkTypes <- MCLinkTypes
  Snaplens <- MCSnaplens
  ErrorCodes <- MCErrorCodes
  Counts <- MCCounts
  OpenDeadMayFail = FALSE
  MaxCalls <- MCMaxCalls

SPECIFICATION Spec

INVARIANT RejectsExactlyOutsideSpec

\* The caller may stop making calls, and undefined behaviour ends a run.
CHECK_DEADLOCK FALSE
