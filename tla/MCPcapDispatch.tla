--------------------------- MODULE MCPcapDispatch ---------------------------
(***************************************************************************)
(* Instantiates PcapDispatch for TLC.  Counts covers the rejected values   *)
(* (0 and a negative count, which libpcap would read as "no limit") and    *)
(* the limits 1 and 2, so a count can run out inside and across read       *)
(* batches; a two-record offline file lets a count, a break and the end of *)
(* the file each end a loop first.                                         *)
(***************************************************************************)
EXTENDS PcapDispatch

MCCounts == {-1, 0, 1, 2}
MCFileLen == 2
MCMaxCalls == 4
MCMaxBreaks == 2

\* The handler may break the loop itself.  A handler that closes the Pcap
\* or throws from nextPacket has a model of its own.
MCHandlerSafe == {"return", "break"}
MCHandlerCloses == {"return", "close"}
MCHandlerThrows == {"return", "throw"}
=============================================================================
