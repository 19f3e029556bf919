---------------------------- MODULE MCPcapHandle ----------------------------
(***************************************************************************)
(* Instantiates PcapHandle for TLC.  The link types are the boundary 0/1   *)
(* of the spec's ">= 1"; the snaplens are the boundaries of (0, 65536)     *)
(* plus 65535, where the checks of PcapCompileNoPcap and PcapOpenDead      *)
(* differ from the others.  Six calls are enough to open a Pcap, open a    *)
(* dumper on it, close both and use each once more.                        *)
(***************************************************************************)
EXTENDS PcapHandle

MCLinkTypes == {0, 1}
MCSnaplens == {0, 65535, 65536}
MCErrorCodes == {-1, 1}
MCCounts == {0, 1}
MCMaxCalls == 6
=============================================================================
