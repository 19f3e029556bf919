----------------------------- MODULE MCRegistry -----------------------------
(***************************************************************************)
(* The Native Handle Registry as one Java thread uses it: the Pcap,        *)
(* PcapDumper and BpfProgram objects of PcapHandle and the Arp object of   *)
(* Arp, their calls interleaved.  The two share the thread's call budget   *)
(* and the process: undefined behaviour in either ends the behaviour.      *)
(* Constants are those of MCPcapHandle; two protocol addresses and one     *)
(* hardware address let ArpAdd, ArpGet and ArpDelete meet a resident and   *)
(* a missing mapping.                                                      *)
(***************************************************************************)
EXTENDS Integers

CONSTANTS P1, P2, H1, Unparsable, Garbage, NoEntry, Unset,
          OpenDeadMayFail   \* pcap_open_dead may fail to allocate its pcap_t

VARIABLES psess, pmem, dsess, dmem, fptr, code, filter, insns, hids, last, res,
          arp, amem, table, jentry, added, alast, ares,
          fault, calls

pcapVars == <<psess, pmem, dsess, dmem, fptr, code, filter, insns, hids, last, res>>
arpVars == <<arp, amem, table, jentry, added, alast, ares>>
vars == <<pcapVars, arpVars, fault, calls>>

MCMaxCalls == 6

P == INSTANCE PcapHandle WITH LinkTypes <- {0, 1}, Snaplens <- {0, 65535, 65536},
                              ErrorCodes <- {-1, 1}, Counts <- {0, 1},
                              OpenDeadMayFail <- OpenDeadMayFail, MaxCalls <- MCMaxCalls
(* The host's cache maps P1 to H1 and has nothing for P2.                  *)
MCInitTables == {[p \in {P1, P2} |-> IF p = P1 THEN H1 ELSE NoEntry]}

A == INSTANCE Arp WITH PAddrs <- {P1, P2}, HAddrs <- {H1}, InitTables <- MCInitTables,
                       MaxCalls <- MCMaxCalls

Init == P!Init /\ A!Init

PcapStep == P!Next /\ UNCHANGED arpVars
ArpStep == A!Next /\ UNCHANGED pcapVars

Next == PcapStep \/ ArpStep

Spec == Init /\ [][Next]_vars

(* Property names of the components, for the cfg.                          *)
(* See PcapHandle!Lifecycle and Arp!Lifecycle: every call that returns to  *)
(* Java keeps the registry's promise for each object it takes.             *)
Lifecycle == P!Lifecycle
ArpLifecycle == A!Lifecycle

(* See Arp!GetReturnsAdded: ArpGet after ArpAdd returns what was added.    *)
GetReturnsAdded == A!GetReturnsAdded

(* See PcapHandle!EntriesNeverCrash and Arp!ClosedNeverCrashes: no JNI     *)
(* entry on a Pcap, PcapDumper, BpfProgram or Arp object crashes the       *)
(* process they share.                                                     *)
EntriesNeverCrash == P!EntriesNeverCrash /\ A!ClosedNeverCrashes

(* See Arp!GetMissLeavesHaUnset: a miss leaves the hardware address unset. *)
GetMissLeavesHaUnset == A!GetMissLeavesHaUnset
=============================================================================
