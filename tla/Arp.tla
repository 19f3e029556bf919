--------------------------------- MODULE Arp ---------------------------------
(***************************************************************************)
(* The ARP Table Bridge of jxnet.c: ArpOpen, ArpClose, ArpAdd, ArpDelete,  *)
(* ArpGet and ArpLoop on one Arp object, over libdnet's arp_t and the      *)
(* host's ARP cache.  Calls are made by one Java thread; each entry is one *)
(* atomic step.  An address is a model value; a string that addr_pton      *)
(* cannot parse is Unparsable; the contents of an uninitialised struct     *)
(* addr are Garbage or whatever address the stack last held.               *)
(*                                                                         *)
(* GetArp (outside src/) is modelled from the spec and from the code's     *)
(* "Exception already thrown": for an Arp object whose address is 0 it     *)
(* throws and returns NULL.  Every entry then calls ThrowNew again with    *)
(* that exception pending ("jni_pending"), which ends the behaviour.       *)
(* `fault` and `calls` are shared with the other components in a           *)
(* composition: one thread, one process.                                   *)
(***************************************************************************)
EXTENDS Integers

CONSTANTS
  PAddrs,       \* protocol addresses the caller names
  HAddrs,       \* hardware addresses the caller names
  Unparsable,   \* an address string addr_pton rejects
  Garbage,      \* the bytes of an uninitialised struct addr
  NoEntry,      \* no ARP mapping for a protocol address
  Unset,        \* an ArpEntry field that is null
  InitTables,   \* ARP caches the host may start with
  MaxCalls

VARIABLES
  arp, amem,    \* the Arp object's address ("none" before open), the arp_t
  table,        \* the host's ARP cache: protocol -> hardware address
  jentry,       \* the ArpEntry passed to the last ArpGet, after the call
  added,        \* what the caller's ArpAdd/ArpDelete calls left per address
  alast, ares,  \* the last ARP entry called, and what it returned
  fault, calls

avars == <<arp, amem>>
vars == <<arp, amem, table, jentry, added, alast, ares, fault, calls>>

-----------------------------------------------------------------------------
Call(e, pa) == /\ fault = "none" /\ calls < MaxCalls /\ calls' = calls + 1
               /\ alast' = [e |-> e, pa |-> pa]

Crash(f) == fault' = f /\ UNCHANGED <<avars, table, jentry, added, ares>>

(* GetArp, then A on the arp_t.  A closed object makes the entry throw     *)
(* NullPointerException over the pending exception.                        *)
WithArp(A) ==
  \/ arp = "closed" /\ Crash("jni_pending")
  \/ arp = "open" /\ amem = "freed" /\ Crash("use_after_free")
  \/ arp = "open" /\ amem = "alive" /\ A

Return(r) == ares' = r /\ UNCHANGED <<avars, table, jentry, added, fault>>

(* addr_pton(str_pa) < 0 || addr_pton(str_ha) < 0, for ArpAdd.            *)
(* Seeded fault: && for ||, so one good address lets the call through.    *)
ParsesEither(e) == e.pa # Unparsable \/ e.ha # Unparsable
EntryParses(e) == e.pa # Unparsable /\ e.ha # Unparsable

(* entry.arp_ha after addr_pton: the address, or the stack's contents.    *)
NativeHa(e) == IF e.ha \in HAddrs THEN {e.ha} ELSE {Garbage} \cup HAddrs

(* The caller's ArpEntry after SetObjectField of arp_pa and arp_ha.        *)
StoreEntry(p, h) == [pa |-> p, ha |-> h]

-----------------------------------------------------------------------------
(* Seeded fault: no NULL check on arp_open; a failed open hands back an    *)
(* Arp object whose address is 0.                                          *)
ArpOpenNoNullCheck ==
  /\ Call("ArpOpen", Unset) /\ arp = "none"
  /\ \/ arp' = "open" /\ amem' = "alive" /\ ares' = "ok"
        /\ UNCHANGED <<table, jentry, added, fault>>
     \/ arp' = "closed" /\ ares' = "ok" /\ UNCHANGED <<amem, table, jentry, added, fault>>

(* arp_open returns NULL (ArpOpen returns null, nothing thrown) or an       *)
(* arp_t that a new Arp object holds.                                      *)
ArpOpen ==
  /\ Call("ArpOpen", Unset) /\ arp = "none"
  /\ \/ arp' = "open" /\ amem' = "alive" /\ ares' = "ok"
        /\ UNCHANGED <<table, jentry, added, fault>>
     \/ Return("error")

(* arp_close, then the object's address is replaced by 0.                  *)
ArpClose ==
  /\ Call("ArpClose", Unset) /\ arp # "none"
  /\ WithArp(arp' = "closed" /\ amem' = "freed" /\ ares' = "ok"
             /\ UNCHANGED <<table, jentry, added, fault>>)

(* Both strings must parse, else -1 without a native call; arp_add then    *)
(* installs a permanent mapping or fails (-1).                             *)
ArpAdd ==
  /\ arp # "none"
  /\ \E e \in [pa : PAddrs \cup {Unparsable}, ha : HAddrs \cup {Unparsable}] :
       /\ Call("ArpAdd", e.pa)
       /\ WithArp(
            IF ~EntryParses(e) THEN Return("error")
            ELSE \/ \E h \in NativeHa(e) :
                      /\ table' = [table EXCEPT ![e.pa] = h]
                      /\ added' = [added EXCEPT ![e.pa] = e.ha]
                      /\ ares' = "ok" /\ UNCHANGED <<avars, jentry, fault>>
                 \/ Return("error"))

(* The protocol string must parse; arp_delete removes a resident mapping,  *)
(* and fails (-1) when there is none.                                      *)
ArpDelete ==
  /\ arp # "none"
  /\ \E p \in PAddrs \cup {Unparsable} :
       /\ Call("ArpDelete", p)
       /\ WithArp(
            IF p = Unparsable THEN Return("error")
            ELSE \/ /\ table[p] # NoEntry
                    /\ table' = [table EXCEPT ![p] = NoEntry]
                    /\ added' = [added EXCEPT ![p] = NoEntry]
                    /\ ares' = "ok" /\ UNCHANGED <<avars, jentry, fault>>
                 \/ Return("error"))

(* The caller's entry has its protocol address set and its hardware        *)
(* address null.  An unparsable one returns -1 untouched.  Otherwise       *)
(* arp_get fills entry.arp_ha (0) or fails and leaves it uninitialised     *)
(* (-1); either way the code builds both Addr objects from `entry` and     *)
(* stores them in the caller's ArpEntry, then returns r.                   *)
ArpGet ==
  /\ arp # "none"
  /\ \E p \in PAddrs \cup {Unparsable} :
       /\ Call("ArpGet", p)
       /\ WithArp(
            \/ /\ p = Unparsable /\ jentry' = [pa |-> p, ha |-> Unset]
               /\ ares' = "error" /\ UNCHANGED <<avars, table, added, fault>>
            \/ /\ p # Unparsable
               /\ \E h \in IF table[p] # NoEntry THEN {table[p]} ELSE {Garbage} \cup HAddrs :
                    jentry' = StoreEntry(p, h)
               /\ ares' = IF table[p] # NoEntry THEN "ok" ELSE "error"
               /\ UNCHANGED <<avars, table, added, fault>>)

(* arp_loop hands each resident entry to arp_callback, which calls the     *)
(* ArpHandler with the caller's context; it returns 0, or the first        *)
(* nonzero value the handler returned.  The cache is not changed.          *)
ArpLoop ==
  /\ Call("ArpLoop", Unset) /\ arp # "none"
  /\ WithArp(\E r \in {"ok", "stopped"} :
               /\ r = "stopped" => \E p \in PAddrs : table[p] # NoEntry
               /\ Return(r))

-----------------------------------------------------------------------------
Init ==
  /\ arp = "none" /\ amem = "none"
  /\ table \in InitTables
  /\ jentry = [pa |-> Unset, ha |-> Unset]
  /\ added = [p \in PAddrs |-> NoEntry]
  /\ alast = [e |-> "none", pa |-> Unset] /\ ares = "none"
  /\ fault = "none" /\ calls = 0

Next == ArpOpen \/ ArpClose \/ ArpAdd \/ ArpDelete \/ ArpGet \/ ArpLoop

Spec == Init /\ [][Next]_vars

-----------------------------------------------------------------------------
(* Refinement mapping onto the registry's promise for the Arp object.      *)
LC == INSTANCE HandleLifecycle WITH
        Handles <- {"arp"}, Preexisting <- {},
        hstate <- [h \in {"arp"} |-> IF arp = "none" THEN "unopened" ELSE arp],
        held <- [h \in {"arp"} |-> amem = "alive"],
        outcome <- IF ares = "stopped" THEN "ok" ELSE ares

(* Every ARP call that returns to Java keeps the registry's promise for    *)
(* the Arp object: ArpOpen acquires an arp_t or returns null, ArpClose     *)
(* releases it once, and ArpAdd/Delete/Get/Loop reach it only while it is  *)
(* open (jxnet.c ArpOpen .. ArpGet with GetArp; spec 4.4 "mirror the       *)
(* handle-registry discipline").                                           *)
Lifecycle == LC!Spec

(* No call made on a closed Arp object crashes (spec 8): after GetArp      *)
(* threw, ArpClose, ArpLoop, ArpAdd, ArpDelete and ArpGet must not make    *)
(* another JNI call with that exception pending.                           *)
ClosedNeverCrashes == fault # "jni_pending"

(* ArpAdd followed by ArpGet with the same protocol address returns the    *)
(* hardware address that was added (spec 8), through the parse checks of   *)
(* ArpAdd and ArpDelete and the copy of entry.arp_ha in ArpGet.            *)
GetReturnsAdded ==
  (fault = "none" /\ alast.e = "ArpGet" /\ alast.pa \in PAddrs /\ added[alast.pa] # NoEntry)
    => ares = "ok" /\ jentry.ha = added[alast.pa]

(* ArpGet on a protocol address with no resident mapping returns a         *)
(* negative status and leaves the entry's hardware address unset (spec 8); *)
(* jxnet.c 1194-1206 builds arp_ha from entry whatever arp_get returned.  *)
GetMissLeavesHaUnset ==
  (fault = "none" /\ alast.e = "ArpGet" /\ ares = "error") => jentry.ha = Unset

=============================================================================
