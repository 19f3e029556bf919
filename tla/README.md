# TLA+ models of Jxnet's native layer

Jxnet is a JNI binding of libpcap (and libdnet's ARP table) for Java. Its native
code is `src/src/jxnet.c` (one JNI entry point per `Jxnet.Xxx` Java method) and
`src/jni/src/utils.c` (pointer marshaling, the `GetPcap`/`GetPcapDumper`/
`GetBpfProgram` resolvers and `pcap_callback`). This directory models that code
for the TLC model checker.

## The system

| Part (spec §) | State it keeps | Operations | Interacts with |
|---|---|---|---|
| Native Handle Registry (4.1) | a Java object (Pcap, PcapDumper, BpfProgram, File, Arp) holding a native address, 0 once closed | `SetX`/`GetX` in utils.c; every open/close entry | every other part, which resolves handles through it |
| Capture Dispatch Engine (4.3) | libpcap's `pcap_t` (its `break_loop` flag and read position), the handler in flight, the pending Java exception | `PcapLoop`, `PcapDispatch`, `PcapNext`, `PcapNextEx`, `PcapBreakLoop`, `pcap_callback` | the registry (the Pcap pointer); Java's `PcapHandler.nextPacket`, which can call back into Jxnet |
| Marshaling Layer (4.2) | none between calls | `PcapFindAllDevs`, `PcapLookupNet`, `PcapLookupDev`, `NewSockAddr`, `swap_order_uint32` | the caller's Java lists and address objects |
| ARP Table Bridge (4.4) | the dnet `arp_t` handle | `ArpOpen`, `ArpClose`, `ArpAdd`, `ArpDelete`, `ArpGet`, `ArpLoop` | the registry (Arp objects), a Java ArpHandler |

The behaviours that are hard to test here:
- The loop thread runs Java code (the handler) in the middle of a libpcap call.
  That handler can call `PcapBreakLoop` or `PcapClose` on the same session, or throw.
- A second thread calls `PcapBreakLoop` at any moment. It reads the pointer, then
  writes the flag, in two steps.
- libpcap's `break_loop` flag outlives the call that set it.
- A handle is resolved to NULL after close. Some entries forget to check that NULL.
  Others go on making JNI calls with the close exception pending.

## Modules

- **`PcapDispatch`** models the Capture Dispatch Engine, together with the Pcap
  open/close entries it needs.
  - **State.** Variables follow the code:
    - `sess`/`native`: the Java object and its `pcap_t`;
    - `brk`: libpcap's `p->break_loop`;
    - `pc`, with `cnt` and `n`: where the loop thread is inside `pcap_loop`/`pcap_dispatch`, and `pcap_loop`'s remaining count;
    - `pending`: the Java exception pending on the loop thread;
    - `bpc`: thread B between `GetPcap` and `pcap_breakloop`;
    - `fault`: the first undefined behaviour reached.
  - **Actions.**
    - One per JNI entry: `PcapOpenLive`, `PcapOpenOffline`, `PcapClose`, `PcapBreakLoop`, `PcapLoop`, `PcapDispatch`, `PcapNext`, `PcapNextEx`.
    - `ReadRecord` is one turn of libpcap's read loop.
    - `Handler(op)` is `pcap_callback` with what the Java handler does: return, break, close or throw.
    - `BResolve`/`BBreak` are thread B's `PcapBreakLoop`.
    - `Arrive` is the network.
    - `PcapClose` waits for thread B to be out of `PcapBreakLoop` (`MayClose`). This is the caller's duty under spec 5 (the caller serialises concurrent uses of a handle), not code of the binding.
  - **libpcap.** libpcap is modelled by its documented loop contract, which is the black box the code calls. The flag is tested before each record. A break with no record read is cleared and returns -2. `pcap_loop` retries live timeouts, counts across batches and returns 0 when the count is used up. `pcap_dispatch` returns the batch count.
- **`HandleLifecycle`** is the abstract promise of the registry (spec 4.1, 7). A handle goes unopened, then open, then closed. Open acquires the native resource and close releases it once. Uses of a closed handle report ClosedResource. A rejected argument changes nothing, and so does a call that names no handle (`Unbound`).
- **`PcapHandle`** models the Native Handle Registry for Pcap, PcapDumper and BpfProgram objects.
  - **Actions.** There is one action for each entry that takes one of those objects. The entries share the same resolution pattern: `WithPcap`, `WithDumper` and `WithProgram` model `GetPcap`, `GetPcapDumper` and `GetBpfProgram`. Each takes what the entry does when its getter threw and returned NULL.
  - **Handle-free entries.** `PcapLibVersion`, `PcapStrError`, `PcapDatalinkValToName`, `PcapDatalinkValToDescription` and `PcapDatalinkNameToVal` run their `CheckArgument` line and then answer from libpcap's tables (`res` is `"answer"`, or `"unknown"` for a NULL string or -1). The refinement maps them to `HandleLifecycle`'s `Unbound` step, so a slip that made one of them touch a handle would fail `Lifecycle`.
  - **Argument checks.** They are the code's `CheckArgument` predicates (`OpenDeadArgsOK`, ...). `CheckArgument` itself lives in `preconditions.h`, outside `src/`, and is modelled from the spec as fail-fast (`Reject`).
  - **Filter code.** `insns` counts the `bf_insns` arrays `pcap_compile` allocated that `pcap_freecode` has not freed; `code` is whether the program names one. A compile stores its array over the old pointer.
  - **Allocation failure.** With `OpenDeadMayFail`, `pcap_open_dead` may return NULL (`OpenDeadNoMem`); the code wraps it in a Pcap object of address 0. `MCRegistry.cfg` sets it FALSE, so `handle_lifecycle` checks the registry's promise with allocation succeeding; `RegistryCrash.cfg` sets it TRUE.
  - **`PcapNextEx`'s copy.** `CopyRecord`: the caller's buffer may have less room than the record, so `ByteBuffer.put` throws and the `SetIntField` calls after it run with the exception pending.
  - **Read entries.** `PcapLoop` and `PcapDispatch` check their count (`LoopArgsOK`) and load `PcapPktHdr`'s field IDs; `PcapNext` and `PcapNextEx` load them once the Pcap resolved. `hids` records whether they are loaded; `PcapDump`, whose own load is commented out, reads them, and its payload is a direct or a heap `ByteBuffer`.
  - **Refinement.** `PcapHandle` is shown to implement `HandleLifecycle` through the refinement mapping `LC`. A call that ends in undefined behaviour ends the behaviour there; it is a stutter of the abstract spec. Those calls are what the `closed_handle` run looks for.
- **`Marshaling`** models the Marshaling Layer.
  - **State.** `alldevs` is the host's device list as `pcap_findalldevs` returns it. `jdevs`, `ebuf`, `jnet`/`jmask` and `jdev` are the caller's Java objects: the `List<PcapIf>`, the error `StringBuilder`, the two `Inet4Address`es, and the returned device name.
  - **Actions.** `PcapFindAllDevs`, `PcapLookupNet` and `PcapLookupDev`, each one whole entry.
    - In `PcapFindAllDevs`, a `List.add` that returns false stops the walk after k whole devices.
    - `MarshalDevs`, `PcapIfOf`, `PcapAddrOf`, `NewSockAddr` and `NewByteAddr` are the walk and the conversions, the flags read from the list's head included.
  - **Words.** A 32-bit word is 4 bytes, most significant first. TLC's integers are signed 32-bit, and every shift in `swap_order_uint32` moves whole bytes. So `ShiftL`, `ShiftR`, `AndW` and `OrW` with Bitwise `&`/`|` compute exactly what the C does, including the bits shifted out.
  - **Byte order.** `HostWord` reads the bytes `pcap_lookupnet` stored as a `bpf_u_int32` on the build's byte order.
- **`Arp`** models the ARP Table Bridge.
  - **State.** One Arp object (`arp`/`amem`), the host's ARP cache `table`, the caller's `ArpEntry` after the last `ArpGet`, and the ghost `added`: what the caller's adds and deletes left.
  - **Actions.** One for each of `ArpOpen`, `ArpClose`, `ArpAdd`, `ArpDelete`, `ArpGet` and `ArpLoop`.
  - **Outside `src/`.** `GetArp` and `arp_callback` are not under `src/`. `GetArp` is modelled from the spec and from the code's "Exception already thrown": address 0 throws and returns NULL. `ArpLoop` is one step.
  - **Uninitialised memory.** The contents of an uninitialised `struct addr` are a nondeterministic choice: `Garbage`, or any address the stack may still hold.
  - **Refinement.** `Arp` refines `HandleLifecycle` for the Arp object.
- **`MCRegistry`** composes `PcapHandle` and `Arp` as one Java thread's calls.
  - They share `calls` (one budget) and `fault` (one process: undefined behaviour in either ends the behaviour).
  - Their other variables are disjoint, and each step leaves the other component's variables unchanged.
- **`MCPcapDispatch`**, **`MCPcapHandle`** and **`MCMarshaling`** give the constants for TLC.

## Runs

| Run | Checks | Result |
|---|---|---|
| `dispatch_safety` | `NoNativeFault`, `CountBound`, `DispatchReturnsDelivered`, `BreakTerminates`, with close serialised with B's break (spec 5) and a handler that only returns or breaks (the project's assumption: the misuses have runs of their own) | pass |
| `stale_break` | `BreakOnlyWhenRequested`: -2 only if a break was requested during the call | violated: a break made between loops aborts the next `PcapLoop` (jxnet.c:541) |
| `loop_return_count` | `LoopReturnsCount`: `PcapLoop` returns the number of handler invocations (spec 8) | violated: it returns `pcap_loop`'s 0 (jxnet.c:186) |
| `handler_close` | `NoNativeFault` with a handler that may call `PcapClose` | violated: `pcap_loop` reads the next record through the `pcap_t` the handler freed (jxnet.c:471, 186) |
| `handler_throw` | `NoNativeFault` with a handler that may throw | violated: the next record's `pcap_callback` calls `NewObject`/`SetIntField` with the exception pending (utils.c:203) |
| `handle_lifecycle` | `MCRegistry`: `Lifecycle` and `ArpLifecycle` (refinements of `HandleLifecycle`), `GetReturnsAdded` (spec 8: `ArpGet` after `ArpAdd` returns the added address) | pass |
| `registry_crash` | `MCRegistry` with `pcap_open_dead` allowed to fail: `EntriesNeverCrash` (spec 8, spec 3): no entry dereferences a NULL or calls JNI with an exception pending | violated: `PcapFreeCode` on a BpfProgram of address 0 throws over the pending exception. The same invariant is broken by `PcapStats` on a closed Pcap, `PcapDumpClose` twice, the ARP entries on a closed Arp, `PcapOpenLive`, `PcapDumpOpen`, `PcapDump` (jxnet.c:264), `PcapNextEx` after `ByteBuffer.put` overflowed (448), and `PcapStats` on a Pcap whose `pcap_open_dead` failed (707); TLC reports the shortest |
| `arg_domains` | `RejectsExactlyOutsideSpec` (spec 6 domains) | violated: `PcapOpenDead(0, 0)` is accepted; the datalink lookups and `PcapStrError` invert their checks the same way |
| `marshal_safety` | `TypeOK`, `EnumerationFaithful` (devices and addresses in order, converted by family; 0 only with the whole list, -1 with a strict prefix), `LookupNetInNetworkOrder` (after `swap_order_uint32`, the caller holds the network order) | pass |
| `findalldevs_flags` | `DevicesMirrorNative`: each `PcapIf` has its own device's flags | violated: every `PcapIf` gets the first device's flags (jxnet.c:106) |
| `arp_get_miss` | `GetMissLeavesHaUnset` (spec 8) | violated: a miss stores an address built from uninitialised memory (jxnet.c:1197) |
| `filter_leak` | `FilterCodeAccounted` (spec 4.1: a compiled filter is released exactly once): every `bf_insns` array is the program's or freed | violated: a second `PcapCompile` into the same BpfProgram drops the first array (jxnet.c:342) |

Each property of a passing run has a mutant in `PROJECT.json`: a plausible bug in
the mapped definition that TLC must catch. The violated runs are findings and are
described there.

**Bounds.**
- `Counts = {-1, 0, 1, 2}`. The two rejected values include a negative one, which libpcap reads as "no limit". A count of 2 can run out across two read batches.
- A 2-record offline file, so that a count, a break and the end of the file can each end a loop first.
- 4 calls of the loop thread and 2 breaks of thread B. That is enough to break between loops, then loop, then close.
- `PcapHandle` allows 6 calls. That opens a Pcap, opens a dumper, closes both and uses each again.
- Link types are {0, 1} and snaplens are {0, 65535, 65536}. These are the boundaries where the code's checks and the spec's differ. Error numbers for `PcapStrError` are {-1, 1}: the negative one is the only kind its check accepts, 1 (EPERM) a real errno.
- `MCRegistry` keeps `PcapHandle`'s bounds. The 6 calls are shared with the Arp object, whose cache maps `P1` to `H1` and has nothing for `P2`. That is enough to open the Arp, add to an address with no mapping, get it and delete it, and to meet a resident and a missing mapping (about 217,000 states, 45 s). `Counts` there is {0, 1}: the rejected count and the smallest accepted one.
- `MCMarshaling` has a host with no device, or `lo` followed by `eth0`.
  - The two devices have different flags, and their addresses include IPv4, IPv6, `AF_PACKET` (17) and NULL sockaddrs.
  - `pcap_lookupnet` finds a /24 or a /8. No two bytes of 192.168.1.0 are equal, so any wrong byte move shows.
  - The build is little-endian.
  - 3 calls let each pair of entries run in order.

**Fairness.**
- `ReadRecord`, `Handler` and `BBreak` are weakly fair. They are steps of a thread already inside a native call, which keeps running.
- Java's decision to make a call and the arrival of frames (`Arrive`) are not fair. A live interface may stay silent, and then only a break ends `pcap_loop`.
- Deadlock is not checked. The caller may simply stop making calls.

## Not modelled

The dispatch engine, the handle registry (with filter-code accounting, the
field-ID state and `pcap_open_dead`'s allocation failure), the marshaling layer
and the ARP bridge are modelled. What is left out, and why:
- **Payload data of the dispatch engine.** The model keeps records as model values, so three hazards that live in the bytes have no property:
  - the `PcapNext` view over libpcap's buffer, which the next read or a close invalidates (jxnet.c:417). The spec itself makes the view borrowed (spec 4.3, 7), so keeping it valid is the caller's part;
  - `tv_sec` cast to `jint` (utils.c:206, jxnet.c 415, 451, 264). It is one cast of one field, which a unit test with a post-2038 timestamp reaches;
  - `PcapSendPacket`'s length, never compared with the buffer's capacity (jxnet.c:391). The spec gives `sendPacket` no bound to check it against.
- **Marshaling leftovers.**
  - `PcapLookupNet` also swaps and writes back the caller's addresses when `pcap_lookupnet` failed (jxnet.c:910). The model does this, so a failed call reverses both addresses and a second one restores them. The spec gives no contract for out-parameters of a failed call, so no property checks it.
  - On a big-endian build the swap is wrong: `LookupNetInNetworkOrder` fails with `LittleEndian = FALSE`, the open question of spec 9.
  - `pcap_freealldevs` is never called (jxnet.c:114). The list leaks on every call, in one step; a property would restate the missing line.
- **A close racing thread B's `PcapBreakLoop`** (jxnet.c:537-541). Spec 5 makes serialising concurrent uses of a handle the caller's duty, so `PcapDispatch` assumes it (`MayClose`) rather than checking it.
- **ARP handler re-entry.** A handler that calls back into `ArpDelete`/`ArpClose` during `ArpLoop` is not modelled, because `arp_loop`/`arp_callback` are outside `src/`.
- Null-argument checks: the model's caller passes objects.
- The commented-out entries: the socket entries (jxnet.c 805-892) and `PcapDumpFOpen` (951-975).
- `ids.c` and `preconditions.h` are not under `src/`. Of them, only the `PcapPktHdr` field IDs (`hids`) and `CheckArgument`'s fail-fast rejection are modelled, from the spec.
