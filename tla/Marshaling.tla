----------------------------- MODULE Marshaling -----------------------------
(***************************************************************************)
(* The Marshaling Layer of jxnet.c and utils.c: PcapFindAllDevs, which     *)
(* copies libpcap's device list into the caller's List<PcapIf>,            *)
(* PcapLookupNet, which reads the caller's Inet4Address objects, calls     *)
(* pcap_lookupnet, byte-swaps both words and writes them back, and         *)
(* PcapLookupDev.  Calls are made by one Java thread; each entry is one    *)
(* atomic step.                                                            *)
(*                                                                         *)
(* Data.  A name, a flag set or an address family is a small value; a      *)
(* struct sockaddr is its family; a byte array is its length.  A 32-bit    *)
(* word is the sequence of its 4 bytes, most significant first: TLC's      *)
(* integers are 32-bit signed, and every shift of swap_order_uint32 moves  *)
(* whole bytes, so a shift is a byte move and the bits shifted out of the  *)
(* word are lost exactly as in C.                                          *)
(***************************************************************************)
EXTENDS Integers, Sequences, SequencesExt, Bitwise

CONSTANTS
  AF_INET, AF_INET6,  \* the two families NewByteAddr converts
  HostDevLists,       \* device lists pcap_findalldevs can return on the host
  NetAnswers,         \* [net, mask] byte tuples pcap_lookupnet can return
  InAddrs,            \* byte tuples the caller's Inet4Address objects hold
  LittleEndian,       \* the build's byte order
  NULL,               \* a NULL pointer, a null Java reference
  MaxCalls

VARIABLES
  alldevs,      \* the host's device list, as pcap_findalldevs builds it
  jdevs,        \* the caller's List<PcapIf> after the last call
  ebuf,         \* the caller's StringBuilder: "prior", "empty" or "diag"
  jnet, jmask,  \* the caller's Inet4Address objects, as 4 bytes
  ans,          \* what pcap_lookupnet wrote, in network byte order
  jdev,         \* the String PcapLookupDev returned
  last, res, calls

vars == <<alldevs, jdevs, ebuf, jnet, jmask, ans, jdev, last, res, calls>>

-----------------------------------------------------------------------------
(* swap_order_uint32 (utils.c), on a word of 4 bytes.                      *)
Word == [1..4 -> 0..255]

ShiftL(w, k) == [i \in 1..4 |-> IF i + k <= 4 THEN w[i + k] ELSE 0]
ShiftR(w, k) == [i \in 1..4 |-> IF i - k >= 1 THEN w[i - k] ELSE 0]
AndW(w, m) == [i \in 1..4 |-> w[i] & m[i]]
OrW(v, w) == [i \in 1..4 |-> v[i] | w[i]]

Mask_FF00FF00 == <<255, 0, 255, 0>>
Mask_00FF00FF == <<0, 255, 0, 255>>

(* Seeded fault: the first mask written 0xFF00FF instead of 0xFF00FF00.    *)
SwapWrongMask(w) ==
  LET v == OrW(AndW(ShiftL(w, 1), Mask_00FF00FF), AndW(ShiftR(w, 1), Mask_00FF00FF))
  IN OrW(ShiftL(v, 2), ShiftR(v, 2))

swap_order_uint32(w) ==
  LET v == OrW(AndW(ShiftL(w, 1), Mask_FF00FF00), AndW(ShiftR(w, 1), Mask_00FF00FF))
  IN OrW(ShiftL(v, 2), ShiftR(v, 2))

(* A bpf_u_int32 holding bytes b in memory, read as a number.              *)
HostWord(b) == IF LittleEndian THEN Reverse(b) ELSE b

-----------------------------------------------------------------------------
(* NewByteAddr and NewSockAddr (utils.c): a NULL sockaddr gives an empty   *)
(* SockAddr, whose fields keep Java's defaults 0 and null; a known family  *)
(* gives a byte array of its length, any other family a null array.       *)
(* Seeded fault: the AF_INET6 arm copied from the AF_INET one.            *)
NewByteAddrV6Short(f) == CASE f \in {AF_INET, AF_INET6} -> 4
                         [] OTHER -> NULL

NewByteAddr(f) == CASE f = AF_INET  -> 4
                    [] f = AF_INET6 -> 16
                    [] OTHER        -> NULL

(* Seeded fault: no NULL check; the family is read from whatever is there. *)
NewSockAddrNoNullCheck(a) == [family |-> a, data |-> NewByteAddr(a)]

NewSockAddr(a) == IF a = NULL THEN [family |-> 0, data |-> NULL]
                  ELSE [family |-> a, data |-> NewByteAddr(a)]

(* One PcapAddr: the four sockaddrs of a pcap_addr_t.                      *)
PcapAddrOf(a) == [f \in DOMAIN a |-> NewSockAddr(a[f])]

(* One PcapIf, its flags read from `flags` as the code does.               *)
PcapIfOf(d, flags) == [name |-> d.name, flags |-> flags,
                       addrs |-> [j \in 1..Len(d.addrs) |-> PcapAddrOf(d.addrs[j])]]

(* The PcapIf objects of the first k devices, each with the flags of the   *)
(* list's head (alldevsp->flags).                                          *)
MarshalDevs(k) == [i \in 1..k |-> PcapIfOf(alldevs[i], alldevs[1].flags)]

(* SetStringBuilder: the builder's content is replaced by errbuf.          *)
SetStringBuilder(buf) == ebuf' = buf

Call(e) == /\ calls < MaxCalls /\ calls' = calls + 1 /\ last' = e

-----------------------------------------------------------------------------
(* pcap_findalldevs fails (-1, errbuf filled), or finds no device (0 and   *)
(* a NULL list, errbuf empty), or returns the list, which is copied device *)
(* by device.  The caller's List.add may refuse an element: the walk stops *)
(* at once with -1, after k whole devices; the device being built, whose   *)
(* PcapIf is added after its addresses, is not in the list.                *)
PcapFindAllDevs ==
  /\ Call("PcapFindAllDevs")
  /\ \/ SetStringBuilder("diag") /\ res' = -1 /\ jdevs' = <<>>
     \/ alldevs = <<>> /\ SetStringBuilder("empty") /\ res' = 0 /\ jdevs' = <<>>
     \/ /\ alldevs # <<>>
        /\ \E k \in 0..Len(alldevs) :
             /\ jdevs' = MarshalDevs(k)
             /\ res' = IF k = Len(alldevs) THEN 0 ELSE -1
        /\ UNCHANGED ebuf
  /\ UNCHANGED <<alldevs, jnet, jmask, ans, jdev>>

(* netp and maskp start as the caller's addresses; pcap_lookupnet either   *)
(* overwrites both (0) or fails and leaves them (-1).  errbuf is copied    *)
(* either way, both words are swapped, and Inet4Address.update writes      *)
(* them back.  A Java int holds an address most significant byte first.   *)
PcapLookupNet ==
  /\ Call("PcapLookupNet")
  /\ \/ \E a \in NetAnswers :
          /\ ans' = a /\ res' = 0 /\ SetStringBuilder("empty")
          /\ jnet' = swap_order_uint32(HostWord(a.net))
          /\ jmask' = swap_order_uint32(HostWord(a.mask))
     \/ /\ res' = -1 /\ SetStringBuilder("diag") /\ UNCHANGED ans
        /\ jnet' = swap_order_uint32(jnet) /\ jmask' = swap_order_uint32(jmask)
  /\ UNCHANGED <<alldevs, jdevs, jdev>>

(* pcap_lookupdev names a device of the host, or returns NULL with errbuf  *)
(* filled, which NewStringUTF turns into a null String.                    *)
PcapLookupDev ==
  /\ Call("PcapLookupDev")
  /\ \/ \E i \in 1..Len(alldevs) : jdev' = alldevs[i].name /\ res' = 0 /\ UNCHANGED ebuf
     \/ jdev' = NULL /\ res' = -1 /\ SetStringBuilder("diag")
  /\ UNCHANGED <<alldevs, jdevs, jnet, jmask, ans>>

-----------------------------------------------------------------------------
Init ==
  /\ alldevs \in HostDevLists
  /\ jdevs = <<>> /\ ebuf = "prior"
  /\ jnet \in InAddrs /\ jmask \in InAddrs
  /\ ans = [net |-> <<0, 0, 0, 0>>, mask |-> <<0, 0, 0, 0>>]
  /\ jdev = NULL /\ last = "none" /\ res = 0 /\ calls = 0

Next == PcapFindAllDevs \/ PcapLookupNet \/ PcapLookupDev

Spec == Init /\ [][Next]_vars

-----------------------------------------------------------------------------
Results == {"none", "PcapFindAllDevs", "PcapLookupNet", "PcapLookupDev"}

HostDevs == UNION {Range(l) : l \in HostDevLists}
HostAddrs == UNION {Range(d.addrs) : d \in HostDevs}

SockAddrs == [family : {0} \cup (UNION {Range(a) : a \in HostAddrs} \ {NULL}),
              data : {4, 16, NULL}]

TypeOK ==
  /\ alldevs \in HostDevLists
  /\ jdevs \in Seq([name : {d.name : d \in HostDevs}, flags : Int,
                    addrs : Seq([{"addr", "netmask", "broadaddr", "dstaddr"} -> SockAddrs])])
  /\ ebuf \in {"prior", "empty", "diag"}
  /\ jnet \in Word /\ jmask \in Word
  /\ ans \in [net : Word, mask : Word]
  /\ jdev \in {NULL} \cup {d.name : d \in HostDevs}
  /\ last \in Results /\ res \in {-1, 0} /\ calls \in 0..MaxCalls

(* Spec 4.2, socket-address conversion: IPv4 gives 4 bytes, IPv6 16, any  *)
(* other family null.                                                      *)
SpecData == [f \in {AF_INET, AF_INET6} |-> IF f = AF_INET THEN 4 ELSE 16]
SpecSockAddr(a) ==
  [family |-> IF a = NULL THEN 0 ELSE a,
   data   |-> IF a \in DOMAIN SpecData THEN SpecData[a] ELSE NULL]

(* The Java descriptor of native device d, as spec 4.2 describes it.       *)
SpecDevice(d) == [name |-> d.name, flags |-> d.flags,
                  addrs |-> [j \in 1..Len(d.addrs) |->
                               [f \in DOMAIN d.addrs[j] |-> SpecSockAddr(d.addrs[j][f])]]]

(* PcapFindAllDevs hands the caller the host's devices in order, each with *)
(* its addresses in order, every sockaddr converted by family (spec 4.2;   *)
(* the walk of jxnet.c 60-112 with NewSockAddr/NewByteAddr); it returns 0  *)
(* only with every device in the list, and a refused List.add aborts with  *)
(* -1 and a strict prefix.  Flags are left to DevicesMirrorNative.         *)
EnumerationFaithful ==
  last = "PcapFindAllDevs" =>
    /\ Len(jdevs) <= Len(alldevs)
    /\ (res = 0) => Len(jdevs) = Len(alldevs)
    /\ \A i \in 1..Len(jdevs) :
         [jdevs[i] EXCEPT !.flags = 0] = [SpecDevice(alldevs[i]) EXCEPT !.flags = 0]

(* After a successful PcapLookupNet the caller's Inet4Address objects hold *)
(* the network and mask pcap_lookupnet found, in network byte order (spec  *)
(* 4.2): the read-back of netp/maskp, swap_order_uint32 and the write-back *)
(* through Inet4Address.valueOf (jxnet.c 905-916).                         *)
LookupNetInNetworkOrder ==
  (last = "PcapLookupNet" /\ res = 0) => (jnet = ans.net /\ jmask = ans.mask)

(* Every PcapIf carries the flags of its own device (spec 4.2: each Device *)
(* Descriptor mirrors the native one), jxnet.c 106.                        *)
DevicesMirrorNative ==
  last = "PcapFindAllDevs" => \A i \in 1..Len(jdevs) : jdevs[i] = SpecDevice(alldevs[i])

=============================================================================
