---------------------------- MODULE MCMarshaling ----------------------------
(***************************************************************************)
(* Instantiates Marshaling for TLC on a little-endian Linux build.  The    *)
(* host has no device, or a loopback device followed by an Ethernet one    *)
(* whose flags differ, with IPv4, IPv6, AF_PACKET (17) and NULL sockaddrs  *)
(* among their addresses.  pcap_lookupnet finds a /24 or a /8 network: no  *)
(* two of their bytes are equal, so a swap that moves any byte to the      *)
(* wrong place shows.  Three calls reach every pair of entries in order.   *)
(***************************************************************************)
EXTENDS Marshaling

MC_AF_INET == 2
MC_AF_INET6 == 10

NoSock == NULL

Lo == [name |-> "lo", flags |-> 7,
       addrs |-> << [addr |-> 2, netmask |-> 2, broadaddr |-> NoSock, dstaddr |-> NoSock],
                    [addr |-> 10, netmask |-> 10, broadaddr |-> NoSock, dstaddr |-> NoSock] >>]
Eth0 == [name |-> "eth0", flags |-> 6,
         addrs |-> << [addr |-> 17, netmask |-> NoSock, broadaddr |-> NoSock, dstaddr |-> NoSock],
                      [addr |-> 2, netmask |-> 2, broadaddr |-> 2, dstaddr |-> NoSock] >>]

MCHostDevLists == {<<>>, <<Lo, Eth0>>}

MCNetAnswers == {[net |-> <<192, 168, 1, 0>>, mask |-> <<255, 255, 255, 0>>],
                 [net |-> <<10, 0, 0, 0>>, mask |-> <<255, 0, 0, 0>>]}

MCInAddrs == {<<0, 0, 0, 0>>, <<127, 0, 0, 1>>}

MCMaxCalls == 3
=============================================================================
