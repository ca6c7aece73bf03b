------------------------------ MODULE MCTunnel ------------------------------
(***************************************************************************)
(* Two WAN threads; hosts 1 and 2 behind two LANs of near, 3 behind far.   *)
(* Ports: 1 for the application, 9 for the client.                         *)
(***************************************************************************)
EXTENDS Tunnel, TLC

Everyone == [any |-> TRUE, negate |-> FALSE, hosts |-> {}]
All(hosts) == [any |-> FALSE, negate |-> FALSE, hosts |-> hosts]
But(hosts) == [any |-> FALSE, negate |-> TRUE, hosts |-> hosts]

Pol(id, action, ns, mode, key, proto) ==
  [id |-> id, action |-> action, ns |-> ns, mode |-> mode, key |-> key, proto |-> proto,
   src |-> Everyone, dst |-> Everyone, sports |-> <<>>, dports |-> <<>>]

Looks(l, ns, id, magic) == [layer |-> l, ns |-> ns, id |-> id, magic |-> magic]

Pkt(from, lan, src, dst, sport, dport, proto, big, fin, looks) ==
  [from |-> from, lan |-> lan, src |-> src, dst |-> dst, sport |-> sport, dport |-> dport,
   proto |-> proto, big |-> big, fin |-> fin, shape |-> "whole", looks |-> looks]
Shaped(p, shape) == [p EXCEPT !.shape = shape]

MCPackets ==
  {Pkt("far", 1, 3, 1, 9, 1, "tcp", FALSE, FALSE, NoLook),
   Pkt("far", 1, 3, 2, 9, 1, "udp", FALSE, FALSE, NoLook),
   Pkt("far", 1, 3, 1, 9, 1, "udp", TRUE, FALSE, NoLook),
   Shaped(Pkt("far", 1, 3, 1, 8, 1, "tcp", FALSE, FALSE, Looks(4, 12, 1, "l4tun")), "odd"),
   Shaped(Pkt("far", 1, 3, 1, 7, 1, "udp", FALSE, FALSE, NoLook), "short"),
   Pkt("near", 1, 1, 3, 1, 9, "tcp", FALSE, TRUE, NoLook)}

\* The client's side of the service on port 1, by the address of the server.
Service(cp) == [cp EXCEPT !.src = But({3}), !.dst = All({3}), !.sports = <<1, 1>>]

AnyL4 == Pol(3, 4, 8, "gcm", "k3", "any")
TcpL4 == Service(Pol(1, 4, 12, "gcm", "k1", "tcp"))
\* For the client's port 9 alone: other packets match nothing.
TcpL4Ctr == [TcpL4 EXCEPT !.mode = "ctr", !.key = "k5", !.dports = <<9, 9>>]
UdpL2 == Pol(2, 2, 12, "gcm", "k2", "udp")
UdpL2Ctr == [UdpL2 EXCEPT !.mode = "ctr", !.key = "k6"]
TcpL3 == Pol(4, 3, 8, "ctr", "k4", "tcp")

One(list) == <<[enabled |-> TRUE, locals |-> {1, 2}, policies |-> list]>>
Conf(policies, list) == [policies |-> policies, profiles |-> One(list)]

\* The first policy's nonce size, which the threads start from, is not AnyL4's.
Mixed   == Conf(<<TcpL4, AnyL4, UdpL2>>, <<2, 1, 3>>)
Listed  == Conf(<<TcpL4, AnyL4, UdpL2>>, <<2>>)
Counter == Conf(<<UdpL2Ctr, TcpL4Ctr>>, <<2, 1>>)
Third   == Conf(<<TcpL3, [UdpL2 EXCEPT !.key = "zero"]>>, <<1, 2>>)
Bare    == Conf(<<>>, <<>>)

MCConfigs == {Mixed, Listed, Counter, Third, Bare}
MCStart == {Mixed, Third, Bare}
MCThreads == Permutations(Threads)
MCLanNets == [near |-> <<{1}, {2}>>, far |-> <<{3}>>]
MCLooks == {NoLook, Looks(2, 12, 0, "l2frag"), Looks(4, 8, 3, "l4tun")}

=============================================================================
