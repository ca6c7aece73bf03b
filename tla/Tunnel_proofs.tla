----------------------------- MODULE Tunnel_proofs -----------------------------
(***************************************************************************)
(* Proofs about Tunnel, for every set of packets, configurations, WAN      *)
(* threads, LANs and chance looks of cipher text.                          *)
(***************************************************************************)
EXTENDS Tunnel, WellFoundedInduction, TLAPS

-----------------------------------------------------------------------------
(* Policy selection *)

\* A set of table indices that is not empty has a least one, which First returns.
LEMMA FirstLeast ==
  ASSUME NEW S \in SUBSET Nat, S # {}
  PROVE  First(S) \in S /\ \A j \in S : First(S) =< j
<1>1. PICK i \in S : \A j \in S : <<j, i>> \notin OpToRel(<, Nat)
  BY WFMin, NatLessThanWellFounded
<1>2. \A j \in S : ~(j < i)
  BY <1>1, Zenon DEF OpToRel
<1>3. \A j \in S : i =< j
  BY <1>2
<1> QED
  BY <1>3 DEF First

\* First of table indices is 0 only when there are none.
LEMMA FirstZero ==
  ASSUME NEW n \in Nat, NEW S \in SUBSET (1..n)
  PROVE  /\ First(S) = 0 <=> S = {}
         /\ First(S) # 0 => First(S) \in S /\ First(S) \in 1..n
         /\ First(S) \in Nat
<1>1. CASE S = {}
  BY <1>1 DEF First
<1>2. CASE S # {}
  <2>1. S \subseteq Nat
    <3>1. S \subseteq 1..n
      OBVIOUS
    <3>2. 1..n \subseteq Nat
      OBVIOUS
    <3> QED
      BY <3>1, <3>2
  <2>2. First(S) \in S
    BY <1>2, <2>1, FirstLeast
  <2>3. First(S) \in 1..n
    BY <2>2
  <2>4. First(S) \in Nat /\ First(S) # 0
    BY <2>3
  <2> QED
    BY <1>2, <2>2, <2>3, <2>4
<1> QED
  BY <1>1, <1>2

\* Two pairs are the same set.
LEMMA SamePair ==
  ASSUME NEW a, NEW b, NEW c, NEW d, {a, b} = {c, d}
  PROVE  (a = c /\ b = d) \/ (a = d /\ b = c)
<1>1. a \in {c, d} /\ b \in {c, d} /\ c \in {a, b} /\ d \in {a, b}
  OBVIOUS
<1> QED
  BY <1>1

\* Both directions of a packet are asked, so a policy cannot tell them apart.
LEMMA ReverseFields ==
  ASSUME NEW p \in Packets
  PROVE  /\ Reverse(p).src = p.dst /\ Reverse(p).dst = p.src
         /\ Reverse(p).sport = p.dport /\ Reverse(p).dport = p.sport
         /\ Reverse(p).proto = p.proto
<1>1. IsPacket(p)
  BY TunnelAssumption
<1> QED
  BY <1>1 DEF IsPacket, Reverse

\* The packets of a TCP flow match the same policies.
LEMMA FlowMatches ==
  ASSUME NEW p \in Packets, NEW q \in Packets, NEW cp,
         FlowKey(p) = FlowKey(q), p.proto = q.proto, MatchesEitherWay(cp, p)
  PROVE  MatchesEitherWay(cp, q)
<1>1. \/ /\ p.src = q.src /\ p.sport = q.sport /\ p.dst = q.dst /\ p.dport = q.dport
      \/ /\ p.src = q.dst /\ p.sport = q.dport /\ p.dst = q.src /\ p.dport = q.sport
  <2> DEFINE a == <<p.src, p.sport>>
             b == <<p.dst, p.dport>>
             c == <<q.src, q.sport>>
             d == <<q.dst, q.dport>>
  <2>1. (a = c /\ b = d) \/ (a = d /\ b = c)
    <3>1. {a, b} = {c, d}
      BY DEF FlowKey
    <3> HIDE DEF a, b, c, d
    <3> QED
      BY <3>1, SamePair
  <2> QED
    BY <2>1
<1>2. CASE p.src = q.src /\ p.sport = q.sport /\ p.dst = q.dst /\ p.dport = q.dport
  BY <1>2, ReverseFields DEF MatchesEitherWay, crypto_policy_match_packet
<1>3. CASE p.src = q.dst /\ p.sport = q.dport /\ p.dst = q.src /\ p.dport = q.sport
  BY <1>3, ReverseFields DEF MatchesEitherWay, crypto_policy_match_packet
<1> QED
  BY <1>1, <1>2, <1>3

\* The listed policies that match a packet; those that name its protocol, if any.
Matching(c, profile, p) ==
  {x \in 1..Len(c.policies) :
     /\ \E k \in 1..Len(c.profiles[profile].policies) :
          c.profiles[profile].policies[k] = x
     /\ MatchesEitherWay(c.policies[x], p)}
Naming(c, profile, p) == {x \in Matching(c, profile, p) : c.policies[x].proto = p.proto}
Preferred(c, profile, p) ==
  IF Naming(c, profile, p) # {} THEN Naming(c, profile, p) ELSE Matching(c, profile, p)

\* The policy that the two passes select is one the profile lists, matches the
\* packet, and is for any protocol only when none that names it matches.
LEMMA SelectedListed ==
  ASSUME NEW c \in Configs, NEW p \in Packets,
         NEW profile, profile = config_select_profile_for_local(c, p.lan),
         NEW i, i = config_select_crypto_policy(c, profile, p), i # 0
  PROVE  profile # 0 /\ i \in Preferred(c, profile, p)
<1> DEFINE list == c.profiles[profile].policies
           Pass(any) == {k \in 1..Len(list) :
                           /\ (c.policies[list[k]].proto = "any") = any
                           /\ MatchesEitherWay(c.policies[list[k]], p)}
<1>1. profile # 0
  BY DEF config_select_crypto_policy
<1>2. IsConfig(c) /\ IsPacket(p)
  BY TunnelAssumption
<1>3. profile \in 1..Len(c.profiles)
  BY <1>1, <1>2, FirstZero DEF config_select_profile_for_local, IsConfig
<1>4. Len(list) \in Nat /\ \A k \in 1..Len(list) : list[k] \in 1..Len(c.policies)
  BY <1>2, <1>3 DEF IsConfig
<1>5. \A k \in Pass(FALSE) : c.policies[list[k]].proto = p.proto
  BY <1>2, ReverseFields DEF MatchesEitherWay, crypto_policy_match_packet
<1>6. \A x \in Naming(c, profile, p) : \E k \in Pass(FALSE) : list[k] = x
  BY <1>2 DEF IsPacket, Naming, Matching
<1>7. CASE Pass(FALSE) # {}
  <2>1. i = list[First(Pass(FALSE))]
    BY <1>1, <1>7 DEF config_select_crypto_policy
  <2>2. First(Pass(FALSE)) \in Pass(FALSE)
    BY <1>4, <1>7, FirstZero
  <2>3. i \in Naming(c, profile, p)
    BY <1>4, <1>5, <2>1, <2>2 DEF Naming, Matching
  <2> QED
    BY <1>1, <2>3 DEF Preferred
<1>8. CASE Pass(FALSE) = {}
  <2>1. Pass(TRUE) # {} /\ i = list[First(Pass(TRUE))]
    BY <1>1, <1>8 DEF config_select_crypto_policy
  <2>2. First(Pass(TRUE)) \in Pass(TRUE)
    BY <1>4, <2>1, FirstZero
  <2>3. i \in Matching(c, profile, p)
    BY <1>4, <2>1, <2>2 DEF Matching
  <2>4. Naming(c, profile, p) = {}
    BY <1>6, <1>8
  <2> QED
    BY <1>1, <2>3, <2>4 DEF Preferred
<1> QED
  BY <1>7, <1>8

\* What a worker chooses for a packet is one of the policies it may use, and it
\* matches the packet unless it is the flow's pin.
LEMMA ChosenEntitled ==
  ASSUME NEW g \in Gateways, NEW p \in Packets, cfg[g] \in Configs, Chosen(g, p) # 0
  PROVE  /\ Chosen(g, p) \in Entitled(g, p)
         /\ Chosen(g, p) \in 1..Len(cfg[g].policies)
         /\ \/ p.proto = "tcp" /\ Chosen(g, p) = pins[g][FlowKey(p)]
            \/ MatchesEitherWay(cfg[g].policies[Chosen(g, p)], p)
<1> DEFINE c == cfg[g]
           profile == config_select_profile_for_local(c, p.lan)
           i == config_select_crypto_policy(c, profile, p)
<1>1. CASE tcp_policy_pin_lookup(g, p) # 0
  BY <1>1 DEF Chosen, tcp_policy_pin_lookup, Entitled, PinUsable
<1>2. CASE tcp_policy_pin_lookup(g, p) = 0
  <2>1. Chosen(g, p) = i /\ i # 0
    BY <1>2 DEF Chosen, crypto_select_policy_for_local
  <2>2. profile # 0 /\ i \in Preferred(c, profile, p)
    BY <2>1, SelectedListed
  <2>3. i \in Entitled(g, p)
    BY <2>2 DEF Entitled, Preferred, Naming, Matching
  <2>4. i \in 1..Len(c.policies) /\ MatchesEitherWay(c.policies[i], p)
    BY <2>2 DEF Preferred, Naming, Matching
  <2> QED
    BY <2>1, <2>3, <2>4
<1> QED
  BY <1>1, <1>2

-----------------------------------------------------------------------------
(* The inductive invariant *)

\* A frame: the fields that Clear gives one, filled in by some gateway for some packet.
IsFrame(f) ==
  /\ f = [from |-> f.from, eth |-> f.eth, id |-> f.id, proto |-> f.proto, hdr |-> f.hdr,
          looks |-> f.looks, sealed |-> f.sealed, part |-> f.part,
          garbled |-> f.garbled, plain |-> f.plain]
  /\ f.from \in Gateways /\ f.plain \in Packets /\ f.garbled \in BOOLEAN

\* Not wrapped: it may imitate a header only with the packet's own bytes.
InClear(f) ==
  /\ f.sealed = {} /\ f.hdr = NoLook /\ f.eth = "ip" /\ f.id = 0 /\ f.part = 0
  /\ f.proto = f.plain.proto /\ f.looks \in {NoLook, f.plain.looks}

\* The byte that tells what the header belongs to, by layer and half.
MagicOf(f, l) ==
  CASE l = 2 -> IF f.part = 0 THEN "cipher" ELSE "l2frag"
    [] l = 3 -> IF f.part = 0 THEN f.plain.proto ELSE "l3frag"
    [] l = 4 -> IF f.part = 0 THEN "l4tun" ELSE "l4frag"

\* Wrapped by one policy, in the form of that policy's layer.
SealedBy(f, cp) ==
  /\ f.sealed = {cp} /\ cp.action \in {2, 3, 4}
  /\ f.hdr = [layer |-> cp.action, ns |-> cp.ns, id |-> cp.id,
              magic |-> MagicOf(f, cp.action)]
  /\ f.part \in {0, 1, 2} /\ (f.part # 0 => f.looks = NoLook)
  /\ IF cp.action = 2 THEN f.eth = "marked" /\ f.id = cp.id ELSE f.eth = "ip"
  /\ f.proto = IF cp.action = 3 THEN "fake" ELSE f.plain.proto

FrameOK(f) == IsFrame(f) /\ (InClear(f) \/ \E cp \in f.sealed : SealedBy(f, cp))

IsJob(j) ==
  /\ j = [frame |-> j.frame, orig |-> j.orig, ns |-> j.ns, policy |-> j.policy,
          read |-> j.read, lan |-> j.lan]
  /\ \E f : j.frame = <<f>> /\ FrameOK(f)
  /\ \E o : j.orig = <<o>> /\ FrameOK(o) /\ ~o.garbled

Steps == {"idle", "l2", "dec", "l3", "l4", "out", "done"}

TypeInv ==
  /\ cfg \in [Gateways -> Configs]
  /\ crypto \in [Gateways -> BOOLEAN] /\ fake \in [Gateways -> BOOLEAN]
  /\ masks \in BOOLEAN
  /\ pins \in [Gateways -> [Flows -> Nat]]
  /\ \A f \in wire : FrameOK(f) /\ ~f.garbled
  /\ pc \in [Threads -> Steps]
  /\ DOMAIN job = Threads /\ \A t \in Threads : pc[t] # "idle" => IsJob(job[t])

\* A gateway with a layer 2 policy has the ethertype it marks frames with.
FakeInv == \A g \in Gateways : HasL2(cfg[g]) => fake[g]

Garbles == \E i \in 1..Len(Near.policies) : Near.policies[i].mode = "ctr"

\* No policy of near will unwrap f any more: its layer 3 is past.
PastLayer3(f) ==
  f.hdr.layer = 3 /\ f.hdr.magic = L3Tunnel => \A cp \in f.sealed : ~Has(cp)
\* Nor its layer 4, where the index of a half was read for nonce size n.
PastLayer4(f, n) ==
  f.hdr.layer = 4 =>
    /\ Claimants(f, 4, "l4tun") = {}
    /\ (f.part # 0 /\ f.hdr.ns # n) \/ \A cp \in f.sealed : ~Has(cp)

\* What a thread knows at step s of the job j in its hands.
StepAt(s, j) ==
  LET f == j.frame[1]
      o == j.orig[1] IN
  /\ f.garbled => Garbles
  /\ s # "done" => j.lan = 0
  /\ s \in {"l2", "dec", "l3", "l4"} => crypto["near"]
  /\ s = "l2" => f = o /\ j.read = 0
  /\ s = "dec" => f = o /\ f.eth = "marked" /\ j.policy = ById(2, f.id) /\ j.policy # 0
  /\ s = "l4" /\ f.sealed # {} => PastLayer3(f)
  /\ (s = "out" \/ j.lan # 0) /\ f.sealed # {} /\ crypto["near"]
       => PastLayer3(f) /\ PastLayer4(f, j.ns)
  /\ j.lan # 0 => f.eth = "ip" /\ f.plain.dst \in LanNets["near"][j.lan]

\* The premises of Recovered, but for the LAN, and how far the packet has come.
Expected(j) ==
  LET o == j.orig[1] IN
  /\ crypto["near"] /\ o.looks = NoLook /\ o.plain.looks = NoLook /\ o.part = 0
  /\ \A cp \in o.sealed : cp.action # 3 /\ Has(cp)
  /\ o.eth = "marked" => j.read = 2
HasLan(p) ==
  \E k \in 1..Len(LanNets["near"]) : p.dst \in LanNets["near"][k] /\ (masks \/ k = 1)
WayAt(s, j) ==
  LET f == j.frame[1]
      o == j.orig[1]
      whole == f = Clear(o.from, o.plain) IN
  Expected(j) =>
    /\ s \in {"l3", "l4"} => whole \/ (f = o /\ o.eth = "ip")
    /\ s = "out" => whole
    /\ s = "done" /\ HasLan(o.plain) => whole /\ j.lan # 0

JobInv ==
  \A t \in Threads : pc[t] # "idle" => StepAt(pc[t], job[t]) /\ WayAt(pc[t], job[t])

IInv == TypeInv /\ FakeInv /\ PinsAgree /\ JobInv

-----------------------------------------------------------------------------
(* Frames *)

\* A packet in the clear is a frame.
LEMMA ClearFrame ==
  ASSUME NEW g \in Gateways, NEW p \in Packets
  PROVE  /\ FrameOK(Clear(g, p)) /\ InClear(Clear(g, p)) /\ ~Clear(g, p).garbled
         /\ Clear(g, p).from = g /\ Clear(g, p).plain = p
BY DEF FrameOK, IsFrame, InClear, Clear

\* A packet is sealed by the policy asked to, unless its layer leaves it alone.
LEMMA EncryptedFrame ==
  ASSUME NEW g \in Gateways, NEW p \in Packets, NEW cp, NEW look,
         cp.action \in {2, 3, 4}, NEW f, f = Encrypted(g, cp, p, look)
  PROVE  /\ FrameOK(f) /\ ~f.garbled /\ f.from = g /\ f.plain = p
         /\ \/ f.sealed = {cp}
            \/ /\ f.sealed = {}
               /\ \/ cp.action = 2 /\ ~fake[g]
                  \/ cp.action = 3 /\ Shows(Clear(g, p), 3, cp.ns).magic = "l3frag"
                  \/ cp.action = 4 /\ p.shape = "odd"
<1>1. ASSUME f = Clear(g, p) PROVE FrameOK(f) /\ ~f.garbled /\ f.from = g /\ f.plain = p /\ f.sealed = {}
  BY <1>1, ClearFrame DEF InClear
<1>2. CASE cp.action = 2
  <2>1. f = crypto_layer2_encrypt(g, cp, p, look)
    BY <1>2 DEF Encrypted
  <2>2. CASE fake[g]
    <3>1. f = [Sealed(g, cp, p, 0, "cipher", look) EXCEPT !.eth = "marked", !.id = cp.id]
      BY <2>1, <2>2 DEF crypto_layer2_encrypt
    <3>2. f = [from |-> g, eth |-> "marked", id |-> cp.id, proto |-> p.proto,
               hdr |-> [layer |-> cp.action, ns |-> cp.ns, id |-> cp.id, magic |-> "cipher"],
               looks |-> look, sealed |-> {cp}, part |-> 0, garbled |-> FALSE, plain |-> p]
      BY <1>2, <3>1 DEF Sealed, Clear
    <3>3. IsFrame(f) /\ ~f.garbled /\ f.from = g /\ f.plain = p /\ f.sealed = {cp}
      BY <3>2 DEF IsFrame
    <3>4. SealedBy(f, cp)
      BY <1>2, <3>2 DEF SealedBy, MagicOf
    <3> QED
      BY <3>3, <3>4 DEF FrameOK
  <2> QED
    BY <1>1, <1>2, <2>1, <2>2 DEF crypto_layer2_encrypt
<1>3. CASE cp.action = 3
  <2>1. f = crypto_layer3_encrypt(g, cp, p, look)
    BY <1>3 DEF Encrypted
  <2>2. CASE Shows(Clear(g, p), 3, cp.ns).magic # "l3frag"
    <3>1. f = [Sealed(g, cp, p, 0, p.proto, look) EXCEPT !.proto = "fake"]
      BY <2>1, <2>2 DEF crypto_layer3_encrypt
    <3>2. f = [from |-> g, eth |-> "ip", id |-> 0, proto |-> "fake",
               hdr |-> [layer |-> cp.action, ns |-> cp.ns, id |-> cp.id, magic |-> p.proto],
               looks |-> look, sealed |-> {cp}, part |-> 0, garbled |-> FALSE, plain |-> p]
      BY <1>3, <3>1 DEF Sealed, Clear
    <3>3. IsFrame(f) /\ ~f.garbled /\ f.from = g /\ f.plain = p /\ f.sealed = {cp}
      BY <3>2 DEF IsFrame
    <3>4. SealedBy(f, cp)
      BY <1>3, <3>2 DEF SealedBy, MagicOf
    <3> QED
      BY <3>3, <3>4 DEF FrameOK
  <2> QED
    BY <1>1, <1>3, <2>1, <2>2 DEF crypto_layer3_encrypt
<1>4. CASE cp.action = 4
  <2>1. f = crypto_layer4_encrypt(g, cp, p, look)
    BY <1>4 DEF Encrypted
  <2>2. CASE p.shape # "odd"
    <3>1. f = Sealed(g, cp, p, 0, "l4tun", look)
      BY <2>1, <2>2 DEF crypto_layer4_encrypt
    <3>2. f = [from |-> g, eth |-> "ip", id |-> 0, proto |-> p.proto,
               hdr |-> [layer |-> cp.action, ns |-> cp.ns, id |-> cp.id, magic |-> "l4tun"],
               looks |-> look, sealed |-> {cp}, part |-> 0, garbled |-> FALSE, plain |-> p]
      BY <1>4, <3>1 DEF Sealed, Clear
    <3>3. IsFrame(f) /\ ~f.garbled /\ f.from = g /\ f.plain = p /\ f.sealed = {cp}
      BY <3>2 DEF IsFrame
    <3>4. SealedBy(f, cp)
      BY <1>4, <3>2 DEF SealedBy, MagicOf
    <3> QED
      BY <3>3, <3>4 DEF FrameOK
  <2>3. CASE p.shape = "odd"
    <3>1. f = Clear(g, p)
      BY <2>1, <2>3 DEF crypto_layer4_encrypt
    <3> QED
      BY <1>1, <1>4, <2>3, <3>1
  <2> QED
    BY <2>2, <2>3
<1> QED
  BY <1>2, <1>3, <1>4

\* Every half is sealed by the policy asked to.
LEMMA SplitFrame ==
  ASSUME NEW g \in Gateways, NEW p \in Packets, NEW cp, cp.action \in {2, 3, 4},
         NEW f \in SplitEncrypted(g, cp, p)
  PROVE  FrameOK(f) /\ ~f.garbled /\ f.from = g /\ f.plain = p /\ f.sealed = {cp}
<1>1. CASE cp.action = 2
  <2>1. f \in frag_split_and_encrypt_l2(g, cp, p)
    BY <1>1 DEF SplitEncrypted
  <2>2. PICK k \in {1, 2} : f = crypto_layer2_encrypt_fragment_single(g, cp, p, k)
    BY <2>1 DEF frag_split_and_encrypt_l2, Halves
  <2>3. f = [Sealed(g, cp, p, k, "l2frag", NoLook) EXCEPT !.eth = "marked", !.id = cp.id]
    BY <2>2 DEF crypto_layer2_encrypt_fragment_single
  <2>4. f = [from |-> g, eth |-> "marked", id |-> cp.id, proto |-> p.proto,
             hdr |-> [layer |-> cp.action, ns |-> cp.ns, id |-> cp.id, magic |-> "l2frag"],
             looks |-> NoLook, sealed |-> {cp}, part |-> k, garbled |-> FALSE, plain |-> p]
    BY <1>1, <2>3 DEF Sealed, Clear
  <2>5. IsFrame(f) /\ ~f.garbled /\ f.from = g /\ f.plain = p /\ f.sealed = {cp}
    BY <2>4 DEF IsFrame
  <2>6. SealedBy(f, cp)
    BY <1>1, <2>4 DEF SealedBy, MagicOf
  <2> QED
    BY <2>5, <2>6 DEF FrameOK
<1>2. CASE cp.action = 3
  <2>1. PICK k \in {1, 2} : f = [Sealed(g, cp, p, k, "l3frag", NoLook) EXCEPT !.proto = "fake"]
    BY <1>2 DEF SplitEncrypted, frag_split_and_encrypt, Halves,
                    crypto_layer3_encrypt_fragment_single
  <2>2. f = [from |-> g, eth |-> "ip", id |-> 0, proto |-> "fake",
             hdr |-> [layer |-> cp.action, ns |-> cp.ns, id |-> cp.id, magic |-> "l3frag"],
             looks |-> NoLook, sealed |-> {cp}, part |-> k, garbled |-> FALSE, plain |-> p]
    BY <1>2, <2>1 DEF Sealed, Clear
  <2>3. IsFrame(f) /\ ~f.garbled /\ f.from = g /\ f.plain = p /\ f.sealed = {cp}
    BY <2>2 DEF IsFrame
  <2>4. SealedBy(f, cp)
    BY <1>2, <2>2 DEF SealedBy, MagicOf
  <2> QED
    BY <2>3, <2>4 DEF FrameOK
<1>3. CASE cp.action = 4
  <2>1. PICK k \in {1, 2} : f = Sealed(g, cp, p, k, "l4frag", NoLook)
    BY <1>3 DEF SplitEncrypted, frag_split_and_encrypt_l4, Halves,
                    crypto_layer4_encrypt_fragment_single
  <2>2. f = [from |-> g, eth |-> "ip", id |-> 0, proto |-> p.proto,
             hdr |-> [layer |-> cp.action, ns |-> cp.ns, id |-> cp.id, magic |-> "l4frag"],
             looks |-> NoLook, sealed |-> {cp}, part |-> k, garbled |-> FALSE, plain |-> p]
    BY <1>3, <2>1 DEF Sealed, Clear
  <2>3. IsFrame(f) /\ ~f.garbled /\ f.from = g /\ f.plain = p /\ f.sealed = {cp}
    BY <2>2 DEF IsFrame
  <2>4. SealedBy(f, cp)
    BY <1>3, <2>2 DEF SealedBy, MagicOf
  <2> QED
    BY <2>3, <2>4 DEF FrameOK
<1> QED
  BY <1>1, <1>2, <1>3

-----------------------------------------------------------------------------
(* What a worker does *)

\* What the bytes of a clear packet pass for are its own looks.
LEMMA ClearShows ==
  ASSUME NEW g \in Gateways, NEW p \in Packets, NEW n,
         Shows(Clear(g, p), 3, n).magic = "l3frag"
  PROVE  p.looks.ns = n /\ p.looks.magic = "l3frag"
<1>1. Clear(g, p).hdr = NoLook /\ Clear(g, p).looks = p.looks
  BY DEF Clear
<1>2. NoLook.layer = 0 /\ NoLook.magic = "none"
  BY DEF NoLook
<1> QED
  BY <1>1, <1>2 DEF Shows

\* Every frame a worker adds to the wire is sealed by a policy the packet is
\* entitled to, or has one of the excuses for being in the clear.
LEMMA WorkerWire ==
  ASSUME TypeInv, FakeInv, NEW g \in Gateways, NEW p \in Packets, Worker(g, p),
         NEW f \in wire' \ wire
  PROVE  FrameOK(f) /\ ~f.garbled /\ Covered(f)
<1>1. cfg[g] \in Configs /\ IsConfig(cfg[g])
  BY TunnelAssumption DEF TypeInv
<1>2. FrameOK(Clear(g, p)) /\ ~Clear(g, p).garbled /\ Clear(g, p).sealed = {}
      /\ Clear(g, p).from = g /\ Clear(g, p).plain = p
  BY ClearFrame DEF InClear
<1>3. PICK arp \in BOOLEAN :
        \/ SendPlain(g, p, arp) \/ SendUnparsed(g, p, arp)
        \/ DropUnmatched(g, p) \/ Bypass(g, p, arp)
        \/ \E look \in WireLooks : EncryptAndSend(g, p, look, arp)
  BY DEF Worker
<1>4. CASE SendPlain(g, p, arp)
  <2>1. f = Clear(g, p) /\ ~(crypto[g] /\ Enabled(cfg[g]))
    BY <1>4 DEF SendPlain
  <2> QED
    BY <1>2, <2>1 DEF Covered
<1>5. CASE SendUnparsed(g, p, arp)
  <2>1. f = Clear(g, p) /\ p.shape = "short"
    BY <1>5 DEF SendUnparsed
  <2> QED
    BY <1>2, <2>1 DEF Covered
<1>6. CASE DropUnmatched(g, p)
  BY <1>6 DEF DropUnmatched
<1>7. CASE Bypass(g, p, arp)
  <2>1. f = Clear(g, p) /\ Chosen(g, p) # 0 /\ ~Ready(cfg[g], Chosen(g, p))
    BY <1>7 DEF Bypass
  <2>2. Chosen(g, p) \in Entitled(g, p)
    BY <1>1, <2>1, ChosenEntitled
  <2> QED
    BY <1>2, <2>1, <2>2 DEF Covered
<1>8. ASSUME NEW look \in WireLooks, EncryptAndSend(g, p, look, arp)
      PROVE  FrameOK(f) /\ ~f.garbled /\ Covered(f)
  <2> DEFINE i == Chosen(g, p)
             cp == cfg[g].policies[i]
  <2>1. i # 0 /\ Ready(cfg[g], i)
    BY <1>8 DEF EncryptAndSend
  <2>2. i \in Entitled(g, p) /\ i \in 1..Len(cfg[g].policies)
    BY <1>1, <2>1, ChosenEntitled
  <2>3. cp.action \in {2, 3, 4}
    BY <1>1, <2>1, <2>2 DEF IsConfig, Ready
  <2>4. f \in IF p.big THEN SplitEncrypted(g, cp, p) ELSE {Encrypted(g, cp, p, look)}
    BY <1>8 DEF EncryptAndSend
  <2> HIDE DEF cp, i
  <2>5. CASE p.big
    <3>1. FrameOK(f) /\ ~f.garbled /\ f.from = g /\ f.plain = p /\ f.sealed = {cp}
      BY <2>3, <2>4, <2>5, SplitFrame
    <3> QED
      BY <2>2, <3>1 DEF Covered, cp
  <2>6. CASE ~p.big
    <3>1. f = Encrypted(g, cp, p, look)
      BY <2>4, <2>6
    <3>2. /\ FrameOK(f) /\ ~f.garbled /\ f.from = g /\ f.plain = p
          /\ \/ f.sealed = {cp}
             \/ /\ f.sealed = {}
                /\ \/ cp.action = 2 /\ ~fake[g]
                   \/ cp.action = 3 /\ Shows(Clear(g, p), 3, cp.ns).magic = "l3frag"
                   \/ cp.action = 4 /\ p.shape = "odd"
      BY <2>3, <3>1, EncryptedFrame
    <3>3. CASE f.sealed = {cp}
      BY <2>2, <3>2, <3>3 DEF Covered, cp
    <3>4. ~(cp.action = 2 /\ ~fake[g])
      BY <2>1, <2>2 DEF FakeInv, HasL2, cp
    <3>5. CASE f.sealed = {} /\ cp.action = 3 /\ Shows(Clear(g, p), 3, cp.ns).magic = "l3frag"
      <4>1. p.looks.ns = cp.ns /\ p.looks.magic = "l3frag"
        BY <3>5, ClearShows
      <4> QED
        BY <2>2, <3>2, <3>5, <4>1 DEF Covered, cp
    <3>6. CASE f.sealed = {} /\ cp.action = 4 /\ p.shape = "odd"
      BY <2>2, <2>6, <3>2, <3>6 DEF Covered, cp
    <3> QED
      BY <3>2, <3>3, <3>4, <3>5, <3>6
  <2> QED
    BY <2>5, <2>6
<1> QED
  BY <1>3, <1>4, <1>5, <1>6, <1>7, <1>8

\* A pin is left, cleared, or set for a TCP flow to a policy that matches the packet.
PinStep(g, p) ==
  \A h \in Gateways, k \in Flows :
    \/ pins'[h][k] \in {0, pins[h][k]}
    \/ /\ h = g /\ k = FlowKey(p) /\ p.proto = "tcp"
       /\ pins'[h][k] \in 1..Len(cfg[g].policies)
       /\ MatchesEitherWay(cfg[g].policies[pins'[h][k]], p)

\* So it is when a worker refreshes the pin of the policy it chose.
LEMMA PinSet ==
  ASSUME TypeInv, NEW g \in Gateways, NEW p \in Packets, NEW i, NEW encrypted,
         i = Chosen(g, p), tcp_policy_pin_set(g, p, i, encrypted)
  PROVE  pins' \in [Gateways -> [Flows -> Nat]] /\ PinStep(g, p)
<1>1. cfg[g] \in Configs /\ IsConfig(cfg[g]) /\ FlowKey(p) \in Flows
  BY TunnelAssumption DEF TypeInv, Flows
<1>2. pins \in [Gateways -> [Flows -> Nat]]
  BY DEF TypeInv
<1> DEFINE q == PinFor(g, p, i, encrypted)
<1>3. CASE p.proto # "tcp"
  BY <1>2, <1>3 DEF tcp_policy_pin_set, PinStep
<1>4. CASE p.proto = "tcp"
  <2>1. tcp_policy_pin_lookup(g, p) \in {0, pins[g][FlowKey(p)]}
    BY DEF tcp_policy_pin_lookup
  <2>2. \/ q \in {0, pins[g][FlowKey(p)]}
        \/ q = i /\ i # 0
    BY <2>1 DEF PinFor
  <2>3. \/ q \in {0, pins[g][FlowKey(p)]}
        \/ q \in 1..Len(cfg[g].policies) /\ MatchesEitherWay(cfg[g].policies[q], p)
    BY <1>1, <2>2, ChosenEntitled
  <2>4. q \in Nat
    BY <1>1, <1>2, <2>3 DEF IsConfig
  <2>5. pins' = [pins EXCEPT ![g][FlowKey(p)] = q]
    BY <1>4 DEF tcp_policy_pin_set
  <2> HIDE DEF q
  <2>6. pins' \in [Gateways -> [Flows -> Nat]]
    BY <1>1, <1>2, <2>4, <2>5
  <2>7. PinStep(g, p)
    <3> SUFFICES ASSUME NEW h \in Gateways, NEW k \in Flows
                 PROVE  \/ pins'[h][k] \in {0, pins[h][k]}
                        \/ /\ h = g /\ k = FlowKey(p) /\ p.proto = "tcp"
                           /\ pins'[h][k] \in 1..Len(cfg[g].policies)
                           /\ MatchesEitherWay(cfg[g].policies[pins'[h][k]], p)
      BY DEF PinStep
    <3>1. pins'[h][k] = IF h = g /\ k = FlowKey(p) THEN q ELSE pins[h][k]
      BY <1>1, <1>2, <2>5
    <3> QED
      BY <1>4, <2>3, <3>1
  <2> QED
    BY <2>6, <2>7
<1> QED
  BY <1>3, <1>4

\* A worker touches nothing but the wire, the pins, the layer and its own count.
LEMMA WorkerPins ==
  ASSUME TypeInv, NEW g \in Gateways, NEW p \in Packets, Worker(g, p)
  PROVE  /\ pins' \in [Gateways -> [Flows -> Nat]] /\ PinStep(g, p)
         /\ UNCHANGED <<cfg, crypto, fake, masks, pending, pc, job, reloads>>
<1>1. PICK arp \in BOOLEAN :
        \/ SendPlain(g, p, arp) \/ SendUnparsed(g, p, arp)
        \/ DropUnmatched(g, p) \/ Bypass(g, p, arp)
        \/ \E look \in WireLooks : EncryptAndSend(g, p, look, arp)
  BY DEF Worker
<1>2. UNCHANGED <<cfg, crypto, fake, masks, pending, pc, job, reloads>>
  BY <1>1 DEF SendPlain, SendUnparsed, DropUnmatched, Bypass, EncryptAndSend, NearOnly
<1>3. \/ UNCHANGED pins
      \/ \E i, encrypted : i = Chosen(g, p) /\ tcp_policy_pin_set(g, p, i, encrypted)
  <2>1. CASE SendPlain(g, p, arp)
    BY <2>1 DEF SendPlain
  <2>2. CASE SendUnparsed(g, p, arp)
    BY <2>2 DEF SendUnparsed
  <2>3. CASE DropUnmatched(g, p)
    <3>1. 0 = Chosen(g, p) /\ tcp_policy_pin_set(g, p, 0, FALSE)
      BY <2>3 DEF DropUnmatched
    <3> QED
      BY <3>1
  <2>4. CASE Bypass(g, p, arp)
    <3>1. tcp_policy_pin_set(g, p, Chosen(g, p), FALSE)
      BY <2>4 DEF Bypass
    <3> QED
      BY <3>1
  <2>5. ASSUME NEW look \in WireLooks, EncryptAndSend(g, p, look, arp)
        PROVE  \E encrypted : tcp_policy_pin_set(g, p, Chosen(g, p), encrypted)
    BY <2>5, Zenon DEF EncryptAndSend
  <2> QED
    BY <1>1, <2>1, <2>2, <2>3, <2>4, <2>5
<1>4. CASE UNCHANGED pins
  BY <1>2, <1>4 DEF TypeInv, PinStep
<1> QED
  BY <1>2, <1>3, <1>4, PinSet

\* Such a step of the pins keeps PinsAgree while the configurations stay.
LEMMA PinStepAgrees ==
  ASSUME TypeInv, PinsAgree, NEW g \in Gateways, NEW p \in Packets, PinStep(g, p),
         UNCHANGED <<cfg, crypto>>
  PROVE  PinsAgree'
<1> SUFFICES ASSUME NEW h \in Gateways, NEW r \in Packets,
                    Enabled(cfg[h]), crypto[h], r.proto = "tcp", pins'[h][FlowKey(r)] # 0,
                    \A q \in Packets : FlowKey(q) = FlowKey(r) => q.looks = NoLook
             PROVE  /\ pins'[h][FlowKey(r)] \in 1..Len(cfg[h].policies)
                    /\ MatchesEitherWay(cfg[h].policies[pins'[h][FlowKey(r)]], r)
  BY DEF PinsAgree
<1>1. FlowKey(r) \in Flows
  BY DEF Flows
<1>2. CASE pins'[h][FlowKey(r)] = pins[h][FlowKey(r)]
  BY <1>2 DEF PinsAgree
<1>3. CASE /\ h = g /\ FlowKey(r) = FlowKey(p) /\ p.proto = "tcp"
           /\ pins'[h][FlowKey(r)] \in 1..Len(cfg[g].policies)
           /\ MatchesEitherWay(cfg[g].policies[pins'[h][FlowKey(r)]], p)
  BY <1>3, FlowMatches
<1> QED
  BY <1>1, <1>2, <1>3 DEF PinStep

-----------------------------------------------------------------------------
(* What the jobs depend on *)

\* Nothing in them depends on more of the configuration than near's policies.
LEMMA SameTable ==
  ASSUME cfg'["near"].policies = cfg["near"].policies
  PROVE  /\ Garbles' <=> Garbles
         /\ \A cp : Has(cp)' <=> Has(cp)
         /\ \A id : ById(2, id)' = ById(2, id)
         /\ \A f : PastLayer3(f)' <=> PastLayer3(f)
         /\ \A f, n : PastLayer4(f, n)' <=> PastLayer4(f, n)
<1>1. \A i : Ready(Near, i)' <=> Ready(Near, i)
  BY DEF Ready, Near
<1>2. \A a : PoliciesOf(a)' = PoliciesOf(a)
  BY DEF PoliciesOf, Near
<1>3. Garbles' <=> Garbles
  BY DEF Garbles, Near
<1>4. \A cp : Has(cp)' <=> Has(cp)
  BY <1>1 DEF Has, Near
<1>5. ASSUME NEW id PROVE ById(2, id)' = ById(2, id)
  <2>1. {i \in PoliciesOf(2) : Near.policies[i].id = id /\ Ready(Near, i)}'
          = {i \in PoliciesOf(2) : Near.policies[i].id = id /\ Ready(Near, i)}
    BY <1>1, <1>2 DEF Near
  <2> QED
    BY <2>1 DEF ById
<1>6. ASSUME NEW f PROVE Claimants(f, 4, "l4tun")' = Claimants(f, 4, "l4tun")
  BY <1>2 DEF Claimants, Near, Shows
<1> QED
  BY <1>3, <1>4, <1>5, <1>6 DEF PastLayer3, PastLayer4

LEMMA JobKept ==
  ASSUME NEW s, NEW j, StepAt(s, j), WayAt(s, j),
         cfg'["near"].policies = cfg["near"].policies, crypto'["near"] = crypto["near"],
         masks' => masks
  PROVE  StepAt(s, j)' /\ WayAt(s, j)'
<1>1. StepAt(s, j)'
  BY SameTable DEF StepAt
<1>2. Expected(j)' => Expected(j)
  BY SameTable DEF Expected
<1>3. ASSUME NEW p PROVE HasLan(p)' => HasLan(p)
  BY DEF HasLan
<1>4. WayAt(s, j)'
  BY <1>2, <1>3 DEF WayAt
<1> QED
  BY <1>1, <1>4

\* A thread's step is settled by what it leaves in its own hands.
LEMMA GoesKeeps ==
  ASSUME TypeInv, JobInv, NEW t \in Threads, NEW next \in Steps, NEW j, Goes(t, next, j),
         next # "idle" => IsJob(j) /\ StepAt(next, j) /\ WayAt(next, j),
         UNCHANGED <<cfg, crypto, masks>>
  PROVE  /\ pc' \in [Threads -> Steps]
         /\ DOMAIN job' = Threads /\ \A u \in Threads : pc'[u] # "idle" => IsJob(job'[u])
         /\ JobInv'
<1>1. /\ pc' = [pc EXCEPT ![t] = next] /\ job' = [job EXCEPT ![t] = j]
      /\ pc \in [Threads -> Steps] /\ DOMAIN job = Threads
  BY DEF Goes, TypeInv
<1>2. pc' \in [Threads -> Steps] /\ DOMAIN job' = Threads
  BY <1>1
<1>3. \A u \in Threads : IF u = t THEN pc'[u] = next /\ job'[u] = j
                         ELSE pc'[u] = pc[u] /\ job'[u] = job[u]
  <2>1. job'[t] = j /\ \A u \in Threads : u # t => job'[u] = job[u]
    BY <1>1, Zenon
  <2> QED
    BY <1>1, <2>1
<1>4. ASSUME NEW u \in Threads, pc'[u] # "idle"
      PROVE  IsJob(job'[u]) /\ StepAt(pc'[u], job'[u]) /\ WayAt(pc'[u], job'[u])
  BY <1>3, <1>4 DEF TypeInv, JobInv
<1>5. ASSUME NEW u \in Threads, pc'[u] # "idle"
      PROVE  StepAt(pc[u], job[u])' /\ WayAt(pc[u], job[u])'
  <2> DEFINE s == pc'[u]
             k == job'[u]
  <2>1. StepAt(s, k) /\ WayAt(s, k)
    BY <1>4, <1>5
  <2>2. \A x, y : StepAt(x, y) /\ WayAt(x, y) => StepAt(x, y)' /\ WayAt(x, y)'
    BY JobKept
  <2> QED
    BY <2>1, <2>2
<1> QED
  BY <1>2, <1>4, <1>5 DEF JobInv

-----------------------------------------------------------------------------
(* Recognising and opening a frame *)

\* The tables of near, and what is looked up in them.
LEMMA NearTable ==
  ASSUME TypeInv
  PROVE  /\ IsConfig(Near) /\ Len(Near.policies) \in Nat
         /\ \A a : PoliciesOf(a) \subseteq 1..Len(Near.policies)
         /\ \A f, a, m : Claimants(f, a, m) \subseteq 1..Len(Near.policies)
<1>1. IsConfig(Near)
  BY TunnelAssumption DEF TypeInv, Near, Gateways
<1> QED
  BY <1>1 DEF IsConfig, PoliciesOf, Claimants

\* First finds a claimant when there is one.
LEMMA FirstClaimant ==
  ASSUME TypeInv, NEW f, NEW a, NEW m, NEW i, i = First(Claimants(f, a, m))
  PROVE  /\ i = 0 <=> Claimants(f, a, m) = {}
         /\ i # 0 => i \in Claimants(f, a, m) /\ i \in 1..Len(Near.policies)
<1> DEFINE S == Claimants(f, a, m)
           n == Len(Near.policies)
<1>1. S \in SUBSET (1..n) /\ n \in Nat
  BY NearTable
<1> HIDE DEF S, n
<1>2. First(S) = 0 <=> S = {}
  BY <1>1, FirstZero
<1>3. First(S) # 0 => First(S) \in S /\ First(S) \in 1..n
  BY <1>1, FirstZero
<1> QED
  BY <1>2, <1>3 DEF S, n

\* Ids tell near's policies apart, so an id finds the policy it was written by.
LEMMA SamePolicy ==
  ASSUME TypeInv, NEW i \in 1..Len(Near.policies), NEW cp, Has(cp), Near.policies[i].id = cp.id
  PROVE  Near.policies[i] = cp /\ Ready(Near, i)
BY NearTable DEF IsConfig, Has

LEMMA ByIdFinds ==
  ASSUME TypeInv, NEW id, NEW i, i = ById(2, id)
  PROVE  /\ i # 0 => /\ i \in 1..Len(Near.policies) /\ Near.policies[i].action = 2
                     /\ Near.policies[i].id = id /\ Ready(Near, i)
         /\ \A cp : Has(cp) /\ cp.action = 2 /\ cp.id = id => i # 0
<1> DEFINE S == {k \in PoliciesOf(2) : Near.policies[k].id = id /\ Ready(Near, k)}
           n == Len(Near.policies)
<1>1. S \in SUBSET (1..n) /\ n \in Nat
  BY NearTable
<1>2. First(S) = 0 <=> S = {}
  <2> HIDE DEF S, n
  <2> QED
    BY <1>1, FirstZero
<1>3. First(S) # 0 => First(S) \in S /\ First(S) \in 1..n
  <2> HIDE DEF S, n
  <2> QED
    BY <1>1, FirstZero
<1>4. i = First(S)
  BY DEF ById
<1>5. ASSUME NEW cp, Has(cp), cp.action = 2, cp.id = id PROVE S # {}
  BY <1>5 DEF Has, PoliciesOf
<1> QED
  BY <1>2, <1>3, <1>4, <1>5 DEF PoliciesOf

\* What opening leaves: the packet, or what counter mode makes of the wrong key.
Unwrapped(r, f) == r = <<Opened(f)>> \/ (r = <<Garbled(f)>> /\ Garbles)

LEMMA Attempted ==
  ASSUME TypeInv, NEW f, NEW i \in 1..Len(Near.policies), NEW ctr,
         ctr \subseteq {Failed, <<Garbled(f)>>},
         NEW r \in Attempt(Near.policies[i], f, ctr), r # Failed
  PROVE  Unwrapped(r, f)
<1>1. CASE Opens(Near.policies[i], f)
  BY <1>1 DEF Attempt, Unwrapped
<1>2. CASE ~Opens(Near.policies[i], f)
  <2>1. Near.policies[i].mode # "gcm" /\ r \in ctr
    BY <1>2 DEF Attempt
  <2>2. Near.policies[i].mode = "ctr"
    BY <2>1, NearTable DEF IsConfig
  <2> QED
    BY <2>1, <2>2 DEF Garbles, Unwrapped
<1> QED
  BY <1>1, <1>2

\* It is a frame in the clear again.
LEMMA UnwrappedFrame ==
  ASSUME NEW f, FrameOK(f), f.garbled => Garbles, NEW r, Unwrapped(r, f)
  PROVE  \E g : /\ r = <<g>> /\ FrameOK(g) /\ g.sealed = {} /\ g.eth = "ip"
                /\ (g.garbled => Garbles) /\ g.plain = f.plain
<1>1. f.from \in Gateways /\ f.plain \in Packets /\ f.garbled \in BOOLEAN
  BY DEF FrameOK, IsFrame
<1> DEFINE c == Clear(f.from, f.plain)
<1>2. c = [from |-> f.from, eth |-> "ip", id |-> 0, proto |-> f.plain.proto, hdr |-> NoLook,
           looks |-> f.plain.looks, sealed |-> {}, part |-> 0, garbled |-> FALSE,
           plain |-> f.plain]
  BY DEF Clear
<1> HIDE DEF c
<1>3. CASE r = <<Opened(f)>>
  <2> DEFINE g == [c EXCEPT !.garbled = f.garbled]
  <2>1. FrameOK(g) /\ g.sealed = {} /\ g.eth = "ip" /\ g.garbled = f.garbled /\ g.plain = f.plain
    BY <1>1, <1>2 DEF FrameOK, IsFrame, InClear
  <2>2. r = <<g>>
    BY <1>3 DEF Opened, c
  <2> QED
    BY <2>1, <2>2
<1>4. CASE r = <<Garbled(f)>> /\ Garbles
  <2>1. PICK g : g = Garbled(f)
    OBVIOUS
  <2>2. g = [from |-> f.from, eth |-> "ip", id |-> 0, proto |-> f.plain.proto,
             hdr |-> NoLook, looks |-> NoLook, sealed |-> {}, part |-> 0,
             garbled |-> TRUE, plain |-> f.plain]
    BY <2>1 DEF Garbled, Clear
  <2>3. IsFrame(g)
    BY <1>1, <2>2 DEF IsFrame
  <2>4. InClear(g)
    BY <1>1, <2>2 DEF InClear
  <2>5. FrameOK(g) /\ g.sealed = {} /\ g.eth = "ip" /\ g.plain = f.plain
    BY <2>2, <2>3, <2>4 DEF FrameOK
  <2> QED
    BY <1>4, <2>5, <2>1
<1> QED
  BY <1>3, <1>4 DEF Unwrapped

\* An undamaged frame opens to the packet that was sent.
LEMMA OpenedWhole ==
  ASSUME NEW f, FrameOK(f), ~f.garbled
  PROVE  Opened(f) = Clear(f.from, f.plain)
<1>1. f.garbled = FALSE
  BY DEF FrameOK, IsFrame
<1>2. PICK g : g = Opened(f)
  OBVIOUS
<1>3. g = Clear(f.from, f.plain)
  BY <1>1, <1>2 DEF Opened, Clear
<1> QED
  BY <1>2, <1>3

-----------------------------------------------------------------------------
(* The steps of a WAN thread *)

\* The thread's step leaves it with a job it knows what it should of.
Settled(t) ==
  \E next \in Steps : \E j :
    /\ Goes(t, next, j)
    /\ next # "idle" => IsJob(j) /\ StepAt(next, j) /\ WayAt(next, j)

\* What is in a thread's hands.
LEMMA Held ==
  ASSUME TypeInv, JobInv, NEW t \in Threads, pc[t] # "idle"
  PROVE  /\ IsJob(job[t]) /\ StepAt(pc[t], job[t]) /\ WayAt(pc[t], job[t])
         /\ job[t].frame = <<Frame(t)>> /\ FrameOK(Frame(t))
         /\ FrameOK(job[t].orig[1]) /\ ~job[t].orig[1].garbled
<1>1. IsJob(job[t]) /\ StepAt(pc[t], job[t]) /\ WayAt(pc[t], job[t])
  BY DEF TypeInv, JobInv
<1>2. PICK f : job[t].frame = <<f>> /\ FrameOK(f)
  BY <1>1 DEF IsJob
<1>3. PICK o : job[t].orig = <<o>> /\ FrameOK(o) /\ ~o.garbled
  BY <1>1 DEF IsJob
<1>4. Frame(t) = f /\ job[t].orig[1] = o
  BY <1>2, <1>3 DEF Frame
<1> QED
  BY <1>1, <1>2, <1>3, <1>4

\* A job with another frame, parameters or outcome is a job.
LEMMA JobWith ==
  ASSUME NEW j, IsJob(j), NEW g, FrameOK(g), NEW n, NEW q, NEW r, NEW l, NEW k,
         k = [frame |-> <<g>>, orig |-> j.orig, ns |-> n, policy |-> q, read |-> r, lan |-> l]
  PROVE  /\ IsJob(k) /\ k.frame[1] = g /\ k.orig = j.orig
         /\ k.ns = n /\ k.policy = q /\ k.read = r /\ k.lan = l
<1>1. /\ k.frame = <<g>> /\ k.frame[1] = g /\ k.orig = j.orig
      /\ k.ns = n /\ k.policy = q /\ k.read = r /\ k.lan = l
  OBVIOUS
<1>2. \E o : k.orig = <<o>> /\ FrameOK(o) /\ ~o.garbled
  BY <1>1 DEF IsJob
<1>3. \E f : k.frame = <<f>> /\ FrameOK(f)
  BY <1>1
<1>4. k = [frame |-> k.frame, orig |-> k.orig, ns |-> k.ns, policy |-> k.policy,
           read |-> k.read, lan |-> k.lan]
  OBVIOUS
<1> QED
  BY <1>1, <1>2, <1>3, <1>4 DEF IsJob

\* A frame may be lost by a thread from which Recovered expects nothing.
LEMMA LostSettled ==
  ASSUME TypeInv, JobInv, NEW t \in Threads, pc[t] \in Steps \ {"idle", "done"},
         Loses(t), ~Expected(job[t])
  PROVE  Settled(t)
<1>1. IsJob(job[t]) /\ StepAt(pc[t], job[t])
  BY Held
<1>2. StepAt("done", job[t])
  BY <1>1 DEF StepAt
<1>3. WayAt("done", job[t])
  BY DEF WayAt
<1> QED
  BY <1>1, <1>2, <1>3 DEF Settled, Loses, Steps

LEMMA ReceiveSettled ==
  ASSUME TypeInv, NEW t \in Threads, NEW f \in wire, Receive(t, f)
  PROVE  Settled(t)
<1> DEFINE next == IF crypto["near"] THEN "l2" ELSE "out"
<1>1. PICK n : Goes(t, next, [NoJob EXCEPT !.frame = <<f>>, !.orig = <<f>>, !.ns = n])
  BY Zenon DEF Receive
<1>2. PICK j : j = [NoJob EXCEPT !.frame = <<f>>, !.orig = <<f>>, !.ns = n]
  OBVIOUS
<1>3. j = [frame |-> <<f>>, orig |-> <<f>>, ns |-> n, policy |-> 0, read |-> 0, lan |-> 0]
  BY <1>2 DEF NoJob
<1>4. FrameOK(f) /\ ~f.garbled
  BY DEF TypeInv
<1>5. j.frame[1] = f /\ j.orig[1] = f /\ j.read = 0 /\ j.lan = 0
  BY <1>3
<1>6. IsJob(j)
  BY <1>3, <1>4 DEF IsJob
<1>7. StepAt(next, j) /\ WayAt(next, j)
  BY <1>4, <1>5 DEF StepAt, WayAt, Expected
<1> QED
  BY <1>1, <1>2, <1>6, <1>7 DEF Settled, Steps

LEMMA UnmarkedSettled ==
  ASSUME TypeInv, JobInv, NEW t \in Threads, Unmarked(t)
  PROVE  Settled(t)
<1>1. pc[t] = "l2" /\ Goes(t, "l3", job[t])
  BY DEF Unmarked
<1>2. /\ IsJob(job[t]) /\ StepAt("l2", job[t])
      /\ FrameOK(Frame(t)) /\ FrameOK(job[t].orig[1])
  BY <1>1, Held
<1>3. StepAt("l3", job[t])
  BY <1>2 DEF StepAt
<1>4. job[t].frame[1] = job[t].orig[1] /\ job[t].read = 0
  BY <1>2 DEF StepAt
<1>5. WayAt("l3", job[t])
  <2>1. job[t].orig[1].eth \in {"ip", "marked"}
    BY <1>2 DEF FrameOK, InClear, SealedBy
  <2> QED
    BY <1>4, <2>1 DEF WayAt, Expected
<1> QED
  BY <1>1, <1>2, <1>3, <1>5 DEF Settled, Steps

\* Recovered expects nothing of a marked frame that no thread has read.
LEMMA MarkedUnread ==
  ASSUME TypeInv, JobInv, NEW t \in Threads, Marked(t)
  PROVE  ~Expected(job[t]) /\ Frame(t) = job[t].orig[1] /\ job[t].read = 0 /\ crypto["near"]
<1>1. pc[t] = "l2" /\ Frame(t).eth = "marked"
  BY DEF Marked
<1>2. StepAt("l2", job[t])
  BY <1>1, Held
<1> QED
  BY <1>1, <1>2 DEF StepAt, Expected, Frame

LEMMA NoLayer2PolicySettled ==
  ASSUME TypeInv, JobInv, NEW t \in Threads, NoLayer2Policy(t)
  PROVE  Settled(t)
BY MarkedUnread, LostSettled DEF NoLayer2Policy, Marked, Steps

LEMMA ApplyLayer2Settled ==
  ASSUME TypeInv, JobInv, NEW t \in Threads, ApplyLayer2(t)
  PROVE  Settled(t)
<1> DEFINE i == ById(2, Frame(t).id)
<1>1. Marked(t) /\ i # 0
  BY DEF ApplyLayer2
<1>2. Goes(t, "dec", [job[t] EXCEPT !.policy = i, !.ns = Near.policies[i].ns])
  BY DEF ApplyLayer2
<1>3. PICK j : j = [job[t] EXCEPT !.policy = i, !.ns = Near.policies[i].ns]
  OBVIOUS
<1>4. /\ IsJob(job[t]) /\ StepAt("l2", job[t]) /\ job[t].frame = <<Frame(t)>>
      /\ FrameOK(Frame(t))
  BY <1>1, Held DEF Marked
<1>5. j = [frame |-> <<Frame(t)>>, orig |-> job[t].orig, ns |-> Near.policies[i].ns,
           policy |-> i, read |-> job[t].read, lan |-> job[t].lan]
  BY <1>3, <1>4 DEF IsJob
<1> HIDE DEF i
<1>6. /\ IsJob(j) /\ j.frame[1] = Frame(t) /\ j.orig = job[t].orig /\ j.policy = i
      /\ j.lan = job[t].lan
  BY <1>4, <1>5, JobWith
<1>7. StepAt("dec", j)
  BY <1>1, <1>4, <1>6, MarkedUnread DEF StepAt, Marked, Frame, i
<1>8. WayAt("dec", j)
  BY DEF WayAt
<1> QED
  BY <1>2, <1>3, <1>6, <1>7, <1>8 DEF Settled, Steps, i

\* A frame whose packet is expected has bytes that say what wrapped it, and near
\* has the policy that did.
LEMMA ExpectedFrame ==
  ASSUME NEW j, NEW o, o = j.orig[1], FrameOK(o), ~o.garbled, Expected(j)
  PROVE  \/ o = Clear(o.from, o.plain)
         \/ /\ \E cp \in o.sealed : SealedBy(o, cp) /\ Has(cp) /\ cp.action \in {2, 4}
            /\ o.looks = NoLook /\ o.part = 0
<1>1. CASE InClear(o)
  <2>1. o = [from |-> o.from, eth |-> "ip", id |-> 0, proto |-> o.plain.proto,
             hdr |-> NoLook, looks |-> o.plain.looks, sealed |-> {}, part |-> 0,
             garbled |-> FALSE, plain |-> o.plain]
    BY <1>1 DEF FrameOK, IsFrame, InClear, Expected
  <2> QED
    BY <2>1 DEF Clear
<1>2. ASSUME NEW cp \in o.sealed, SealedBy(o, cp)
      PROVE  /\ SealedBy(o, cp) /\ Has(cp) /\ cp.action \in {2, 4}
             /\ o.looks = NoLook /\ o.part = 0
  BY <1>2 DEF Expected, SealedBy
<1> QED
  BY <1>1, <1>2 DEF FrameOK

\* What decryption at layer 2 leaves of a marked frame.
LEMMA Layer2Results ==
  ASSUME TypeInv, NEW f, FrameOK(f), NEW i \in 1..Len(Near.policies),
         NEW r \in crypto_layer2_decrypt(Near.policies[i], f), r # Failed
  PROVE  r = <<f>> \/ Unwrapped(r, f)
<1>1. {Failed} \subseteq {Failed, <<Garbled(f)>>}
  OBVIOUS
<1> QED
  BY <1>1, Attempted DEF crypto_layer2_decrypt

\* The policy a frame was sealed with at layer 2 opens it.
LEMMA Layer2Opens ==
  ASSUME NEW f, NEW cp \in f.sealed, SealedBy(f, cp), cp.action = 2,
         f.looks = NoLook, f.part = 0
  PROVE  crypto_layer2_decrypt(cp, f) = {<<Opened(f)>>}
<1>1. Opens(cp, f)
  BY DEF Opens, SameCipher
<1>2. f.hdr.magic = "cipher" /\ NoLook.magic = "none" /\ NoLook.layer = 0
  BY DEF SealedBy, MagicOf, NoLook
<1>3. Shows(f, 2, cp.ns).magic # "l2frag"
  BY <1>2 DEF Shows
<1> QED
  BY <1>1, <1>3 DEF crypto_layer2_decrypt, Attempt

LEMMA DecryptSettled ==
  ASSUME TypeInv, JobInv, NEW t \in Threads, packet_decrypt(t)
  PROVE  Settled(t)
<1> DEFINE f == Frame(t)
           o == job[t].orig[1]
           i == job[t].policy
<1>1. pc[t] = "dec"
  BY DEF packet_decrypt
<1>2. /\ IsJob(job[t]) /\ StepAt("dec", job[t]) /\ job[t].frame = <<f>>
      /\ FrameOK(f) /\ ~o.garbled
  BY <1>1, Held
<1>3. /\ f = o /\ f.eth = "marked" /\ i = ById(2, f.id) /\ i # 0 /\ job[t].lan = 0
      /\ crypto["near"] /\ (f.garbled => Garbles)
  BY <1>2 DEF StepAt, Frame
<1>4. /\ i \in 1..Len(Near.policies) /\ Near.policies[i].action = 2
      /\ Near.policies[i].id = f.id
  BY <1>3, ByIdFinds
<1>5. PICK r \in IF layer = 2 THEN crypto_layer2_decrypt(Near.policies[i], f) ELSE {<<f>>} :
        IF r = Failed THEN Goes(t, "done", [job[t] EXCEPT !.read = layer])
        ELSE Goes(t, "l3", [job[t] EXCEPT !.read = layer, !.frame = r])
  BY DEF packet_decrypt
<1> HIDE DEF f, o, i
\* A frame that is expected was decrypted at layer 2 by the policy that sealed it.
<1>6. ASSUME NEW j, j.orig = job[t].orig, j.read = layer, Expected(j)
      PROVE  r = <<Clear(o.from, o.plain)>>
  <2>1. layer = 2
    BY <1>3, <1>6 DEF Expected, o
  <2>2. o # Clear(o.from, o.plain)
    <3>1. Clear(o.from, o.plain).eth = "ip"
      BY DEF Clear
    <3> QED
      BY <1>3, <3>1
  <2>3. /\ \E cp \in o.sealed : SealedBy(o, cp) /\ Has(cp) /\ cp.action \in {2, 4}
        /\ o.looks = NoLook /\ o.part = 0
    BY <1>2, <1>3, <1>6, <2>2, ExpectedFrame DEF o
  <2>4. PICK cp \in o.sealed : SealedBy(o, cp) /\ Has(cp) /\ cp.action = 2 /\ cp.id = o.id
    BY <1>3, <2>3 DEF SealedBy
  <2>5. Near.policies[i] = cp
    BY <1>3, <1>4, <2>4, SamePolicy
  <2>6. r = <<Opened(f)>>
    BY <1>3, <1>5, <2>1, <2>3, <2>4, <2>5, Layer2Opens
  <2> QED
    BY <1>2, <1>3, <2>6, OpenedWhole
<1>7. CASE r = Failed
  <2>1. PICK j : j = [job[t] EXCEPT !.read = layer]
    OBVIOUS
  <2>2. j = [frame |-> <<f>>, orig |-> job[t].orig, ns |-> job[t].ns,
             policy |-> i, read |-> layer, lan |-> job[t].lan]
    BY <1>2, <2>1 DEF IsJob, i
  <2>3. /\ IsJob(j) /\ j.frame[1] = f /\ j.orig = job[t].orig /\ j.read = layer
        /\ j.lan = job[t].lan
    BY <1>2, <2>2, JobWith
  <2>4. StepAt("done", j)
    BY <1>3, <2>3 DEF StepAt
  <2>5. WayAt("done", j)
    BY <1>6, <1>7, <2>3 DEF WayAt, Failed
  <2> QED
    BY <1>5, <1>7, <2>1, <2>3, <2>4, <2>5 DEF Settled, Steps
<1>8. CASE r # Failed
  <2>1. r = <<f>> \/ Unwrapped(r, f)
    BY <1>2, <1>4, <1>5, <1>8, Layer2Results
  <2>2. PICK g : r = <<g>> /\ FrameOK(g) /\ (g.garbled => Garbles)
    BY <1>2, <1>3, <2>1, UnwrappedFrame
  <2>3. PICK j : j = [job[t] EXCEPT !.read = layer, !.frame = r]
    OBVIOUS
  <2>4. j = [frame |-> <<g>>, orig |-> job[t].orig, ns |-> job[t].ns,
             policy |-> i, read |-> layer, lan |-> job[t].lan]
    BY <1>2, <2>2, <2>3 DEF IsJob, i
  <2>5. /\ IsJob(j) /\ j.frame[1] = g /\ j.orig = job[t].orig /\ j.read = layer
        /\ j.lan = job[t].lan
    BY <1>2, <2>2, <2>4, JobWith
  <2>6. StepAt("l3", j)
    BY <1>3, <2>2, <2>5 DEF StepAt
  <2>7. WayAt("l3", j)
    <3>1. Expected(j) => g = Clear(o.from, o.plain)
      BY <1>6, <2>2, <2>5
    <3> QED
      BY <2>5, <3>1 DEF WayAt, o
  <2> QED
    BY <1>5, <1>8, <2>3, <2>5, <2>6, <2>7 DEF Settled, Steps
<1> QED
  BY <1>7, <1>8

\* What is joined from two halves, garbled or not, is a packet in the clear.
LEMMA JoinedFrame ==
  ASSUME TypeInv, NEW f, FrameOK(f), f.garbled => Garbles,
         NEW i \in 1..Len(Near.policies),
         NEW r \in crypto_layer2_decrypt_fragment(Near.policies[i], f), r # Failed
  PROVE  FrameOK(Opened(r[1])) /\ (Opened(r[1]).garbled => Garbles)
<1>1. f.from \in Gateways /\ f.plain \in Packets /\ f.garbled \in BOOLEAN
  BY DEF FrameOK, IsFrame
<1>2. ASSUME NEW x, x.from = f.from, x.plain = f.plain, x.garbled \in BOOLEAN,
             x.garbled => Garbles
      PROVE  FrameOK(Opened(x)) /\ (Opened(x).garbled => Garbles)
  <2>1. PICK g : g = Opened(x)
    OBVIOUS
  <2>2. g = [from |-> f.from, eth |-> "ip", id |-> 0, proto |-> f.plain.proto,
             hdr |-> NoLook, looks |-> f.plain.looks, sealed |-> {}, part |-> 0,
             garbled |-> x.garbled, plain |-> f.plain]
    BY <1>2, <2>1 DEF Opened, Clear
  <2>3. IsFrame(g)
    BY <1>1, <1>2, <2>2 DEF IsFrame
  <2>4. InClear(g)
    BY <2>2 DEF InClear
  <2> QED
    BY <1>2, <2>1, <2>2, <2>3, <2>4 DEF FrameOK
<1>3. r \in Attempt(Near.policies[i], f, {<<[f EXCEPT !.garbled = TRUE]>>})
  BY DEF crypto_layer2_decrypt_fragment
<1>4. CASE r = <<Opened(f)>>
  <2>1. PICK x : x = Opened(f)
    OBVIOUS
  <2>2. x.from = f.from /\ x.plain = f.plain /\ x.garbled = f.garbled
    BY <2>1 DEF Opened, Clear
  <2> QED
    BY <1>1, <1>2, <1>4, <2>1, <2>2
<1>5. CASE r = <<[f EXCEPT !.garbled = TRUE]>> /\ Near.policies[i].mode # "gcm"
  <2>1. Garbles
    BY <1>5, NearTable DEF IsConfig, Garbles
  <2>2. PICK x : x = [f EXCEPT !.garbled = TRUE]
    OBVIOUS
  <2>3. x.from = f.from /\ x.plain = f.plain /\ x.garbled \in BOOLEAN
    BY <2>2 DEF FrameOK, IsFrame
  <2> QED
    BY <1>2, <1>5, <2>1, <2>2, <2>3
<1> QED
  BY <1>3, <1>4, <1>5 DEF Attempt

LEMMA Layer2HalfSettled ==
  ASSUME TypeInv, JobInv, NEW t \in Threads, Layer2Half(t)
  PROVE  Settled(t)
<1> DEFINE f == Frame(t)
           i == ById(2, f.id)
<1>1. Marked(t) /\ i # 0
  BY DEF Layer2Half
<1>2. /\ IsJob(job[t]) /\ StepAt("l2", job[t]) /\ job[t].frame = <<f>> /\ FrameOK(f)
  BY <1>1, Held DEF Marked
<1>3. ~Expected(job[t]) /\ f = job[t].orig[1] /\ job[t].read = 0 /\ crypto["near"]
  BY <1>1, MarkedUnread
<1>4. i \in 1..Len(Near.policies)
  BY <1>1, ByIdFinds
<1>5. PICK r \in crypto_layer2_decrypt_fragment(Near.policies[i], f) :
        \/ Loses(t)
        \/ /\ r # Failed
           /\ Goes(t, "l3", [job[t] EXCEPT !.frame = <<Opened(r[1])>>,
                                           !.ns = Near.policies[i].ns])
  BY DEF Layer2Half
<1>6. CASE Loses(t)
  BY <1>1, <1>3, <1>6, LostSettled DEF Marked, Steps
<1>7. CASE /\ r # Failed
           /\ Goes(t, "l3", [job[t] EXCEPT !.frame = <<Opened(r[1])>>,
                                           !.ns = Near.policies[i].ns])
  <2> HIDE DEF f, i
  <2>1. PICK g : g = Opened(r[1])
    OBVIOUS
  <2>2. f.garbled => Garbles
    BY <1>2 DEF StepAt, Frame, f
  <2>3. FrameOK(g) /\ (g.garbled => Garbles)
    BY <1>2, <1>4, <1>7, <2>1, <2>2, JoinedFrame
  <2>4. PICK j : j = [job[t] EXCEPT !.frame = <<g>>, !.ns = Near.policies[i].ns]
    OBVIOUS
  <2>5. j = [frame |-> <<g>>, orig |-> job[t].orig, ns |-> Near.policies[i].ns,
             policy |-> job[t].policy, read |-> job[t].read, lan |-> job[t].lan]
    BY <1>2, <2>4 DEF IsJob
  <2>6. /\ IsJob(j) /\ j.frame[1] = g /\ j.orig = job[t].orig /\ j.read = job[t].read
        /\ j.lan = job[t].lan
    BY <1>2, <2>3, <2>5, JobWith
  <2>7. StepAt("l3", j)
    BY <1>2, <1>3, <2>3, <2>6 DEF StepAt
  <2>8. WayAt("l3", j)
    BY <1>3, <2>6 DEF WayAt, Expected
  <2> QED
    BY <1>7, <2>1, <2>4, <2>6, <2>7, <2>8 DEF Settled, Steps
<1> QED
  BY <1>5, <1>6, <1>7

\* Bytes that imitate nothing show a header only where one was written.
LEMMA ShowsWritten ==
  ASSUME NEW f, f.looks = NoLook, NEW a, NEW n, Shows(f, a, n).magic # "none"
  PROVE  Shows(f, a, n) = f.hdr /\ f.hdr.layer = a /\ f.hdr.ns = n
BY DEF Shows, NoLook

\* A policy that near has claims what it sealed.
LEMMA Claimed ==
  ASSUME TypeInv, NEW f, NEW cp, SealedBy(f, cp), Has(cp), f.hdr.magic # "cipher"
  PROVE  Claimants(f, cp.action, f.hdr.magic) # {}
<1>1. PICK i \in 1..Len(Near.policies) : Near.policies[i] = cp
  BY DEF Has
<1>2. Shows(f, cp.action, cp.ns) = f.hdr /\ f.hdr.id = cp.id
  BY DEF Shows, SealedBy
<1>3. i \in Claimants(f, cp.action, f.hdr.magic)
  BY <1>1, <1>2 DEF Claimants, PoliciesOf
<1> QED
  BY <1>3

\* The three ways through a layer: lost, left alone, unwrapped.
LEMMA StripCases ==
  ASSUME NEW t, NEW l, NEW half, NEW i, NEW results, NEW next,
         StripLayer(t, l, half, i, results, next)
  PROVE  \/ /\ Loses(t)
            /\ TRUE \in half \/ (i # 0 /\ ~Ready(Near, i)) \/ (i # 0 /\ Failed \in results)
         \/ FALSE \in half /\ i = 0 /\ Goes(t, next, job[t])
         \/ /\ FALSE \in half /\ i # 0 /\ Ready(Near, i)
            /\ \E r \in results :
                 r # Failed /\ Goes(t, next, [job[t] EXCEPT !.frame = r,
                                                            !.ns = Near.policies[i].ns])
<1>1. CASE (TRUE \in half \/ (cryptoOn /\ i # 0 /\ ~Ready(Near, i))) /\ Loses(t)
  BY <1>1
<1>2. CASE FALSE \in half /\ i = 0 /\ Goes(t, next, job[t])
  BY <1>2
<1>3. ASSUME FALSE \in half, i # 0, Ready(Near, i), NEW r \in results,
             IF r = Failed THEN Loses(t)
             ELSE Goes(t, next, [job[t] EXCEPT !.frame = r, !.ns = Near.policies[i].ns])
      PROVE  \/ Loses(t) /\ Failed \in results
             \/ r # Failed /\ Goes(t, next, [job[t] EXCEPT !.frame = r,
                                                           !.ns = Near.policies[i].ns])
  BY <1>3
<1> QED
  BY <1>1, <1>2, <1>3 DEF StripLayer

\* A thread that unwrapped a frame has a packet in the clear.
LEMMA UnwrappedSettled ==
  ASSUME TypeInv, JobInv, NEW t \in Threads, pc[t] \in {"l3", "l4"},
         NEW next \in {"l4", "out"}, NEW n, NEW r, Unwrapped(r, Frame(t)),
         Goes(t, next, [job[t] EXCEPT !.frame = r, !.ns = n]),
         Expected(job[t]) =>
           r = <<Clear(job[t].orig[1].from, job[t].orig[1].plain)>>
  PROVE  Settled(t)
<1>1. /\ IsJob(job[t]) /\ StepAt(pc[t], job[t]) /\ job[t].frame = <<Frame(t)>>
      /\ FrameOK(Frame(t))
  BY Held
<1>2. (Frame(t).garbled => Garbles) /\ job[t].lan = 0 /\ crypto["near"]
  BY <1>1 DEF StepAt, Frame
<1>3. PICK g : r = <<g>> /\ FrameOK(g) /\ g.sealed = {} /\ (g.garbled => Garbles)
  BY <1>1, <1>2, UnwrappedFrame
<1>4. PICK j : j = [job[t] EXCEPT !.frame = r, !.ns = n]
  OBVIOUS
<1>5. j = [frame |-> <<g>>, orig |-> job[t].orig, ns |-> n,
           policy |-> job[t].policy, read |-> job[t].read, lan |-> job[t].lan]
  BY <1>1, <1>3, <1>4 DEF IsJob
<1>6. /\ IsJob(j) /\ j.frame[1] = g /\ j.orig = job[t].orig /\ j.read = job[t].read
      /\ j.lan = job[t].lan
  BY <1>1, <1>3, <1>5, JobWith
<1>7. StepAt(next, j)
  BY <1>2, <1>3, <1>6 DEF StepAt
<1>8. WayAt(next, j)
  <2>1. Expected(j) => Expected(job[t])
    BY <1>6 DEF Expected
  <2>2. Expected(job[t]) => g = Clear(job[t].orig[1].from, job[t].orig[1].plain)
    BY <1>3
  <2> QED
    BY <1>6, <2>1, <2>2 DEF WayAt
<1> QED
  BY <1>4, <1>6, <1>7, <1>8 DEF Settled, Steps

LEMMA Layer3Settled ==
  ASSUME TypeInv, JobInv, NEW t \in Threads, Layer3(t)
  PROVE  Settled(t)
<1> DEFINE f == Frame(t)
           o == job[t].orig[1]
           i == crypto_l3_extract_policy_id(f)
           half == frag_is_fragment(f, job[t].ns)
           results == crypto_layer3_decrypt(Near.policies[i], f)
<1>1. pc[t] = "l3" /\ StripLayer(t, 3, half, i, results, "l4")
  <2>1. StripLayer(t, 3, half, i, results, "l4")
    BY Zenon DEF Layer3
  <2>2. pc[t] = IF 3 = 3 THEN "l3" ELSE "l4"
    BY <2>1, Zenon DEF StripLayer
  <2> QED
    BY <2>1, <2>2
<1>2. /\ IsJob(job[t]) /\ StepAt("l3", job[t]) /\ WayAt("l3", job[t])
      /\ FrameOK(f) /\ FrameOK(o) /\ ~o.garbled
  BY <1>1, Held
<1>3. Expected(job[t]) => f.proto # "fake"
  <2> SUFFICES ASSUME Expected(job[t]) PROVE f.proto # "fake"
    OBVIOUS
  <2>1. f.plain \in Packets /\ o.plain \in Packets
    BY <1>2 DEF FrameOK, IsFrame
  <2>2. f.plain.proto # "fake" /\ o.plain.proto # "fake"
    BY <2>1, TunnelAssumption DEF IsPacket
  <2>3. f = Clear(o.from, o.plain) \/ f = o
    BY <1>2 DEF WayAt, Frame
  <2>4. CASE f = Clear(o.from, o.plain)
    BY <2>2, <2>4 DEF Clear
  <2>5. CASE f = o /\ o # Clear(o.from, o.plain)
    <3>1. \E cp \in o.sealed : SealedBy(o, cp) /\ cp.action \in {2, 4}
      BY <1>2, <2>5, ExpectedFrame
    <3> QED
      BY <2>2, <2>5, <3>1 DEF SealedBy
  <2> QED
    BY <2>3, <2>4, <2>5
<1>4. Expected(job[t]) => i = 0 /\ half = {FALSE}
  BY <1>3 DEF crypto_l3_extract_policy_id, frag_is_fragment, Index
<1>5. i # 0 => i \in Claimants(f, 3, L3Tunnel) /\ i \in 1..Len(Near.policies)
  BY FirstClaimant DEF crypto_l3_extract_policy_id
<1>6. \/ Loses(t) /\ (TRUE \in half \/ i # 0)
      \/ i = 0 /\ Goes(t, "l4", job[t])
      \/ /\ i # 0
         /\ \E r \in results :
              r # Failed /\ Goes(t, "l4", [job[t] EXCEPT !.frame = r,
                                                         !.ns = Near.policies[i].ns])
  BY <1>1, StripCases
<1> HIDE DEF half, results
<1>7. CASE Loses(t) /\ (TRUE \in half \/ i # 0)
  BY <1>1, <1>4, <1>7, LostSettled DEF Steps
<1>8. CASE i = 0 /\ Goes(t, "l4", job[t])
  <2>1. f.sealed # {} => PastLayer3(f)
    <3> SUFFICES ASSUME f.sealed # {}, f.hdr.layer = 3, f.hdr.magic = L3Tunnel,
                        NEW cp \in f.sealed, Has(cp)
                 PROVE  FALSE
      BY DEF PastLayer3
    <3>1. SealedBy(f, cp)
      BY <1>2 DEF FrameOK, InClear, SealedBy
    <3>2. cp.action = 3 /\ IsIp(f) /\ f.proto = "fake"
      BY <3>1 DEF SealedBy, IsIp
    <3>3. Claimants(f, 3, L3Tunnel) # {}
      BY <3>1, <3>2, Claimed, TunnelAssumption
    <3>4. Claimants(f, 3, L3Tunnel) = {}
      BY <1>8, <3>2, FirstClaimant DEF crypto_l3_extract_policy_id
    <3> QED
      BY <3>3, <3>4
  <2>2. StepAt("l4", job[t])
    BY <1>2, <2>1 DEF StepAt, Frame
  <2>3. WayAt("l4", job[t])
    BY <1>2 DEF WayAt
  <2> QED
    BY <1>2, <1>8, <2>2, <2>3 DEF Settled, Steps
<1>9. ASSUME i # 0, NEW r \in results, r # Failed,
             Goes(t, "l4", [job[t] EXCEPT !.frame = r, !.ns = Near.policies[i].ns])
      PROVE  Settled(t)
  <2>1. Shows(f, 3, Near.policies[i].ns).magic # "l3frag"
    BY <1>5, <1>9, TunnelAssumption DEF Claimants
  <2>2. r \in Attempt(Near.policies[i], f, {Failed, <<Garbled(f)>>})
    BY <1>9, <2>1 DEF results, crypto_layer3_decrypt
  <2>3. Unwrapped(r, f)
    BY <1>5, <1>9, <2>2, Attempted
  <2> QED
    BY <1>1, <1>4, <1>9, <2>3, UnwrappedSettled
<1> QED
  BY <1>6, <1>7, <1>8, <1>9

\* What reaches layer 4 of an expected packet is the packet itself, or what one
\* layer 4 policy of near wrapped.
LEMMA ExpectedAtLayer4 ==
  ASSUME TypeInv, JobInv, NEW t \in Threads, pc[t] = "l4", Expected(job[t]),
         NEW o, o = job[t].orig[1], NEW f, f = Frame(t)
  PROVE  \/ f = Clear(o.from, o.plain) /\ f.hdr = NoLook /\ f.looks = NoLook
         \/ /\ f = o /\ f.hdr.layer = 4 /\ f.hdr.magic = "l4tun" /\ f.looks = NoLook
            /\ IsTransport(f)
            /\ \E cp \in f.sealed : SealedBy(f, cp) /\ Has(cp) /\ cp.action = 4
<1>1. /\ WayAt("l4", job[t]) /\ FrameOK(f) /\ FrameOK(o) /\ ~o.garbled
  BY Held
<1>2. o.plain.looks = NoLook
  BY DEF Expected
<1>3. f = Clear(o.from, o.plain) \/ (f = o /\ o.eth = "ip")
  BY <1>1 DEF WayAt, Frame
<1>4. CASE f = Clear(o.from, o.plain)
  BY <1>2, <1>4 DEF Clear
<1>5. CASE f = o /\ o.eth = "ip" /\ o # Clear(o.from, o.plain)
  <2>1. /\ \E cp \in o.sealed : SealedBy(o, cp) /\ Has(cp) /\ cp.action \in {2, 4}
        /\ o.looks = NoLook /\ o.part = 0
    BY <1>1, <1>5, ExpectedFrame
  <2>2. PICK cp \in o.sealed : SealedBy(o, cp) /\ Has(cp) /\ cp.action = 4
    BY <1>5, <2>1 DEF SealedBy
  <2>3. o.plain \in Packets
    BY <1>1 DEF FrameOK, IsFrame
  <2>4. IsTransport(o)
    BY <1>5, <2>2, <2>3, TunnelAssumption DEF IsTransport, IsIp, SealedBy, IsPacket
  <2>5. o.hdr.layer = 4 /\ o.hdr.magic = "l4tun"
    BY <2>1, <2>2 DEF SealedBy, MagicOf
  <2> QED
    BY <1>5, <2>1, <2>2, <2>4, <2>5
<1> QED
  BY <1>3, <1>4, <1>5

\* A frame that layer 4 leaves alone is one no policy of near claims, unless it is
\* half a packet whose index was read at another nonce size.
LEMMA LeftAtLayer4 ==
  ASSUME TypeInv, NEW f, FrameOK(f), f.sealed # {}, NEW n,
         crypto_l4_extract_policy_id_ipv4(f) = 0, FALSE \in frag_is_fragment_l4(f, n)
  PROVE  PastLayer4(f, n)
<1> SUFFICES ASSUME f.hdr.layer = 4
             PROVE  /\ Claimants(f, 4, "l4tun") = {}
                    /\ (f.part # 0 /\ f.hdr.ns # n) \/ \A cp \in f.sealed : ~Has(cp)
  BY DEF PastLayer4
<1>1. PICK cp \in f.sealed : SealedBy(f, cp) /\ f.sealed = {cp} /\ cp.action = 4
  BY DEF FrameOK, InClear, SealedBy
<1>2. f.plain \in Packets
  BY DEF FrameOK, IsFrame
<1>3. IsTransport(f)
  BY <1>1, <1>2, TunnelAssumption DEF IsTransport, IsIp, SealedBy, IsPacket
<1>4. Claimants(f, 4, "l4tun") = {}
  BY <1>3, FirstClaimant DEF crypto_l4_extract_policy_id_ipv4
<1>5. ASSUME Has(cp) PROVE f.part # 0 /\ f.hdr.ns # n
  <2>1. f.part # 0
    <3> SUFFICES ASSUME f.part = 0 PROVE FALSE
      OBVIOUS
    <3>1. f.hdr.magic = "l4tun"
      BY <1>1 DEF SealedBy, MagicOf
    <3> QED
      BY <1>1, <1>4, <1>5, <3>1, Claimed
  <2>2. f.hdr.magic = "l4frag" /\ f.looks = NoLook
    BY <1>1, <2>1 DEF SealedBy, MagicOf
  <2> DEFINE k == First(Claimants(f, 4, "l4frag"))
  <2>3. Claimants(f, 4, "l4frag") # {}
    BY <1>1, <1>5, <2>2, Claimed
  <2>4. k # 0 /\ k \in Claimants(f, 4, "l4frag")
    BY <2>3, FirstClaimant
  <2>5. Near.policies[k].ns # n
    BY <1>3, <2>4 DEF frag_is_fragment_l4, Index
  <2>6. f.hdr.ns = Near.policies[k].ns
    <3>1. Shows(f, 4, Near.policies[k].ns).magic = "l4frag"
      BY <2>4 DEF Claimants
    <3> QED
      BY <2>2, <3>1, ShowsWritten
  <2> QED
    BY <2>1, <2>5, <2>6
<1> QED
  BY <1>1, <1>4, <1>5

LEMMA Layer4Settled ==
  ASSUME TypeInv, JobInv, NEW t \in Threads, Layer4(t)
  PROVE  Settled(t)
<1> DEFINE f == Frame(t)
           o == job[t].orig[1]
           i == crypto_l4_extract_policy_id_ipv4(f)
           half == frag_is_fragment_l4(f, job[t].ns)
           results == crypto_layer4_decrypt(Near.policies[i], f)
           whole == Clear(o.from, o.plain)
<1>1. pc[t] = "l4" /\ StripLayer(t, 4, half, i, results, "out")
  <2>1. StripLayer(t, 4, half, i, results, "out")
    BY Zenon DEF Layer4
  <2>2. pc[t] = IF 4 = 3 THEN "l3" ELSE "l4"
    BY <2>1, Zenon DEF StripLayer
  <2> QED
    BY <2>1, <2>2
<1>2. /\ IsJob(job[t]) /\ StepAt("l4", job[t]) /\ WayAt("l4", job[t])
      /\ FrameOK(f) /\ FrameOK(o) /\ ~o.garbled
  BY <1>1, Held
<1>3. i # 0 => i \in Claimants(f, 4, "l4tun") /\ i \in 1..Len(Near.policies)
  BY FirstClaimant DEF crypto_l4_extract_policy_id_ipv4
\* An expected packet is no half, and is opened by the policy that sealed it.
<1>4. Expected(job[t]) =>
        /\ half = {FALSE}
        /\ i = 0 => f = whole
        /\ i # 0 => Ready(Near, i) /\ results = {<<whole>>}
  <2> SUFFICES ASSUME Expected(job[t])
               PROVE  /\ half = {FALSE}
                      /\ i = 0 => f = whole
                      /\ i # 0 => Ready(Near, i) /\ results = {<<whole>>}
    OBVIOUS
  <2>1. \/ f = whole /\ f.hdr = NoLook /\ f.looks = NoLook
        \/ /\ f = o /\ f.hdr.layer = 4 /\ f.hdr.magic = "l4tun" /\ f.looks = NoLook
           /\ IsTransport(f)
           /\ \E cp \in f.sealed : SealedBy(f, cp) /\ Has(cp) /\ cp.action = 4
    BY <1>1, ExpectedAtLayer4
  <2>2. f.hdr.magic # "l4frag" /\ f.looks = NoLook
    BY <2>1 DEF NoLook
  <2>3. Claimants(f, 4, "l4frag") = {}
    BY <2>2, ShowsWritten DEF Claimants
  <2>4. half = {FALSE}
    BY <2>3 DEF frag_is_fragment_l4, Index, First
  <2>5. CASE f = whole /\ f.hdr = NoLook
    <3>1. Claimants(f, 4, "l4tun") = {}
      BY SMTT(30), <2>2, <2>5, ShowsWritten DEF Claimants, NoLook
    <3>2. i = 0
      BY <3>1 DEF crypto_l4_extract_policy_id_ipv4, First
    <3> QED
      BY <2>4, <2>5, <3>2
  <2>6. CASE f = o /\ f.hdr.layer = 4 /\ f.hdr.magic = "l4tun" /\ IsTransport(f)
             /\ \E cp \in f.sealed : SealedBy(f, cp) /\ Has(cp) /\ cp.action = 4
    <3>1. PICK cp \in f.sealed : SealedBy(f, cp) /\ Has(cp) /\ cp.action = 4
      BY <2>6
    <3>2. Claimants(f, 4, "l4tun") # {}
      BY <2>6, <3>1, Claimed
    <3>3. i # 0
      BY <2>6, <3>2, FirstClaimant DEF crypto_l4_extract_policy_id_ipv4
    <3>4. f.hdr.id = Near.policies[i].id
      BY <1>3, <2>2, <3>3, ShowsWritten DEF Claimants
    <3>5. Near.policies[i] = cp /\ Ready(Near, i)
      BY <1>3, <3>1, <3>3, <3>4, SamePolicy DEF SealedBy
    <3>6. Opens(Near.policies[i], f)
      BY <3>1, <3>5 DEF Opens, SameCipher
    <3>7. results = {<<Opened(f)>>}
      BY <2>6, <3>6 DEF crypto_layer4_decrypt, Attempt
    <3>8. Opened(f) = whole
      BY <1>2, <2>6, OpenedWhole
    <3> QED
      BY <2>4, <3>3, <3>5, <3>7, <3>8
  <2> QED
    BY <2>1, <2>5, <2>6
<1>5. \/ /\ Loses(t)
         /\ TRUE \in half \/ (i # 0 /\ ~Ready(Near, i)) \/ (i # 0 /\ Failed \in results)
      \/ FALSE \in half /\ i = 0 /\ Goes(t, "out", job[t])
      \/ /\ FALSE \in half /\ i # 0 /\ Ready(Near, i)
         /\ \E r \in results :
              r # Failed /\ Goes(t, "out", [job[t] EXCEPT !.frame = r,
                                                          !.ns = Near.policies[i].ns])
  BY <1>1, StripCases
<1> HIDE DEF half, results, whole
<1>6. CASE /\ Loses(t)
           /\ TRUE \in half \/ (i # 0 /\ ~Ready(Near, i)) \/ (i # 0 /\ Failed \in results)
  <2>1. Failed # <<whole>>
    BY DEF Failed
  <2>2. ~Expected(job[t])
    BY <1>4, <1>6, <2>1
  <2> QED
    BY <1>1, <1>6, <2>2, LostSettled DEF Steps
<1>7. CASE FALSE \in half /\ i = 0 /\ Goes(t, "out", job[t])
  <2>1. f.sealed # {} => PastLayer3(f) /\ PastLayer4(f, job[t].ns)
    BY <1>2, <1>7, LeftAtLayer4 DEF StepAt, Frame, half
  <2>2. StepAt("out", job[t])
    BY <1>2, <2>1 DEF StepAt, Frame
  <2>3. WayAt("out", job[t])
    BY <1>4, <1>7 DEF WayAt, Frame, whole
  <2> QED
    BY <1>2, <1>7, <2>2, <2>3 DEF Settled, Steps
<1>8. ASSUME i # 0, NEW r \in results, r # Failed,
             Goes(t, "out", [job[t] EXCEPT !.frame = r, !.ns = Near.policies[i].ns])
      PROVE  Settled(t)
  <2>1. r \in Attempt(Near.policies[i], f, {<<Garbled(f)>>})
    BY <1>8 DEF results, crypto_layer4_decrypt
  <2>2. Unwrapped(r, f)
    BY <1>3, <1>8, <2>1, Attempted
  <2>3. Expected(job[t]) => r = <<whole>>
    BY <1>4, <1>8
  <2> QED
    BY <1>1, <1>8, <2>2, <2>3, UnwrappedSettled DEF whole
<1> QED
  BY <1>5, <1>6, <1>7, <1>8

\* The LAN that is found for a host has it, when the host is in one that may be found.
LEMMA LanFound ==
  ASSUME NEW p, HasLan(p), NEW lan, lan = config_find_local_for_ip(p.dst)
  PROVE  lan # 0 /\ p.dst \in LanNets["near"][lan]
<1> DEFINE n == Len(LanNets["near"])
           S == {k \in 1..n : p.dst \in LanNets["near"][k]}
<1>1. n \in Nat
  BY TunnelAssumption
<1>2. PICK k \in S : masks \/ k = 1
  BY DEF HasLan
<1>3. CASE masks
  <2>1. S \in SUBSET (1..n)
    OBVIOUS
  <2>2. First(S) # 0 /\ First(S) \in S
    <3>1. S # {}
      BY <1>2
    <3> HIDE DEF S, n
    <3> QED
      BY <1>1, <2>1, <3>1, FirstZero
  <2>3. lan = First(S)
    BY <1>3 DEF config_find_local_for_ip
  <2> QED
    BY <2>2, <2>3
<1>4. CASE ~masks
  BY <1>2, <1>4 DEF config_find_local_for_ip
<1> QED
  BY <1>3, <1>4

LEMMA DeliverSettled ==
  ASSUME TypeInv, JobInv, NEW t \in Threads, Deliver(t)
  PROVE  Settled(t)
<1> DEFINE f == Frame(t)
           o == job[t].orig[1]
           lan == config_find_local_for_ip(f.plain.dst)
           l == IF IsIp(f) /\ lan # 0 /\ f.plain.dst \in LanNets["near"][lan] THEN lan ELSE 0
<1>1. pc[t] = "out" /\ Goes(t, "done", [job[t] EXCEPT !.lan = l])
  BY DEF Deliver
<1>2. /\ IsJob(job[t]) /\ StepAt("out", job[t]) /\ WayAt("out", job[t])
      /\ job[t].frame = <<f>> /\ FrameOK(f) /\ FrameOK(o)
  BY <1>1, Held
<1>3. l # 0 => f.eth = "ip" /\ f.plain.dst \in LanNets["near"][l]
  BY DEF IsIp
<1>4. ASSUME f = Clear(o.from, o.plain), HasLan(o.plain) PROVE l # 0
  <2>1. f.eth = "ip" /\ f.plain = o.plain
    BY <1>4 DEF Clear
  <2>2. lan # 0 /\ f.plain.dst \in LanNets["near"][lan]
    BY <1>4, <2>1, LanFound
  <2> QED
    BY <2>1, <2>2 DEF IsIp
<1> HIDE DEF l
<1>5. PICK j : j = [job[t] EXCEPT !.lan = l]
  OBVIOUS
<1>6. j = [frame |-> <<f>>, orig |-> job[t].orig, ns |-> job[t].ns,
           policy |-> job[t].policy, read |-> job[t].read, lan |-> l]
  BY <1>2, <1>5 DEF IsJob
<1>7. /\ IsJob(j) /\ j.frame[1] = f /\ j.orig = job[t].orig /\ j.read = job[t].read
      /\ j.ns = job[t].ns /\ j.lan = l
  BY <1>2, <1>6, JobWith
<1>8. StepAt("done", j)
  BY <1>2, <1>3, <1>7 DEF StepAt, Frame
<1>9. WayAt("done", j)
  <2>1. Expected(j) => Expected(job[t])
    BY <1>7 DEF Expected
  <2>2. Expected(job[t]) => f = Clear(o.from, o.plain)
    BY <1>2 DEF WayAt, Frame
  <2> QED
    BY <1>4, <1>7, <2>1, <2>2 DEF WayAt
<1> QED
  BY <1>1, <1>5, <1>7, <1>8, <1>9 DEF Settled, Steps

LEMMA WanThreadSettled ==
  ASSUME TypeInv, JobInv, NEW t \in Threads, WanThread(t)
  PROVE  Settled(t)
<1>1. CASE Release(t)
  BY <1>1 DEF Release, Settled, Steps
<1> QED
  BY <1>1, ReceiveSettled, UnmarkedSettled, NoLayer2PolicySettled, ApplyLayer2Settled,
     DecryptSettled, Layer2HalfSettled, Layer3Settled, Layer4Settled, DeliverSettled
     DEF WanThread

\* Only bytes of the packet itself can make a delivery set a pin: a frame that
\* near's layer 4 has passed shows no header of a policy it has.
LEMMA InboundClaims ==
  ASSUME TypeInv, JobInv, NEW t \in Threads, pc[t] = "out", crypto["near"],
         Frame(t).plain.looks = NoLook
  PROVE  crypto_l4_extract_policy_id_ipv4(Frame(t)) = 0
<1> DEFINE f == Frame(t)
<1>1. StepAt("out", job[t]) /\ FrameOK(f)
  BY Held
<1>2. CASE InClear(f)
  <2>1. f.hdr = NoLook /\ f.looks = NoLook
    BY <1>2 DEF InClear
  <2>2. Claimants(f, 4, "l4tun") = {}
    BY <2>1, ShowsWritten DEF Claimants, NoLook
  <2> QED
    BY <2>2 DEF crypto_l4_extract_policy_id_ipv4, First
<1>3. ASSUME NEW cp \in f.sealed, SealedBy(f, cp), IsTransport(f)
      PROVE  crypto_l4_extract_policy_id_ipv4(f) = 0
  <2>1. f.hdr.layer = 4
    BY <1>3 DEF IsTransport, IsIp, SealedBy
  <2>2. Claimants(f, 4, "l4tun") = {}
    BY <1>1, <1>3, <2>1 DEF StepAt, PastLayer4, Frame
  <2> QED
    BY <2>2 DEF crypto_l4_extract_policy_id_ipv4, First
<1>4. CASE ~IsTransport(f)
  BY <1>4 DEF crypto_l4_extract_policy_id_ipv4
<1> QED
  BY <1>1, <1>2, <1>3, <1>4 DEF FrameOK

\* The pins at a step of a WAN thread.
LEMMA WanThreadPins ==
  ASSUME TypeInv, PinsAgree, JobInv, NEW t \in Threads, WanThread(t)
  PROVE  pins' \in [Gateways -> [Flows -> Nat]] /\ PinsAgree'
<1>1. UNCHANGED <<cfg, crypto>>
  BY DEF WanThread, Receive, Unmarked, NoLayer2Policy, ApplyLayer2, packet_decrypt,
         Layer2Half, Layer3, Layer4, StripLayer, Deliver, Release, Stay
<1>2. CASE UNCHANGED pins
  BY <1>1, <1>2 DEF TypeInv, PinsAgree
<1>3. CASE Deliver(t)
  <2> DEFINE f == Frame(t)
             i == crypto_l4_extract_policy_id_ipv4(f)
  <2>1. pc[t] = "out" /\ pins' = InboundPin(t)
    BY <1>3 DEF Deliver
  <2>2. \/ UNCHANGED pins
        \/ /\ crypto["near"] /\ i # 0 /\ f.plain.proto = "tcp"
           /\ pins' = [pins EXCEPT !["near"][FlowKey(f.plain)] = i]
    BY <2>1 DEF InboundPin
  <2>3. CASE /\ crypto["near"] /\ i # 0 /\ f.plain.proto = "tcp"
             /\ pins' = [pins EXCEPT !["near"][FlowKey(f.plain)] = i]
    <3>1. FrameOK(f)
      BY <2>1, Held
    <3>2. f.plain \in Packets /\ FlowKey(f.plain) \in Flows
      BY <3>1 DEF FrameOK, IsFrame, Flows
    <3>3. i \in 1..Len(Near.policies) /\ Len(Near.policies) \in Nat
      BY <2>3, FirstClaimant, NearTable DEF crypto_l4_extract_policy_id_ipv4
    <3>4. f.plain.looks # NoLook
      BY <2>1, <2>3, InboundClaims
    <3> HIDE DEF i, f
    <3>5. pins' \in [Gateways -> [Flows -> Nat]]
      <4>1. i \in Nat /\ "near" \in Gateways
        BY <3>3 DEF Gateways
      <4>2. pins \in [Gateways -> [Flows -> Nat]]
        BY DEF TypeInv
      <4> QED
        BY <2>3, <3>2, <4>1, <4>2
    <3>6. \A g \in Gateways, k \in Flows :
            k # FlowKey(f.plain) => pins'[g][k] = pins[g][k]
      BY <2>3, <3>2 DEF TypeInv
    <3>7. PinsAgree'
      <4> SUFFICES ASSUME NEW g \in Gateways, NEW p \in Packets,
                          Enabled(cfg[g]), crypto[g], p.proto = "tcp",
                          pins'[g][FlowKey(p)] # 0,
                          \A q \in Packets : FlowKey(q) = FlowKey(p) => q.looks = NoLook
                   PROVE  /\ pins'[g][FlowKey(p)] \in 1..Len(cfg[g].policies)
                          /\ MatchesEitherWay(cfg[g].policies[pins'[g][FlowKey(p)]], p)
        BY <1>1 DEF PinsAgree
      <4>1. FlowKey(p) # FlowKey(f.plain) /\ FlowKey(p) \in Flows
        BY <3>2, <3>4 DEF Flows
      <4>2. pins'[g][FlowKey(p)] = pins[g][FlowKey(p)]
        BY <3>6, <4>1
      <4> QED
        BY <4>2 DEF PinsAgree
    <3> QED
      BY <3>5, <3>7
  <2> QED
    BY <1>2, <2>2, <2>3
<1> QED
  BY <1>2, <1>3 DEF WanThread, Receive, Unmarked, NoLayer2Policy, ApplyLayer2,
     packet_decrypt, Layer2Half, Layer3, Layer4, StripLayer, Release

-----------------------------------------------------------------------------
(* A reload *)

\* A configuration with policies is one that encrypts.
LEMMA PoliciesEnable ==
  ASSUME NEW c, HasL2(c)
  PROVE  Enabled(c)
BY DEF HasL2, Enabled

\* A reload keeps the types, the ethertype for layer 2, and the pins of the
\* configuration in force, which it clears when the policies change.
LEMMA ReloadKeeps ==
  ASSUME TypeInv, FakeInv, PinsAgree, NEW g \in Gateways, NEW c \in Configs, Reload(g, c)
  PROVE  /\ cfg' \in [Gateways -> Configs] /\ fake' \in [Gateways -> BOOLEAN]
         /\ masks' \in BOOLEAN /\ pins' \in [Gateways -> [Flows -> Nat]]
         /\ FakeInv' /\ PinsAgree'
<1> DEFINE rebuilt == Enabled(c) /\ c.policies # cfg[g].policies
<1>1. /\ cfg' = [cfg EXCEPT ![g] = c]
      /\ fake' = [fake EXCEPT ![g] = @ \/ (rebuilt /\ HasL2(c))]
      /\ masks' \in {masks, FALSE} /\ UNCHANGED crypto
      /\ pins' = IF rebuilt THEN [pins EXCEPT ![g] = [k \in Flows |-> 0]] ELSE pins
  BY DEF Reload, ReloadEffects
<1>2. /\ cfg \in [Gateways -> Configs] /\ fake \in [Gateways -> BOOLEAN]
      /\ masks \in BOOLEAN /\ pins \in [Gateways -> [Flows -> Nat]]
  BY DEF TypeInv
<1>3. \A h \in Gateways : cfg'[h] = IF h = g THEN c ELSE cfg[h]
  BY <1>1, <1>2
<1>4. cfg' \in [Gateways -> Configs] /\ masks' \in BOOLEAN
  BY <1>1, <1>2
<1>5. fake' \in [Gateways -> BOOLEAN]
      /\ \A h \in Gateways : fake'[h] <=> fake[h] \/ (h = g /\ rebuilt /\ HasL2(c))
  <2>1. (fake[g] \/ (rebuilt /\ HasL2(c))) \in BOOLEAN
    OBVIOUS
  <2> HIDE DEF rebuilt
  <2> QED
    BY <1>1, <1>2, <2>1
<1>6. pins' \in [Gateways -> [Flows -> Nat]]
  <2>1. [k \in Flows |-> 0] \in [Flows -> Nat]
    OBVIOUS
  <2> QED
    BY <1>1, <1>2, <2>1
<1>7. FakeInv'
  <2> SUFFICES ASSUME NEW h \in Gateways, HasL2(cfg'[h]) PROVE fake'[h]
    BY DEF FakeInv, HasL2, Ready
  <2>1. CASE h # g
    BY <1>3, <1>5, <2>1 DEF FakeInv
  <2>2. CASE h = g
    <3>1. HasL2(c) /\ Enabled(c)
      BY <1>3, <2>2, PoliciesEnable
    <3>2. CASE c.policies # cfg[g].policies
      BY <1>5, <2>2, <3>1, <3>2
    <3>3. CASE c.policies = cfg[g].policies
      <4>1. HasL2(cfg[g])
        BY <3>1, <3>3 DEF HasL2, Ready
      <4> QED
        BY <1>5, <2>2, <4>1 DEF FakeInv
    <3> QED
      BY <3>2, <3>3
  <2> QED
    BY <2>1, <2>2
<1>8. PinsAgree'
  <2> SUFFICES ASSUME NEW h \in Gateways, NEW p \in Packets,
                      Enabled(cfg'[h]), crypto[h], p.proto = "tcp", pins'[h][FlowKey(p)] # 0,
                      \A q \in Packets : FlowKey(q) = FlowKey(p) => q.looks = NoLook
               PROVE  /\ pins'[h][FlowKey(p)] \in 1..Len(cfg'[h].policies)
                      /\ MatchesEitherWay(cfg'[h].policies[pins'[h][FlowKey(p)]], p)
    BY <1>1 DEF PinsAgree, Enabled
  <2>1. FlowKey(p) \in Flows
    BY DEF Flows
  <2>2. CASE h # g
    <3>1. pins'[h] = pins[h] /\ cfg'[h] = cfg[h]
      BY <1>1, <1>2, <1>3, <2>2
    <3> QED
      BY <3>1 DEF PinsAgree
  <2>3. CASE h = g
    <3>1. cfg'[h] = c /\ Enabled(c)
      BY <1>3, <2>3
    <3>2. CASE rebuilt
      <4>1. pins'[g] = [k \in Flows |-> 0]
        BY <1>1, <1>2, <3>2
      <4> QED
        BY <2>1, <2>3, <4>1
    <3>3. CASE ~rebuilt
      <4>1. c.policies = cfg[g].policies /\ pins' = pins
        BY <1>1, <3>1, <3>3
      <4>2. Enabled(cfg[g])
        BY <3>1, <4>1 DEF Enabled
      <4> QED
        BY <2>3, <3>1, <4>1, <4>2 DEF PinsAgree
    <3> QED
      BY <3>2, <3>3
  <2> QED
    BY <2>2, <2>3
<1> QED
  BY <1>4, <1>5, <1>6, <1>7, <1>8

\* And no thread of near with a packet in its hands sees its policies change.
LEMMA ReloadJobs ==
  ASSUME TypeInv, JobInv, NEW g \in Gateways, NEW c \in Configs, Reload(g, c)
  PROVE  JobInv'
<1>1. UNCHANGED <<crypto, pc, job>> /\ cfg' = [cfg EXCEPT ![g] = c] /\ (masks' => masks)
  BY DEF Reload, ReloadEffects
<1>2. CASE \A t \in Threads : pc[t] = "idle"
  BY <1>1, <1>2 DEF JobInv
<1>3. CASE g # "near" \/ RuntimeUnchanged(g, c)
  <2>1. cfg'["near"].policies = cfg["near"].policies
    BY <1>1, <1>3 DEF TypeInv, Gateways, RuntimeUnchanged
  <2>2. \A x, y : StepAt(x, y) /\ WayAt(x, y) => StepAt(x, y)' /\ WayAt(x, y)'
    BY <1>1, <2>1, JobKept
  <2> QED
    BY <1>1, <2>2 DEF JobInv
<1> QED
  BY <1>2, <1>3 DEF Reload

-----------------------------------------------------------------------------
(* The invariant *)

LEMMA InitIInv == Init => IInv
<1> SUFFICES ASSUME Init PROVE IInv
  OBVIOUS
<1>1. PICK c \in StartConfigs :
        /\ cfg = [g \in Gateways |-> c] /\ crypto = [g \in Gateways |-> Enabled(c)]
        /\ fake = [g \in Gateways |-> HasL2(c)]
  BY DEF Init
<1>2. c \in Configs
  BY TunnelAssumption
<1>3. Enabled(c) \in BOOLEAN /\ HasL2(c) \in BOOLEAN
  BY DEF Enabled, HasL2
<1>4. TypeInv
  BY <1>1, <1>2, <1>3 DEF Init, TypeInv, Steps
<1>5. FakeInv
  BY <1>1 DEF FakeInv
<1>6. PinsAgree
  <2>1. \A g \in Gateways, p \in Packets : pins[g][FlowKey(p)] = 0
    BY DEF Init, Flows
  <2> QED
    BY <2>1 DEF PinsAgree
<1>7. JobInv
  BY DEF Init, JobInv
<1> QED
  BY <1>4, <1>5, <1>6, <1>7 DEF IInv

LEMMA StepIInv == IInv /\ [Next]_vars => IInv'
<1> SUFFICES ASSUME IInv, [Next]_vars PROVE IInv'
  OBVIOUS
<1> USE DEF IInv
<1>1. ASSUME NEW g \in Gateways, NEW p \in Packets, Worker(g, p) PROVE IInv'
  <2>1. /\ pins' \in [Gateways -> [Flows -> Nat]] /\ PinStep(g, p)
        /\ UNCHANGED <<cfg, crypto, fake, masks, pending, pc, job, reloads>>
    BY <1>1, WorkerPins
  <2>2. \A f \in wire' : FrameOK(f) /\ ~f.garbled
    BY <1>1, WorkerWire DEF TypeInv
  <2>3. TypeInv'
    BY <2>1, <2>2 DEF TypeInv
  <2>4. FakeInv' /\ PinsAgree'
    BY <2>1, PinStepAgrees DEF FakeInv, HasL2, Ready
  <2>5. JobInv'
    <3>1. \A x, y : StepAt(x, y) /\ WayAt(x, y) => StepAt(x, y)' /\ WayAt(x, y)'
      BY <2>1, JobKept
    <3> QED
      BY <2>1, <3>1 DEF JobInv
  <2> QED
    BY <2>3, <2>4, <2>5
<1>2. ASSUME NEW t \in Threads, WanThread(t) PROVE IInv'
  <2>1. /\ UNCHANGED <<cfg, crypto, fake, masks>>
        /\ \A f \in wire' : f \in wire
    BY <1>2 DEF WanThread, Receive, Unmarked, NoLayer2Policy, ApplyLayer2, packet_decrypt,
         Layer2Half, Layer3, Layer4, StripLayer, Deliver, Release, Stay
  <2>2. ASSUME NEW next \in Steps, NEW j, Goes(t, next, j),
               next # "idle" => IsJob(j) /\ StepAt(next, j) /\ WayAt(next, j)
        PROVE  /\ pc' \in [Threads -> Steps]
               /\ DOMAIN job' = Threads /\ \A u \in Threads : pc'[u] # "idle" => IsJob(job'[u])
               /\ JobInv'
    BY <2>1, <2>2, GoesKeeps
  <2>3. /\ pc' \in [Threads -> Steps]
        /\ DOMAIN job' = Threads /\ \A u \in Threads : pc'[u] # "idle" => IsJob(job'[u])
        /\ JobInv'
    BY <1>2, <2>2, WanThreadSettled DEF Settled
  <2>4. pins' \in [Gateways -> [Flows -> Nat]] /\ PinsAgree'
    BY <1>2, WanThreadPins
  <2>5. TypeInv'
    BY <2>1, <2>3, <2>4 DEF TypeInv
  <2>6. FakeInv'
    BY <2>1 DEF FakeInv, HasL2, Ready
  <2> QED
    BY <2>3, <2>4, <2>5, <2>6
<1>3. ASSUME NEW g \in Gateways, NEW k \in Flows, PinExpires(g, k) PROVE IInv'
  <2>1. /\ UNCHANGED <<cfg, crypto, fake, masks, wire, pc, job>>
        /\ pins' = [pins EXCEPT ![g][k] = 0]
    BY <1>3 DEF PinExpires, NearOnly
  <2>2. /\ pins' \in [Gateways -> [Flows -> Nat]]
        /\ \A h \in Gateways, l \in Flows : pins'[h][l] \in {0, pins[h][l]}
    BY <2>1 DEF TypeInv
  <2>3. PinsAgree'
    <3>1. \A p \in Packets : FlowKey(p) \in Flows
      BY DEF Flows
    <3> QED
      BY <2>1, <2>2, <3>1 DEF PinsAgree
  <2>4. TypeInv' /\ FakeInv'
    BY <2>1, <2>2 DEF TypeInv, FakeInv, HasL2, Ready
  <2>5. JobInv'
    <3>1. \A x, y : StepAt(x, y) /\ WayAt(x, y) => StepAt(x, y)' /\ WayAt(x, y)'
      BY <2>1, JobKept
    <3> QED
      BY <2>1, <3>1 DEF JobInv
  <2> QED
    BY <2>3, <2>4, <2>5
<1>4. ASSUME NEW g \in Gateways, NEW c \in Configs, Reload(g, c) PROVE IInv'
  <2>1. UNCHANGED <<crypto, wire, pc, job>>
    BY <1>4 DEF Reload
  <2>2. /\ cfg' \in [Gateways -> Configs] /\ fake' \in [Gateways -> BOOLEAN]
        /\ masks' \in BOOLEAN /\ pins' \in [Gateways -> [Flows -> Nat]]
        /\ FakeInv' /\ PinsAgree'
    BY <1>4, ReloadKeeps
  <2>3. TypeInv'
    BY <2>1, <2>2 DEF TypeInv
  <2> QED
    BY <1>4, <2>2, <2>3, ReloadJobs
<1>5. CASE UNCHANGED vars
  <2>1. UNCHANGED <<cfg, crypto, pins, fake, masks, wire, pc, job>>
    BY <1>5 DEF vars
  <2>2. TypeInv' /\ FakeInv' /\ PinsAgree'
    BY <2>1 DEF TypeInv, FakeInv, HasL2, Ready, PinsAgree
  <2>3. JobInv'
    <3>1. \A x, y : StepAt(x, y) /\ WayAt(x, y) => StepAt(x, y)' /\ WayAt(x, y)'
      BY <2>1, JobKept
    <3> QED
      BY <2>1, <3>1 DEF JobInv
  <2> QED
    BY <2>2, <2>3
<1> QED
  BY <1>1, <1>2, <1>3, <1>4, <1>5 DEF Next

LEMMA AlwaysIInv == Spec => []IInv
BY InitIInv, StepIInv, PTL DEF Spec

-----------------------------------------------------------------------------
(* The theorems *)

\* Every frame on the wire or in a thread's hands is a packet in the clear or
\* wrapped by one policy in the form of its layer, and a gateway whose policies
\* include one for layer 2 has the ethertype to mark its frames with
\* (crypto_layer2_encrypt, crypto_layer3_encrypt, crypto_layer4_encrypt and what
\* wan_queue_thread_l3l4 makes of their output).
THEOREM TunnelTypeCorrect == Spec => [](TypeInv /\ FakeInv)
BY AlwaysIInv, PTL DEF IInv

\* For any packets, policies and number of WAN threads, through any sequence of
\* reloads: what reaches a LAN is the packet that was sent, unless counter mode
\* garbled it or one of the listed gaps in the recognition let it through wrapped
\* (wan_queue_thread_l3l4, frag_is_fragment_l4).
THEOREM IntactCorrect == Spec => []Intact
<1>1. ASSUME IInv PROVE Intact
  <2> SUFFICES ASSUME NEW t \in Threads, pc[t] = "done", job[t].lan # 0
               PROVE  LET f == Frame(t) IN
                      /\ f.plain.dst \in LanNets["near"][job[t].lan]
                      /\ f.garbled => Garbles
                      /\ f.sealed # {} =>
                           /\ f.hdr.layer \in {3, 4}
                           /\ \/ ~crypto["near"]
                              \/ \A cp \in f.sealed : ~Has(cp)
                              \/ f.hdr.layer = 3 /\ f.hdr.magic # L3Tunnel
                              \/ f.hdr.layer = 4 /\ f.part # 0 /\ f.hdr.ns # job[t].ns
    BY DEF Intact, Garbles
  <2> DEFINE f == Frame(t)
  <2>1. StepAt("done", job[t]) /\ FrameOK(f)
    BY <1>1, Held DEF IInv
  <2>2. /\ f.eth = "ip" /\ f.plain.dst \in LanNets["near"][job[t].lan]
        /\ f.garbled => Garbles
        /\ f.sealed # {} /\ crypto["near"] => PastLayer3(f) /\ PastLayer4(f, job[t].ns)
    BY <2>1 DEF StepAt, Frame
  <2>3. f.sealed # {} => f.hdr.layer \in {3, 4}
    <3>1. f.sealed # {} => \E cp \in f.sealed : SealedBy(f, cp)
      BY <2>1 DEF FrameOK, InClear
    <3>2. ASSUME NEW cp \in f.sealed, SealedBy(f, cp)
          PROVE  cp.action \in {3, 4} /\ f.hdr.layer = cp.action
      BY <2>2, <3>2 DEF SealedBy
    <3> QED
      BY <3>1, <3>2
  <2> QED
    BY <2>2, <2>3 DEF PastLayer3, PastLayer4
<1> QED
  BY <1>1, AlwaysIInv, PTL

\* And a packet whose policy both gateways have arrives whole, however the threads
\* interleave, unless another thread replaced the layer between
\* crypto_apply_from_policy and packet_decrypt (decrypt_packet_auto_l2).
THEOREM RecoveredCorrect == Spec => []Recovered
<1>1. ASSUME IInv PROVE Recovered
  <2> SUFFICES ASSUME NEW t \in Threads, pc[t] = "done", Expected(job[t]),
                      HasLan(job[t].orig[1].plain)
               PROVE  /\ job[t].lan # 0
                      /\ Frame(t) = Clear(job[t].orig[1].from, job[t].orig[1].plain)
    BY DEF Recovered, Expected, HasLan
  <2>1. WayAt("done", job[t])
    BY <1>1, Held DEF IInv
  <2> QED
    BY <2>1 DEF WayAt, Frame
<1> QED
  BY <1>1, AlwaysIInv, PTL

\* The pins stay policies of the configuration in force that match their flow, at
\* both gateways and through every reload (tcp_policy_pin_set,
\* tcp_policy_pin_clear_all, inbound_policy_pi).
THEOREM PinsAgreeCorrect == Spec => []PinsAgree
BY AlwaysIInv, PTL DEF IInv

\* No step puts a frame on the wire that its packet's policies do not cover: it is
\* sealed by one of them, or in the clear for one of the reasons Covered names
\* (worker_thread, config_select_crypto_policy, crypto_layer4_encrypt,
\* crypto_layer3_encrypt).
THEOREM LeavesCoveredCorrect == Spec => LeavesCovered
<1>1. IInv /\ [Next]_vars => [\A f \in wire' \ wire : Covered(f)]_vars
  <2> SUFFICES ASSUME IInv, [Next]_vars, NEW f \in wire' \ wire PROVE Covered(f)
    OBVIOUS
  <2>1. ASSUME NEW g \in Gateways, NEW p \in Packets, Worker(g, p) PROVE Covered(f)
    BY <2>1, WorkerWire DEF IInv
  <2>2. ASSUME NEW t \in Threads, WanThread(t) PROVE f \in wire
    BY <2>2 DEF WanThread, Receive, Unmarked, NoLayer2Policy, ApplyLayer2, packet_decrypt,
       Layer2Half, Layer3, Layer4, StripLayer, Deliver, Release
  <2>3. ASSUME NEW g \in Gateways, NEW k \in Flows, PinExpires(g, k) PROVE UNCHANGED wire
    BY <2>3 DEF PinExpires
  <2>4. ASSUME NEW g \in Gateways, NEW c \in Configs, Reload(g, c) PROVE UNCHANGED wire
    BY <2>4 DEF Reload
  <2> QED
    BY <2>1, <2>2, <2>3, <2>4 DEF Next, vars
<1> QED
  BY <1>1, AlwaysIInv, PTL DEF Spec, LeavesCovered

=============================================================================
