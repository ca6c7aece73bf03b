------------------------------- MODULE Tunnel -------------------------------
(***************************************************************************)
(* The way of a packet through the tunnel: a worker of one gateway selects *)
(* a policy and encrypts at layer 2, 3 or 4, the WAN threads of the other  *)
(* gateway recognise the wire format, decrypt and choose the LAN.          *)
(*                                                                         *)
(* Both gateways run the same program; what a worker does is modelled for  *)
(* both, what the WAN threads do for "near".  Cryptography is symbolic: a  *)
(* frame remembers the policy it was sealed with, and only a policy with   *)
(* the same key, mode and nonce size opens it.  What is not symbolic is    *)
(* the recognition, which looks at single bytes at places that depend on   *)
(* the nonce size of each policy: header bytes that were written are seen  *)
(* as written, and bytes nobody wrote may look like a header by chance     *)
(* (looks).  A worker sees TCP and UDP over IPv4 only, because             *)
(* xdp_redirect_prog passes everything else to the kernel; but that reads  *)
(* the ports alone, and the rest of the transport header need not be there *)
(* (shape "short"), or not be one (shape "odd": a TCP header whose data    *)
(* offset is wrong, as in a fragment of IP that is not the first).         *)
(*                                                                         *)
(* Joining the halves of a split packet is modelled in Fragment, the gate  *)
(* of a reload in HotReload; the previous policies' grace period is left   *)
(* out because its table is empty in every run of the daemon.              *)
(***************************************************************************)
EXTENDS Integers, Sequences, FiniteSets

CONSTANTS
  Threads,     \* WAN packet threads of the gateway "near"
  Packets,     \* the packets that arrive on the gateways' LANs
  Configs,     \* the configurations a gateway may be given
  StartConfigs, \* those the daemons may start with
  LanNets,     \* hosts behind each LAN of each gateway
  WireLooks,   \* what bytes of nonce and cipher text may look like
  L3Tunnel,    \* CRYPTO_L3_TUNNEL_MAGIC, which no file of the repository defines
  MaxSent,     \* bound on the packets a gateway's worker takes
  MaxReloads   \* bound on hot reloads

Gateways == {"near", "far"}

\* The byte that tells kinds of tunnel headers apart; layer 3 puts the
\* original protocol in its place.
NoLook == [layer |-> 0, ns |-> 0, id |-> 0, magic |-> "none"]

IsPacket(p) ==
  /\ p = [from |-> p.from, lan |-> p.lan, src |-> p.src, dst |-> p.dst,
          sport |-> p.sport, dport |-> p.dport, proto |-> p.proto, big |-> p.big,
          fin |-> p.fin, shape |-> p.shape, looks |-> p.looks]
  /\ p.from \in Gateways /\ p.proto \in {"tcp", "udp"}
  /\ p.shape \in {"whole", "short", "odd"} /\ (p.shape = "odd" => p.proto = "tcp")

\* Ids differ, and a profile lists policies that exist.
IsConfig(c) ==
  /\ Len(c.policies) \in Nat /\ Len(c.profiles) \in Nat
  /\ \A i \in 1..Len(c.policies) :
       c.policies[i].action \in {0, 2, 3, 4} /\ c.policies[i].mode \in {"gcm", "ctr"}
  /\ \A i, j \in 1..Len(c.policies) : c.policies[i].id = c.policies[j].id => i = j
  /\ \A n \in 1..Len(c.profiles) :
       LET list == c.profiles[n].policies IN
       Len(list) \in Nat /\ \A k \in 1..Len(list) : list[k] \in 1..Len(c.policies)

ASSUME TunnelAssumption ==
  /\ StartConfigs \subseteq Configs /\ MaxReloads \in Nat /\ MaxSent \in Nat
  /\ NoLook \in WireLooks
  /\ L3Tunnel \notin {"none", "cipher", "l2frag", "l3frag", "l4frag", "l4tun"}
  /\ \A p \in Packets : IsPacket(p)
  /\ \A c \in Configs : IsConfig(c)
  /\ Len(LanNets["near"]) \in Nat

VARIABLES
  cfg,      \* fwd->cfg of each gateway
  crypto,   \* which thread functions forwarder_run chose: with or without crypto
  pins,     \* TCP flow -> policy index, 0 for none, of each gateway
  layer,    \* g_encrypt_layer of near: one variable for all its threads
  fake,     \* g_fake_ethertype_ipv4 of each gateway is set
  masks,    \* near: the LANs' netmasks are filled in
  wire,     \* frames on the WAN
  sent,     \* packets a worker has handled
  pending,  \* near: packets whose first half waits in g_wan_frag_l2
  pc,       \* next step of each WAN thread of near
  job,      \* the frame in its hands
  reloads

vars == <<cfg, crypto, pins, layer, fake, masks, wire, sent, pending, pc, job, reloads>>

-----------------------------------------------------------------------------
(* Policy selection *)

First(S) == IF S = {} THEN 0 ELSE CHOOSE i \in S : \A j \in S : i =< j

Enabled(c) == c.policies # <<>>
DefaultNonce(c) == IF Enabled(c) THEN c.policies[1].ns ELSE 12
Ready(c, i) == c.policies[i].action # 0 /\ c.policies[i].key # "zero"
HasL2(c) == \E i \in 1..Len(c.policies) : c.policies[i].action = 2 /\ Ready(c, i)

cidr_match_with_negate(a, ip) == a.any \/ ((ip \in a.hosts) # a.negate)

InPorts(range, port) == range = <<>> \/ port \in range[1]..range[2]

crypto_policy_match_packet(cp, p) ==
  /\ cidr_match_with_negate(cp.src, p.src)
  /\ cidr_match_with_negate(cp.dst, p.dst)
  /\ InPorts(cp.sports, p.sport) /\ InPorts(cp.dports, p.dport)
  /\ cp.proto \in {"any", p.proto}

Reverse(p) ==
  [p EXCEPT !.src = p.dst, !.dst = p.src, !.sport = p.dport, !.dport = p.sport]

MatchesEitherWay(cp, p) ==
  crypto_policy_match_packet(cp, p) \/ crypto_policy_match_packet(cp, Reverse(p))

config_select_profile_for_local(c, lan) ==
  First({i \in 1..Len(c.profiles) : c.profiles[i].enabled /\ lan \in c.profiles[i].locals})

\* Wrong variant, used by no action: one pass in the order of the list.
SelectOnePass(c, profile, p) ==
  LET list == c.profiles[profile].policies
      hits == {k \in 1..Len(list) : MatchesEitherWay(c.policies[list[k]], p)}
  IN IF profile = 0 THEN 0 ELSE IF hits = {} THEN 0 ELSE list[First(hits)]

\* Two passes: the policies that name a protocol, then those for any.
config_select_crypto_policy(c, profile, p) ==
  LET list == c.profiles[profile].policies
      Pass(any) == {k \in 1..Len(list) :
                      /\ (c.policies[list[k]].proto = "any") = any
                      /\ MatchesEitherWay(c.policies[list[k]], p)}
      hits == IF Pass(FALSE) # {} THEN Pass(FALSE) ELSE Pass(TRUE)
  IN IF profile = 0 THEN 0 ELSE IF hits = {} THEN 0 ELSE list[First(hits)]

crypto_select_policy_for_local(c, p) ==
  config_select_crypto_policy(c, config_select_profile_for_local(c, p.lan), p)

\* A TCP flow's key is the same for both directions.
FlowKey(p) == {<<p.src, p.sport>>, <<p.dst, p.dport>>}
Flows == {FlowKey(p) : p \in Packets}
is_ssh_flow(p) == p.proto = "tcp" /\ 22 \in {p.sport, p.dport}

\* An entry that the configuration cannot serve is not answered.
PinUsable(c, i) ==
  i \in 1..Len(c.policies) /\ (c.policies[i].action = 0 \/ Ready(c, i))
tcp_policy_pin_lookup(g, p) ==
  LET i == pins[g][FlowKey(p)]
  IN IF p.proto = "tcp" /\ PinUsable(cfg[g], i) THEN i ELSE 0

-----------------------------------------------------------------------------
(* Frames *)

Clear(g, p) ==
  [from |-> g, eth |-> "ip", id |-> 0, proto |-> p.proto, hdr |-> NoLook,
   looks |-> p.looks, sealed |-> {}, part |-> 0, garbled |-> FALSE, plain |-> p]

\* What the bytes show to one who expects a header of this layer and nonce size.
Shows(f, l, n) ==
  IF f.hdr.layer = l /\ f.hdr.ns = n /\ f.hdr.magic # "cipher" THEN f.hdr
  ELSE IF f.looks.layer = l /\ f.looks.ns = n THEN f.looks ELSE NoLook

\* The magic stands where layer 2 has cipher text and the others a byte of
\* the header.
Sealed(g, cp, p, part, magic, look) ==
  [Clear(g, p) EXCEPT !.hdr = [layer |-> cp.action, ns |-> cp.ns, id |-> cp.id,
                               magic |-> magic],
                      !.looks = look, !.sealed = {cp}, !.part = part]

\* Without an ethertype to mark it with, the packet is left as it is.
crypto_layer2_encrypt(g, cp, p, look) ==
  IF ~fake[g] THEN Clear(g, p)
  ELSE [Sealed(g, cp, p, 0, "cipher", look) EXCEPT !.eth = "marked", !.id = cp.id]
crypto_layer2_encrypt_fragment_single(g, cp, p, part) ==
  [Sealed(g, cp, p, part, "l2frag", NoLook) EXCEPT !.eth = "marked", !.id = cp.id]

\* A packet whose bytes look like a layer 3 fragment is left as it is.
crypto_layer3_encrypt(g, cp, p, look) ==
  IF Shows(Clear(g, p), 3, cp.ns).magic = "l3frag" THEN Clear(g, p)
  ELSE [Sealed(g, cp, p, 0, p.proto, look) EXCEPT !.proto = "fake"]
crypto_layer3_encrypt_fragment_single(g, cp, p, part) ==
  [Sealed(g, cp, p, part, "l3frag", NoLook) EXCEPT !.proto = "fake"]

\* A packet whose transport header is none is left as it is.
crypto_layer4_encrypt(g, cp, p, look) ==
  IF p.shape = "odd" THEN Clear(g, p) ELSE Sealed(g, cp, p, 0, "l4tun", look)
crypto_layer4_encrypt_fragment_single(g, cp, p, part) ==
  Sealed(g, cp, p, part, "l4frag", NoLook)

Encrypted(g, cp, p, look) ==
  CASE cp.action = 2 -> crypto_layer2_encrypt(g, cp, p, look)
    [] cp.action = 3 -> crypto_layer3_encrypt(g, cp, p, look)
    [] cp.action = 4 -> crypto_layer4_encrypt(g, cp, p, look)

\* Without a transport header there is no place to split at.
Halves(p) == IF p.shape = "odd" THEN {} ELSE {1, 2}
frag_split_and_encrypt(g, cp, p) ==
  {crypto_layer3_encrypt_fragment_single(g, cp, p, k) : k \in Halves(p)}
frag_split_and_encrypt_l2(g, cp, p) ==
  {crypto_layer2_encrypt_fragment_single(g, cp, p, k) : k \in IF fake[g] THEN Halves(p) ELSE {}}
frag_split_and_encrypt_l4(g, cp, p) ==
  {crypto_layer4_encrypt_fragment_single(g, cp, p, k) : k \in Halves(p)}

SplitEncrypted(g, cp, p) ==
  CASE cp.action = 2 -> frag_split_and_encrypt_l2(g, cp, p)
    [] cp.action = 3 -> frag_split_and_encrypt(g, cp, p)
    [] cp.action = 4 -> frag_split_and_encrypt_l4(g, cp, p)

-----------------------------------------------------------------------------
(* Opening *)

SameCipher(cp, x) == cp.action = x.action /\ cp.ns = x.ns /\ cp.key = x.key /\ cp.mode = x.mode
Opens(cp, f) == \E x \in f.sealed : SameCipher(cp, x)

Opened(f) == [Clear(f.from, f.plain) EXCEPT !.garbled = f.garbled]
Garbled(f) == [Clear(f.from, f.plain) EXCEPT !.garbled = TRUE, !.looks = NoLook]

\* The frames a call may leave; the empty sequence stands for its failure.
Failed == <<>>
Attempt(cp, f, ctr) ==
  IF Opens(cp, f) THEN {<<Opened(f)>>} ELSE IF cp.mode = "gcm" THEN {Failed} ELSE ctr

\* Counter mode has no tag: layer 2 checks the IPv4 header (a garbled one has no
\* host of a LAN as its destination), layer 3 the ports, layer 4 nothing.
crypto_layer2_decrypt(cp, f) ==
  IF Shows(f, 2, cp.ns).magic = "l2frag" THEN {<<f>>} ELSE Attempt(cp, f, {Failed})
crypto_layer3_decrypt(cp, f) ==
  IF Shows(f, 3, cp.ns).magic = "l3frag" THEN {<<f>>}
  ELSE Attempt(cp, f, {Failed, <<Garbled(f)>>})
\* The first bit of a nonce is never set: what only looks like a header may be
\* left alone, which the caller takes for a failure.
crypto_layer4_decrypt(cp, f) ==
  Attempt(cp, f, {<<Garbled(f)>>}) \cup (IF f.hdr.layer = 4 THEN {} ELSE {Failed})

\* A frame that is no half of a packet is no use even when counter mode
\* decrypts it: its number meets no other half.
crypto_layer2_decrypt_fragment(cp, f) ==
  IF f.part = 0 \/ Shows(f, 2, cp.ns).magic # "l2frag" THEN {Failed}
  ELSE Attempt(cp, f, {<<[f EXCEPT !.garbled = TRUE]>>})

Near == cfg["near"]
PoliciesOf(action) == {i \in 1..Len(Near.policies) : Near.policies[i].action = action}
ById(action, id) == First({i \in PoliciesOf(action) : Near.policies[i].id = id /\ Ready(Near, i)})

\* The policies whose header, in their place, has this magic and their id.
Claimants(f, action, magic) ==
  {i \in PoliciesOf(action) :
     /\ Shows(f, action, Near.policies[i].ns).magic = magic
     /\ Shows(f, action, Near.policies[i].ns).id = Near.policies[i].id}

IsIp(f) == f.eth = "ip"
IsTransport(f) == IsIp(f) /\ f.proto # "fake"

crypto_l3_extract_policy_id(f) ==
  IF IsIp(f) /\ f.proto = "fake" THEN First(Claimants(f, 3, L3Tunnel)) ELSE 0
\* Wrong variant, used by no action: the header is read at the default nonce size.
ExtractAtDefault(f) ==
  IF IsTransport(f)
  THEN First({i \in PoliciesOf(4) : /\ Shows(f, 4, DefaultNonce(Near)).magic = "l4tun"
                                    /\ Shows(f, 4, DefaultNonce(Near)).id = Near.policies[i].id})
  ELSE 0
crypto_l4_extract_policy_id_ipv4(f) ==
  IF IsTransport(f) THEN First(Claimants(f, 4, "l4tun")) ELSE 0

\* Whether the frame passes for half a packet.  The index of the half is read at
\* the thread's nonce size, which need not be the policy's.
Index(found, n) ==
  IF found = 0 THEN {FALSE} ELSE IF Near.policies[found].ns = n THEN {TRUE} ELSE BOOLEAN
frag_is_fragment_l2(f) ==
  IF \A i \in PoliciesOf(2) : Shows(f, 2, Near.policies[i].ns).magic # "l2frag" THEN {FALSE}
  ELSE IF f.part # 0 THEN {TRUE} ELSE BOOLEAN
frag_is_fragment(f, n) ==
  Index(IF IsIp(f) /\ f.proto = "fake" THEN First(Claimants(f, 3, "l3frag")) ELSE 0, n)
frag_is_fragment_l4(f, n) ==
  Index(IF IsTransport(f) THEN First(Claimants(f, 4, "l4frag")) ELSE 0, n)

-----------------------------------------------------------------------------
(* Workers: one packet from a LAN to a WAN *)

NoJob == [frame |-> Failed, orig |-> Failed, ns |-> 0, policy |-> 0, read |-> 0, lan |-> 0]

Init ==
  /\ \E c \in StartConfigs :
       /\ cfg = [g \in Gateways |-> c]
       /\ crypto = [g \in Gateways |-> Enabled(c)]
       /\ fake = [g \in Gateways |-> HasL2(c)]
       /\ layer = IF Enabled(c) THEN 3 ELSE 0
  /\ pins = [g \in Gateways |-> [k \in Flows |-> 0]]
  /\ masks = TRUE
  /\ wire = {} /\ sent = {} /\ pending = {}
  /\ pc = [t \in Threads |-> "idle"] /\ job = [t \in Threads |-> NoJob]
  /\ reloads = 0

Chosen(g, p) ==
  IF tcp_policy_pin_lookup(g, p) # 0 THEN tcp_policy_pin_lookup(g, p)
  ELSE crypto_select_policy_for_local(cfg[g], p)

\* The pin of the packet's flow, once the packet is through.
PinFor(g, p, i, encrypted) ==
  IF encrypted /\ p.fin THEN 0
  ELSE IF i # 0 /\ PinUsable(cfg[g], i) THEN i
  ELSE tcp_policy_pin_lookup(g, p)
tcp_policy_pin_set(g, p, i, encrypted) ==
  pins' = IF p.proto = "tcp" THEN [pins EXCEPT ![g][FlowKey(p)] = PinFor(g, p, i, encrypted)]
          ELSE pins

Takes(g, p) ==
  /\ p.from = g /\ p \notin sent /\ sent' = sent \cup {p}
  /\ Cardinality({q \in sent : q.from = g}) < MaxSent
NearOnly == UNCHANGED <<cfg, crypto, fake, masks, pending, pc, job, reloads>>

\* local_queue_thread_no_crypto, and worker_thread while crypto is off.
SendPlain(g, p, arp) ==
  /\ Takes(g, p) /\ ~(crypto[g] /\ Enabled(cfg[g]))
  /\ wire' = wire \cup (IF arp THEN {Clear(g, p)} ELSE {})
  /\ UNCHANGED <<pins, layer>> /\ NearOnly

\* parse_flow finds no whole transport header: no policy is looked for, and the
\* packet goes out as it is.
SendUnparsed(g, p, arp) ==
  /\ Takes(g, p) /\ crypto[g] /\ Enabled(cfg[g]) /\ p.shape = "short"
  /\ wire' = wire \cup (IF arp THEN {Clear(g, p)} ELSE {})
  /\ UNCHANGED <<pins, layer>> /\ NearOnly

TakesParsed(g, p) == Takes(g, p) /\ crypto[g] /\ Enabled(cfg[g]) /\ p.shape # "short"

\* No policy matches: dropped.
DropUnmatched(g, p) ==
  /\ TakesParsed(g, p) /\ Chosen(g, p) = 0
  /\ tcp_policy_pin_set(g, p, 0, FALSE)
  /\ UNCHANGED <<wire, layer>> /\ NearOnly

\* A bypass policy, or one whose context is not ready.
Bypass(g, p, arp) ==
  LET i == Chosen(g, p) IN
  /\ TakesParsed(g, p) /\ i # 0 /\ ~Ready(cfg[g], i)
  /\ tcp_policy_pin_set(g, p, i, FALSE)
  /\ wire' = wire \cup (IF arp THEN {Clear(g, p)} ELSE {})
  /\ UNCHANGED layer /\ NearOnly

\* The policy's parameters are applied first, to the layer all threads share;
\* without the next hop's address, without two halves, or when the cipher fails
\* (ok is FALSE for the first and the last) the packet is dropped before its FIN is
\* looked at.  (Nobody here reads near's frames: no chance looks.)
EncryptAndSend(g, p, look, ok) ==
  LET i == Chosen(g, p)
      cp == cfg[g].policies[i]
      out == IF p.big THEN SplitEncrypted(g, cp, p) ELSE {Encrypted(g, cp, p, look)} IN
  /\ TakesParsed(g, p) /\ i # 0 /\ Ready(cfg[g], i)
  /\ look.layer \in {0, cp.action} /\ (g = "near" => look = NoLook)
  /\ layer' = IF g = "near" THEN cp.action ELSE layer
  /\ tcp_policy_pin_set(g, p, i, ok /\ out # {})
  /\ wire' = wire \cup (IF ok THEN out ELSE {})
  /\ NearOnly

-----------------------------------------------------------------------------
(* WAN threads of near *)

Stay == UNCHANGED <<cfg, crypto, fake, masks, sent, reloads>>
Goes(t, next, j) == pc' = [pc EXCEPT ![t] = next] /\ job' = [job EXCEPT ![t] = j]
Loses(t) == Goes(t, "done", job[t])
Frame(t) == job[t].frame[1]
cryptoOn == Enabled(Near)

\* wan_queue_thread_l3l4 begins every packet by setting the parameters of the
\* layer 3 policy it finds in it, or else the default ones; the layer they name
\* is the same.  wan_queue_thread_no_crypto only forwards.
Receive(t, f) ==
  LET i == crypto_l3_extract_policy_id(f)
      n == IF i # 0 /\ Ready(Near, i) THEN Near.policies[i].ns ELSE DefaultNonce(Near) IN
  /\ pc[t] = "idle" /\ f \in wire /\ f.from = "far"
  /\ wire' = wire \ {f}
  /\ layer' = IF crypto["near"] /\ cryptoOn THEN 3 ELSE layer
  /\ Goes(t, IF crypto["near"] THEN "l2" ELSE "out",
          [NoJob EXCEPT !.frame = <<f>>, !.orig = <<f>>, !.ns = n])
  /\ UNCHANGED <<pins, pending>> /\ Stay

Unmarked(t) ==
  /\ pc[t] = "l2" /\ ~(fake["near"] /\ Frame(t).eth = "marked")
  /\ Goes(t, "l3", job[t])
  /\ UNCHANGED <<layer, pins, wire, pending>> /\ Stay

Marked(t) == pc[t] = "l2" /\ fake["near"] /\ Frame(t).eth = "marked"

\* No policy has the frame's id: both ways lose it.
NoLayer2Policy(t) ==
  /\ Marked(t) /\ ById(2, Frame(t).id) = 0
  /\ Loses(t)
  /\ UNCHANGED <<layer, pins, wire, pending>> /\ Stay

\* decrypt_packet_auto_l2 sets the layer for packet_decrypt, which reads it.
ApplyLayer2(t) ==
  LET i == ById(2, Frame(t).id) IN
  /\ Marked(t) /\ i # 0 /\ FALSE \in frag_is_fragment_l2(Frame(t))
  /\ layer' = 2
  /\ Goes(t, "dec", [job[t] EXCEPT !.policy = i, !.ns = Near.policies[i].ns])
  /\ UNCHANGED <<pins, wire, pending>> /\ Stay

\* Layers 3 and 4 leave a marked frame alone.
packet_decrypt(t) ==
  LET f == Frame(t)
      cp == Near.policies[job[t].policy]
      results == IF layer = 2 THEN crypto_layer2_decrypt(cp, f) ELSE {<<f>>} IN
  /\ pc[t] = "dec"
  /\ \E r \in results :
       IF r = Failed THEN Goes(t, "done", [job[t] EXCEPT !.read = layer])
       ELSE Goes(t, "l3", [job[t] EXCEPT !.read = layer, !.frame = r])
  /\ UNCHANGED <<layer, pins, wire, pending>> /\ Stay

\* A first half waits, unless its header came out garbled; a second one is joined.
Layer2Half(t) ==
  LET f == Frame(t)
      i == ById(2, f.id) IN
  /\ Marked(t) /\ i # 0 /\ TRUE \in frag_is_fragment_l2(f)
  /\ layer' = 2
  /\ \E r \in crypto_layer2_decrypt_fragment(Near.policies[i], f) :
       LET halves == {h \in pending : h.plain = f.plain} IN
       IF r = Failed THEN Loses(t) /\ UNCHANGED pending
       ELSE IF f.part = 1
       THEN Loses(t) /\ pending' = pending \cup (IF r[1].garbled THEN {} ELSE {r[1]})
       ELSE IF halves = {} THEN Loses(t) /\ UNCHANGED pending
       ELSE /\ Goes(t, "l3", [job[t] EXCEPT !.frame = <<Opened(r[1])>>,
                                            !.ns = Near.policies[i].ns])
            /\ pending' = pending \ halves
  /\ UNCHANGED <<pins, wire>> /\ Stay

\* Layers 3 and 4, one after the other.  A half is lost: the policy of a half is
\* looked for under the magic of a whole packet.
StripLayer(t, l, half, i, results, next) ==
  /\ pc[t] = (IF l = 3 THEN "l3" ELSE "l4")
  /\ \/ (TRUE \in half \/ (cryptoOn /\ i # 0 /\ ~Ready(Near, i))) /\ Loses(t) /\ UNCHANGED layer
     \/ FALSE \in half /\ i = 0 /\ Goes(t, next, job[t]) /\ UNCHANGED layer
     \/ /\ FALSE \in half /\ i # 0 /\ Ready(Near, i) /\ layer' = l
        /\ \E r \in results :
             IF r = Failed THEN Loses(t)
             ELSE Goes(t, next, [job[t] EXCEPT !.frame = r, !.ns = Near.policies[i].ns])
  /\ UNCHANGED <<pins, wire, pending>> /\ Stay

Layer3(t) ==
  LET f == Frame(t)
      i == crypto_l3_extract_policy_id(f) IN
  StripLayer(t, 3, frag_is_fragment(f, job[t].ns), i,
             crypto_layer3_decrypt(Near.policies[i], f), "l4")
Layer4(t) ==
  LET f == Frame(t)
      i == crypto_l4_extract_policy_id_ipv4(f) IN
  StripLayer(t, 4, frag_is_fragment_l4(f, job[t].ns), i,
             crypto_layer4_decrypt(Near.policies[i], f), "out")

\* The pin of the flow is taken from the buffer the packet came in, which by now
\* holds the decrypted packet; it needs a flow, which parse_flow may not find.
InboundPin(t) ==
  LET f == Frame(t)
      i == crypto_l4_extract_policy_id_ipv4(f)
      ssh == IsTransport(job[t].orig[1]) /\ is_ssh_flow(f.plain) IN
  IF crypto["near"] /\ cryptoOn /\ i # 0 /\ Ready(Near, i) /\ ~ssh
     /\ f.plain.proto = "tcp" /\ f.plain.shape # "short"
  THEN [pins EXCEPT !["near"][FlowKey(f.plain)] = i] ELSE pins

\* The LANs' networks are filled in by forwarder_init only; in any configuration
\* that came later they are zero, and the first LAN has every address.
config_find_local_for_ip(ip) ==
  IF masks THEN First({k \in 1..Len(LanNets["near"]) : ip \in LanNets["near"][k]}) ELSE 1

\* Wrong variant, used by no action: the next hop is not asked for.
DeliverUnchecked(t) ==
  /\ pc[t] = "out"
  /\ pins' = InboundPin(t)
  /\ Goes(t, "done", [job[t] EXCEPT !.lan = config_find_local_for_ip(Frame(t).plain.dst)])
  /\ UNCHANGED <<layer, wire, pending>> /\ Stay

\* A host is in the ARP cache of the LAN it is on, so a packet that is taken to
\* another LAN finds no next hop.
Deliver(t) ==
  LET f == Frame(t)
      lan == config_find_local_for_ip(f.plain.dst)
      known == lan # 0 /\ f.plain.dst \in LanNets["near"][lan] IN
  /\ pc[t] = "out"
  /\ pins' = InboundPin(t)
  /\ Goes(t, "done", [job[t] EXCEPT !.lan = IF IsIp(f) /\ known THEN lan ELSE 0])
  /\ UNCHANGED <<layer, wire, pending>> /\ Stay

\* The end of the packet's turn.
Release(t) ==
  /\ pc[t] = "done" /\ Goes(t, "idle", NoJob)
  /\ UNCHANGED <<layer, pins, wire, pending>> /\ Stay

-----------------------------------------------------------------------------
(* Other threads *)

\* tcp_policy_pin_gc: two minutes without a packet.
PinExpires(g, k) ==
  /\ Enabled(cfg[g]) /\ pins[g][k] # 0
  /\ pins' = [pins EXCEPT ![g][k] = 0]
  /\ UNCHANGED <<layer, wire, sent>> /\ NearOnly

RuntimeUnchanged(g, c) ==
  c.policies = cfg[g].policies /\ Len(c.profiles) = Len(cfg[g].profiles)

ReloadEffects(g, c) ==
  LET rebuilt == Enabled(c) /\ c.policies # cfg[g].policies IN
  /\ fake' = [fake EXCEPT ![g] = @ \/ (rebuilt /\ HasL2(c))]
  /\ IF g = "near" THEN masks' = FALSE /\ layer' = IF rebuilt THEN 3 ELSE layer
                    ELSE UNCHANGED <<masks, layer>>

\* Wrong variant, used by no action: the pins survive a rebuild.
ReloadKeepingPins(g, c) ==
  /\ reloads < MaxReloads /\ c # cfg[g]
  /\ g = "near" => RuntimeUnchanged(g, c) \/ \A t \in Threads : pc[t] = "idle"
  /\ cfg' = [cfg EXCEPT ![g] = c]
  /\ ReloadEffects(g, c)
  /\ reloads' = reloads + 1
  /\ UNCHANGED <<crypto, pins, wire, sent, pending, pc, job>>

\* forwarder_reload_config: it waits for the packet threads unless nothing it
\* compares has changed, which the profiles' lists of policies are no part of.
Reload(g, c) ==
  /\ reloads < MaxReloads /\ c # cfg[g]
  /\ g = "near" => RuntimeUnchanged(g, c) \/ \A t \in Threads : pc[t] = "idle"
  /\ cfg' = [cfg EXCEPT ![g] = c]
  /\ ReloadEffects(g, c)
  /\ pins' = IF Enabled(c) /\ c.policies # cfg[g].policies
             THEN [pins EXCEPT ![g] = [k \in Flows |-> 0]] ELSE pins
  /\ reloads' = reloads + 1
  /\ UNCHANGED <<crypto, wire, sent, pending, pc, job>>

Worker(g, p) ==
  \E arp \in BOOLEAN :
    \/ SendPlain(g, p, arp) \/ SendUnparsed(g, p, arp)
    \/ DropUnmatched(g, p) \/ Bypass(g, p, arp)
    \/ \E look \in WireLooks : EncryptAndSend(g, p, look, arp)

WanThread(t) ==
  \/ \E f \in wire : Receive(t, f)
  \/ Unmarked(t) \/ NoLayer2Policy(t) \/ ApplyLayer2(t) \/ packet_decrypt(t) \/ Layer2Half(t)
  \/ Layer3(t) \/ Layer4(t) \/ Deliver(t) \/ Release(t)

Next ==
  \/ \E g \in Gateways, p \in Packets : Worker(g, p)
  \/ \E t \in Threads : WanThread(t)
  \/ \E g \in Gateways, k \in Flows : PinExpires(g, k)
  \/ \E g \in Gateways, c \in Configs : Reload(g, c)

Spec == Init /\ [][Next]_vars

-----------------------------------------------------------------------------
(* Properties *)

Has(cp) == \E i \in 1..Len(Near.policies) : Ready(Near, i) /\ Near.policies[i] = cp

\* What reaches a LAN reaches the host's own LAN.  It is the packet that was sent,
\* unless a policy in counter mode with another key decrypted it; it is still
\* wrapped only when this gateway has no policy that claims the frame's id and
\* magic, runs the threads without encryption, or took a half of layer 4 for none
\* because it read the index at the nonce size of another policy
\* (config_find_local_for_ip, local_rewrite_dest_mac, crypto_l3_extract_policy_id,
\* crypto_l4_extract_policy_id_ipv4, frag_is_fragment_l4, verify_ipv4_after_decrypt).
Intact ==
  \A t \in Threads : pc[t] = "done" /\ job[t].lan # 0 =>
    LET f == Frame(t) IN
    /\ f.plain.dst \in LanNets["near"][job[t].lan]
    /\ f.garbled => \E i \in 1..Len(Near.policies) : Near.policies[i].mode = "ctr"
    /\ f.sealed # {} =>
         /\ f.hdr.layer \in {3, 4}
         /\ \/ ~crypto["near"]
            \/ \A cp \in f.sealed : ~Has(cp)
            \/ f.hdr.layer = 3 /\ f.hdr.magic # L3Tunnel
            \/ f.hdr.layer = 4 /\ f.part # 0 /\ f.hdr.ns # job[t].ns

\* A packet whose policy both gateways have comes out of the tunnel as it went in,
\* when its bytes imitate no header and its LAN can be found: whatever the other
\* threads do at the time, unless one of them replaced the layer between
\* crypto_apply_from_policy and packet_decrypt (decrypt_packet_auto_l2).
Recovered ==
  \A t \in Threads : pc[t] = "done" =>
    LET o == job[t].orig[1]
        dst == o.plain.dst IN
    /\ crypto["near"] /\ o.looks = NoLook /\ o.plain.looks = NoLook /\ o.part = 0
    /\ \A cp \in o.sealed : cp.action # 3 /\ Has(cp)
    /\ o.eth = "marked" => job[t].read = 2
    /\ \E k \in 1..Len(LanNets["near"]) : dst \in LanNets["near"][k] /\ (masks \/ k = 1)
    => job[t].lan # 0 /\ Frame(t) = Clear(o.from, o.plain)

\* The policy a flow is pinned to is one of the configuration in force and
\* matches the flow's packets in one direction, unless a packet of the flow
\* carries bytes that pass for a tunnel header (tcp_policy_pin_set,
\* tcp_policy_pin_clear_all, inbound_policy_pi).
PinsAgree ==
  \A g \in Gateways, p \in Packets :
    LET i == pins[g][FlowKey(p)] IN
    Enabled(cfg[g]) /\ crypto[g] /\ p.proto = "tcp" /\ i # 0
    /\ (\A q \in Packets : FlowKey(q) = FlowKey(p) => q.looks = NoLook)
    => i \in 1..Len(cfg[g].policies) /\ MatchesEitherWay(cfg[g].policies[i], p)

\* The policies a gateway may use for a packet: the pin of its flow, or those the
\* LAN's profile lists that match it in one direction, where one that names the
\* protocol goes before one for any.
Entitled(g, p) ==
  LET c == cfg[g]
      profile == config_select_profile_for_local(c, p.lan)
      listed == IF profile = 0 THEN {}
                ELSE {i \in 1..Len(c.policies) :
                        /\ \E k \in 1..Len(c.profiles[profile].policies) :
                             c.profiles[profile].policies[k] = i
                        /\ MatchesEitherWay(c.policies[i], p)}
      exact == {i \in listed : c.policies[i].proto = p.proto}
      pin == pins[g][FlowKey(p)]
  IN (IF exact # {} THEN exact ELSE listed)
     \cup (IF p.proto = "tcp" /\ pin # 0 /\ PinUsable(c, pin) THEN {pin} ELSE {})

\* A frame is sealed by a policy its packet is entitled to, or has an excuse for
\* being in the clear.
Covered(f) ==
  LET g == f.from
      c == cfg[g]
      fit == Entitled(g, f.plain) IN
  IF f.sealed # {} THEN \A cp \in f.sealed : \E i \in fit : c.policies[i] = cp
  ELSE \/ ~crypto[g] \/ ~Enabled(c) \/ f.plain.shape = "short"
       \/ \E i \in fit : ~Ready(c, i)
       \/ f.plain.shape = "odd" /\ ~f.plain.big /\ \E i \in fit : c.policies[i].action = 4
       \/ f.plain.looks.magic = "l3frag"
           /\ \E i \in fit : c.policies[i].action = 3 /\ c.policies[i].ns = f.plain.looks.ns

\* Every frame that leaves a gateway is sealed by a policy the packet is entitled
\* to; it leaves in the clear only where encryption is off, where parse_flow finds
\* no whole transport header, where such a policy is a bypass or has no usable
\* key, where it is one of layer 4 and the TCP header's data offset is wrong, or
\* where layer 3 takes the packet's own bytes for a fragment (worker_thread,
\* config_select_crypto_policy, crypto_layer4_encrypt, crypto_layer3_encrypt).
LeavesCovered == [][\A f \in wire' \ wire : Covered(f)]_vars

=============================================================================
