------------------------------- MODULE Bringup --------------------------------
(***************************************************************************)
(* Bring-up and tear-down of the interfaces: forwarder_init with           *)
(* interface_init_local, interface_init_wan_rx and every error path,       *)
(* interface_cleanup, the two XDP programs with their maps, the filter     *)
(* maps that forwarder_init and a hot reload write, main's detach after    *)
(* the join, and what a process that is killed leaves in the kernel.       *)
(*                                                                         *)
(* Three actors: the forwarder thread brings up and tears down, main       *)
(* reloads and writes filters at any time from the thread's creation on,   *)
(* also during the bring-up, and stops; the kernel keeps an attached       *)
(* program and its maps beyond the process, but no socket.                 *)
(*                                                                         *)
(* A reload of other interfaces is rejected; that the second one while      *)
(* forwarder_init runs puts them into the slot that forwarder_init reads is *)
(* left out.                                                                *)
(*                                                                         *)
(* Data abstractions: the one queue of each interface (the count is 1) is  *)
(* its buffer, umem and socket; a detach always succeeds; a packet is of a *)
(* kind; a configuration is what its policies say, the profiles' lists of  *)
(* them, whether there are policies (crypto_enabled, and then there is a   *)
(* fake_ethertype_ipv4) and whether one encrypts at layer 2; a filter map  *)
(* holds a configuration, nothing yet, or parts of two (Torn).  The packet *)
(* gate of a reload is in HotReload, stop and join in Daemon, ARP in       *)
(* ArpCache.                                                               *)
(***************************************************************************)
EXTENDS Integers, Sequences, SequencesExt

CONSTANTS
  Ifaces,       \* names of interfaces
  Topologies,   \* [lans, wans]: the sequences that configurations may name
  Configs,      \* [policies, lists, enabled, l2]
  None, Torn,   \* contents of a filter map
  MaxBundles,   \* MAX_INTERFACES
  MaxReloads,   \* bound: reloads in one process
  MaxProcesses  \* bound: processes one after the other

ASSUME BringupAssumption ==
  /\ Topologies \subseteq [lans : Seq(Ifaces), wans : Seq(Ifaces)]
  /\ \A t \in Topologies : IsInjective(t.lans \o t.wans)
  /\ {None, Torn} \intersect Configs = {}
  /\ \A c \in Configs : {c.enabled, c.l2} \subseteq BOOLEAN /\ (c.l2 => c.enabled)
  /\ MaxBundles \in Nat /\ MaxReloads \in Nat /\ MaxProcesses \in Nat \ {0}

VARIABLES
  topo,         \* the topology of the configuration
  slot0,        \* what cfg_slots[0] holds, which forwarder_init is given
  enabled,      \* crypto_enabled, one for the process
  l2,           \* has_encrypt_l2 of forwarder_init
  cfg,          \* fwd->cfg, None before forwarder_init
  at, stage,    \* the forwarder thread: its phase, and how far in it
  n,            \* how many interfaces are up, LANs first: local_count + wan_count
  todo,         \* interfaces still to be cleaned up
  held,         \* what each struct xsk_interface will delete: queue_count is 1
  live,         \* what is allocated: pairs of an interface and a kind of resource
  open,         \* interfaces whose BPF object is open
  bundles,      \* the encrypt_*_map_fds: interfaces in the order they registered
  push,         \* interface_push_encrypt_filters of init and main: next bundle, contents
  filters,      \* what the filter maps of each object hold
  prog,         \* the XDP program of each interface: the process it is from, its role
  mapped,       \* interfaces whose xsks_map has a socket
  marked,       \* WANs whose wan_config_map has the fake ethertype
  stop,         \* ~running
  reloads, processes,
  twice, broken,  \* ghosts: what was deleted twice; the LAN whose attach failed
  spoiled,        \* ghost: filters cannot be the last ones
  unset,          \* ghost: WANs whose wan_config_map could not be written
  plain           \* ghost: a reload took all policies away during the bring-up

vars == <<topo, slot0, enabled, l2, cfg, at, stage, n, todo, held, live, open, bundles,
          push, filters, prog, mapped, marked, stop, reloads, processes, twice, broken,
          spoiled, unset, plain>>

resources == <<held, live, mapped, open, twice>>
marks == <<marked, unset>>
kernel == <<prog, marks>>
writing == <<bundles, push, filters, spoiled>>
fixed == <<topo, slot0, enabled, l2, cfg, stop, reloads, processes, plain>>

Kinds == {"bufs", "umem", "xsk"}
NoProg == [by |-> 0, role |-> "none"]
Idle == [next |-> 0, with |-> None]
Order == topo.lans \o topo.wans
Named == Range(Order)
IsLan(i) == i \in Range(topo.lans)
Of(i) == {<<i, kind>> : kind \in Kinds}

-----------------------------------------------------------------------------
(* The XDP programs. *)

\* xdp_redirect_prog: without a socket the packet goes up the stack.
XdpLan(i, packet) ==
  IF packet \in {"tcp", "udp"} /\ i \in mapped THEN "redirect" ELSE "pass"

\* Wrong variant, used by no action: the marker alone counts.
XdpWanMarker(i, packet) ==
  IF packet \in {"tcp", "udp", "ipv4", "marked"}
  THEN IF i \in mapped THEN "redirect" ELSE "drop"
  ELSE "pass"

\* xdp_wan_redirect_prog: without a socket the packet is dropped.
XdpWan(i, packet) ==
  IF packet \in {"tcp", "udp", "ipv4"} \/ (packet = "marked" /\ i \in marked)
  THEN IF i \in mapped THEN "redirect" ELSE "drop"
  ELSE "pass"

Packets == {"arp", "icmp", "ipv6", "tcp", "udp", "ipv4", "marked"}

Verdict(i, packet) ==
  CASE prog[i].role = "none" -> "pass"
    [] prog[i].role = "lan" -> XdpLan(i, packet)
    [] prog[i].role = "wan" -> XdpWan(i, packet)

-----------------------------------------------------------------------------
NoPush == [who \in {"init", "main"} |-> Idle]
NoFilters == [i \in Ifaces |-> None]

Init ==
  /\ topo \in Topologies /\ slot0 \in Configs /\ enabled = FALSE /\ l2 = FALSE /\ cfg = None
  /\ at = "none" /\ stage = "check" /\ n = 0 /\ todo = <<>>
  /\ held = {} /\ live = {} /\ open = {} /\ bundles = <<>>
  /\ push = NoPush /\ filters = NoFilters /\ mapped = {}
  /\ prog = [i \in Ifaces |-> NoProg] /\ marked = {}
  /\ stop = FALSE /\ reloads = 0 /\ processes = 1
  /\ twice = {} /\ broken = {} /\ spoiled = FALSE /\ unset = {} /\ plain = FALSE

Detached(S) == [i \in Ifaces |-> IF i \in S THEN NoProg ELSE prog[i]]

-----------------------------------------------------------------------------
(* forwarder_init, an interface at a time. *)

\* Wrong variant, used by no action: programs of an earlier process stay.
BeginAttached ==
  /\ at = "none" /\ ~stop
  /\ cfg' = slot0 /\ at' = "conf" /\ bundles' = <<>>
  /\ UNCHANGED <<topo, slot0, enabled, l2, stage, n, todo, resources, push, filters,
                 kernel, stop, reloads, processes, broken, spoiled, plain>>

\* The configuration is published, every interface it names is detached, the
\* maps' table emptied.
Begin ==
  /\ at = "none" /\ ~stop
  /\ cfg' = slot0 /\ at' = "conf" /\ bundles' = <<>> /\ prog' = Detached(Named)
  /\ UNCHANGED <<topo, slot0, enabled, l2, stage, n, todo, resources, push, filters,
                 marks, stop, reloads, processes, broken, spoiled, plain>>

\* The crypto state.  Main may have rewritten the slot, and crypto_enabled, since.
\* A policy whose context cannot be initialised does not count for has_encrypt_l2.
Configure ==
  /\ at = "conf"
  /\ enabled' = slot0.enabled
  /\ l2' \in {FALSE, slot0.l2}
  /\ at' = "up"
  /\ UNCHANGED <<topo, slot0, cfg, stage, n, todo, resources, writing, kernel, stop,
                 reloads, processes, broken, plain>>

\* packet_crypto_init failed: forwarder_init returns at once.
ConfigureFails ==
  /\ at = "conf" /\ slot0.enabled
  /\ enabled' = TRUE
  /\ at' = "end"
  /\ UNCHANGED <<topo, slot0, l2, cfg, stage, n, todo, resources, writing, kernel, stop,
                 reloads, processes, broken, plain>>

\* forwarder_init does nothing once running is 0.
BeginNot ==
  /\ at = "none" /\ stop
  /\ at' = "end"
  /\ UNCHANGED <<fixed, stage, n, todo, resources, writing, kernel, broken>>

\* The interfaces that are up: WANs, then LANs.
AreUp ==
  LET lans == Len(topo.lans) IN
  SubSeq(Order, lans + 1, n) \o SubSeq(Order, 1, IF n < lans THEN n ELSE lans)

\* err_wans and err_locals
Undo(first) == at' = "undo" /\ stage' = "detach" /\ todo' = first \o AreUp

Current == Order[n + 1]
AtIface(s) == at = "up" /\ stage = s /\ n < Len(Order)

\* forwarder_should_stop before each interface
StopsHere ==
  /\ at \in {"up", "arp"} /\ stage = "check" /\ stop
  /\ Undo(<<>>)
  /\ UNCHANGED <<fixed, n, resources, writing, kernel, broken>>

GoesOn ==
  /\ AtIface("check") /\ ~stop
  /\ stage' = "load"
  /\ UNCHANGED <<fixed, at, n, todo, resources, writing, kernel, broken>>

\* The caller cleans up after a LAN that fails, not after a WAN.
Fails == Undo(IF IsLan(Current) THEN <<Current>> ELSE <<>>)

\* No such interface, no object file, or no program or map in it.
LoadFails ==
  /\ AtIface("load")
  /\ prog' \in {prog, Detached({Current})}
  /\ Fails
  /\ UNCHANGED <<fixed, n, resources, writing, marks, broken>>

\* Wrong variant, used by no action: whatever comes is registered.
RegisteredAlways(i) == Append(bundles, i)

\* register_encrypt_bundle: only xdp_redirect.o has the filter maps.
Registered(i) ==
  IF IsLan(i) /\ Len(bundles) < MaxBundles THEN Append(bundles, i) ELSE bundles

\* wan_fake4 is not 0: forwarder_init looks at crypto_enabled and at the slot's
\* fake_ethertype_ipv4 again for each WAN, while a reload may change both.
MarkWanted == ~IsLan(Current) /\ l2 /\ enabled /\ slot0.enabled

\* The object is new and its wan_config_map 0.  That there is none, or that the
\* update fails, is only a warning.
Load ==
  /\ AtIface("load")
  /\ prog' = Detached({Current})
  /\ open' = open \union {Current}
  /\ bundles' = Registered(Current)
  /\ \/ MarkWanted /\ marked' = marked \union {Current} /\ UNCHANGED unset
     \/ MarkWanted /\ marked' = marked \ {Current} /\ unset' = unset \union {Current}
     \/ ~MarkWanted /\ marked' = marked \ {Current} /\ UNCHANGED unset
  /\ stage' = "bufs"
  /\ UNCHANGED <<fixed, at, n, todo, held, live, mapped, twice, push, filters,
                 broken, spoiled>>

\* A step of the queue's set-up that fails undoes those before it by itself;
\* err_queues finds queue_count 0, detaches and closes the object.
QueueFails ==
  /\ \E s \in {"bufs", "umem", "xsk", "map"} : AtIface(s)
  /\ live' = live \ Of(Current)
  /\ open' = open \ {Current}
  /\ prog' = Detached({Current})
  /\ Fails
  /\ UNCHANGED <<fixed, n, held, mapped, twice, writing, marks, broken>>

Allocate(kind, next) ==
  /\ AtIface(kind)
  /\ live' = live \union {<<Current, kind>>}
  /\ stage' = next
  /\ UNCHANGED <<fixed, at, n, todo, held, mapped, open, twice, writing, kernel, broken>>

\* The socket enters xsks_map, the fill ring is filled, queue_count is 1.
MapSocket ==
  /\ AtIface("map")
  /\ mapped' = mapped \union {Current}
  /\ held' = held \union Of(Current)
  /\ stage' = "attach"
  /\ UNCHANGED <<fixed, at, n, todo, live, open, twice, writing, kernel, broken>>

Attach ==
  /\ AtIface("attach")
  /\ prog' = [prog EXCEPT ![Current] =
       [by |-> processes, role |-> IF IsLan(Current) THEN "lan" ELSE "wan"]]
  /\ n' = n + 1 /\ stage' = "check"
  /\ at' = IF IsLan(Current) /\ n + 1 = Len(topo.lans) THEN "push" ELSE "up"
  /\ push' = IF IsLan(Current) /\ n + 1 = Len(topo.lans)
             THEN [push EXCEPT !["init"] = [next |-> 1, with |-> slot0]] ELSE push
  /\ UNCHANGED <<fixed, todo, resources, bundles, filters, marks, broken, spoiled>>

\* Wrong variant, used by no action: err_queues forgets the queue.
AttachFailsKept ==
  /\ AtIface("attach")
  /\ open' = open \ {Current}
  /\ prog' = Detached({Current})
  /\ broken' = IF IsLan(Current) THEN {Current} ELSE broken
  /\ Fails
  /\ UNCHANGED <<fixed, n, held, live, mapped, twice, writing, marks>>

\* err_queues deletes the queue and leaves queue_count at 1.
AttachFails ==
  /\ AtIface("attach")
  /\ live' = live \ Of(Current)
  /\ mapped' = mapped \ {Current}
  /\ open' = open \ {Current}
  /\ prog' = Detached({Current})
  /\ broken' = IF IsLan(Current) THEN {Current} ELSE broken
  /\ Fails
  /\ UNCHANGED <<fixed, n, held, twice, writing, marks>>

\* The filters are written; ARP on the LANs, which looks at running again.
Pushed ==
  /\ at = "push" /\ push["init"].next = 0
  /\ at' = "arp"
  /\ UNCHANGED <<fixed, stage, n, todo, resources, writing, kernel, broken>>

ArpDone ==
  /\ at = "arp" /\ ~stop
  /\ at' = IF n < Len(Order) THEN "up" ELSE "run"
  /\ UNCHANGED <<fixed, stage, n, todo, resources, writing, kernel, broken>>

\* All WANs are up: ARP on them, then the packet threads.
Run ==
  /\ at = "up" /\ stage = "check" /\ n = Len(Order) /\ ~stop
  /\ at' = "run"
  /\ UNCHANGED <<fixed, stage, n, todo, resources, writing, kernel, broken>>

\* The packet threads are joined; forwarder_cleanup: LANs, then WANs.
Ends ==
  /\ at = "run" /\ stop
  /\ at' = "undo" /\ stage' = "detach" /\ todo' = Order
  /\ UNCHANGED <<fixed, n, resources, writing, kernel, broken>>

-----------------------------------------------------------------------------
(* interface_cleanup *)

CleanUpDetaches ==
  /\ at = "undo" /\ stage = "detach" /\ todo # <<>>
  /\ prog' = Detached({Head(todo)})
  /\ stage' = "delete"
  /\ UNCHANGED <<fixed, at, n, todo, resources, writing, marks, broken>>

\* The queue is deleted if queue_count is 1; the kernel empties the map.
CleanUpDeletes ==
  /\ at = "undo" /\ stage = "delete"
  /\ LET i == Head(todo)
         gone == held \intersect Of(i) IN
       /\ twice' = twice \union (gone \ live)
       /\ live' = live \ gone
       /\ held' = held \ Of(i)
       /\ mapped' = mapped \ {i}
  /\ todo' = Tail(todo) /\ stage' = "detach"
  /\ UNCHANGED <<fixed, at, n, open, writing, kernel, broken>>

CleanedUp ==
  /\ at = "undo" /\ todo = <<>>
  /\ at' = "end" /\ stage' = "check"
  /\ UNCHANGED <<fixed, n, todo, resources, writing, kernel, broken>>

-----------------------------------------------------------------------------
(* interface_push_encrypt_filters, a bundle at a time. *)

Writes(who) ==
  /\ push[who].next \in DOMAIN bundles
  /\ LET i == bundles[push[who].next] IN
       \/ i \in open /\ filters' = [filters EXCEPT ![i] = push[who].with]
                     /\ UNCHANGED spoiled
       \/ \* an update fails: of the first map, or of a later one
          /\ filters' \in {filters, [filters EXCEPT ![i] = Torn]}
          /\ i \notin open => filters' = filters
          /\ spoiled' = TRUE
  /\ push' = [push EXCEPT ![who].next = @ + 1]
  /\ UNCHANGED <<fixed, at, stage, n, todo, resources, bundles, kernel, broken>>

Written(who) ==
  /\ push[who].next > Len(bundles)
  /\ push' = [push EXCEPT ![who] = Idle]
  /\ UNCHANGED <<fixed, at, stage, n, todo, resources, bundles, filters, kernel,
                 broken, spoiled>>

-----------------------------------------------------------------------------
(* main *)

\* crypto_runtime_changed and forwarding_runtime_changed do not look at the
\* profiles' lists.
Changed(c, d) == c.policies # d.policies \/ c.enabled # d.enabled \/ c.l2 # d.l2

BringingUp == at \in {"up", "push", "arp"}

\* Wrong variant, used by no action: the filters are left to the next start.
ReloadKeepsFilters(c) ==
  /\ cfg # None /\ push["main"].next = 0 /\ c # cfg
  /\ reloads < MaxReloads /\ reloads' = reloads + 1
  /\ cfg' = c /\ slot0' = IF reloads % 2 = 1 THEN c ELSE slot0
  /\ enabled' = IF Changed(cfg, c) THEN c.enabled ELSE enabled
  /\ plain' = (plain \/ (BringingUp /\ ~c.enabled))
  /\ UNCHANGED <<topo, l2, at, stage, n, todo, resources, bundles, push, filters,
                 kernel, stop, processes, broken, spoiled>>

\* apply_active_configs fills the slots in turn, forwarder_reload_config takes
\* the new one over and sets crypto_enabled.  Filters written before
\* forwarder_init has written its own will be overwritten.
Reload(c) ==
  /\ cfg # None /\ push["main"].next = 0 /\ c # cfg
  /\ reloads < MaxReloads /\ reloads' = reloads + 1
  /\ cfg' = c /\ slot0' = IF reloads % 2 = 1 THEN c ELSE slot0
  /\ enabled' = IF Changed(cfg, c) THEN c.enabled ELSE enabled
  /\ push' = IF Changed(cfg, c)
             THEN [push EXCEPT !["main"] = [next |-> 1, with |-> c]] ELSE push
  /\ spoiled' = (spoiled \/ (Changed(cfg, c) /\
                 (at \in {"conf", "push"} \/ (at = "up" /\ n < Len(topo.lans)))))
  /\ plain' = (plain \/ (BringingUp /\ ~c.enabled))
  /\ UNCHANGED <<topo, l2, at, stage, n, todo, resources, bundles, filters, kernel,
                 stop, processes, broken>>

\* A signal, or the last profile is deleted.
Stop ==
  /\ ~stop /\ stop' = TRUE
  /\ UNCHANGED <<topo, slot0, enabled, l2, cfg, reloads, processes, plain, at, stage, n,
                 todo, resources, writing, kernel, broken>>

\* runtime_detach_xdp_from_config, after the join
MainDetaches ==
  /\ stop /\ at = "end" /\ push["main"].next = 0
  /\ prog' = Detached(Named)
  /\ UNCHANGED <<fixed, at, stage, n, todo, resources, writing, marks, broken>>

\* The process ends, wherever it is.  Another one begins, with a configuration
\* that may name other interfaces.
Restart ==
  /\ processes < MaxProcesses /\ processes' = processes + 1
  /\ topo' \in Topologies /\ slot0' \in Configs /\ cfg' = None
  /\ enabled' = FALSE /\ l2' = FALSE
  /\ at' = "none" /\ stage' = "check" /\ n' = 0 /\ todo' = <<>>
  /\ held' = {} /\ live' = {} /\ open' = {} /\ bundles' = <<>>
  /\ push' = NoPush /\ filters' = NoFilters /\ mapped' = {}
  /\ stop' = FALSE /\ reloads' = 0
  /\ twice' = {} /\ broken' = {} /\ spoiled' = FALSE /\ unset' = {} /\ plain' = FALSE
  /\ UNCHANGED <<prog, marked>>

-----------------------------------------------------------------------------
BringUp ==
  \/ Begin \/ Configure \/ ConfigureFails \/ BeginNot \/ StopsHere \/ GoesOn \/ LoadFails \/ Load \/ QueueFails
  \/ Allocate("bufs", "umem") \/ Allocate("umem", "xsk") \/ Allocate("xsk", "map")
  \/ MapSocket \/ Attach \/ AttachFails \/ Pushed \/ ArpDone \/ Run

TearDown == Ends \/ CleanUpDetaches \/ CleanUpDeletes \/ CleanedUp

Next ==
  \/ BringUp \/ TearDown \/ Stop \/ MainDetaches \/ Restart
  \/ \E who \in {"init", "main"} : Writes(who) \/ Written(who)
  \/ \E c \in Configs : Reload(c)

Spec == Init /\ [][Next]_vars

-----------------------------------------------------------------------------
TypeOK ==
  /\ topo \in Topologies /\ slot0 \in Configs /\ cfg \in Configs \union {None}
  /\ enabled \in BOOLEAN /\ l2 \in BOOLEAN /\ plain \in BOOLEAN
  /\ at \in {"none", "conf", "up", "push", "arp", "run", "undo", "end"}
  /\ stage \in {"check", "load", "bufs", "umem", "xsk", "map", "attach",
                "detach", "delete"}
  /\ n \in 0 .. Len(Order)
  /\ todo \in Seq(Named)
  /\ held \subseteq Named \X Kinds /\ live \subseteq Named \X Kinds
  /\ open \subseteq Named /\ mapped \subseteq Named
  /\ marked \subseteq Ifaces /\ unset \subseteq Ifaces
  /\ bundles \in Seq(Named) /\ Len(bundles) <= MaxBundles
  /\ push \in [{"init", "main"} -> [next : Nat, with : Configs \union {None}]]
  /\ filters \in [Ifaces -> Configs \union {None, Torn}]
  /\ prog \in [Ifaces -> [by : 0 .. processes, role : {"none", "lan", "wan"}]]
  /\ stop \in BOOLEAN /\ spoiled \in BOOLEAN
  /\ reloads \in 0 .. MaxReloads /\ processes \in 1 .. MaxProcesses
  /\ twice \subseteq Named \X Kinds /\ broken \subseteq Named

Orphan(i) == prog[i].role # "none" /\ prog[i].by # processes

(* No packet is dropped between the program and its socket: a program of    *)
(* this process has a socket as long as it is attached, whatever fails in   *)
(* the bring-up and in whatever order interfaces are cleaned up; what a     *)
(* killed process left drops packets only until forwarder_init is called,   *)
(* or on an interface that is not named any more (sockets enter the map     *)
(* before the attach, and interface_cleanup detaches first).                *)
NoDrops ==
  \A i \in Ifaces, packet \in Packets :
    Verdict(i, packet) = "drop" =>
      Orphan(i) /\ (cfg = None \/ i \notin Named)

(* While the packet threads run every LAN hands its TCP and UDP to them and *)
(* every WAN all of IPv4 but ICMP; ARP, ICMP and IPv6 stay with the kernel  *)
(* (forwarder_init attaches all or fails).  What is marked as encrypted at  *)
(* layer 2 is handed over by every WAN if a policy of the configuration     *)
(* that forwarder_init built says so, and by none if not; but for WANs      *)
(* whose wan_config_map could not be written (only a warning), and when a   *)
(* reload without policies came before all WANs were up: then some WANs of  *)
(* one forwarder may hand such packets over and others not.                 *)
Redirected ==
  at = "run" =>
    \A i \in Named :
      /\ \A packet \in Packets \ {"marked"} :
           Verdict(i, packet) = "redirect" <=>
             packet \in {"tcp", "udp"} \/ (packet = "ipv4" /\ ~IsLan(i))
      /\ Verdict(i, "marked") = "redirect" => ~IsLan(i) /\ l2
      /\ ~IsLan(i) /\ l2 /\ i \notin unset /\ ~plain => Verdict(i, "marked") = "redirect"

(* A bring-up that failed or was stopped at any place, and a forwarder that *)
(* ended, leave nothing: no program attached, no socket, umem or buffer,    *)
(* and nothing deleted twice but the queue of a LAN whose attach failed     *)
(* (err_queues of interface_init_local and its caller both delete it).      *)
NothingLeft ==
  /\ at = "end" =>
       /\ live = {} /\ mapped = {}
       /\ \A i \in Ifaces : prog[i].by # processes
  /\ twice # {} => \E i \in broken : twice \subseteq Of(i)

(* Between two reloads the filter maps of every LAN are those of the        *)
(* policies in force, unless an update failed or the reload came before     *)
(* forwarder_init had written its own.  The profiles' lists in them may be  *)
(* older: a reload that changes only these writes nothing.                  *)
FiltersOfConfig ==
  at \in {"arp", "run"} /\ ~spoiled /\ push["main"].next = 0 /\ push["init"].next = 0 =>
    \A i \in Range(bundles) :
      filters[i] \in Configs /\ ~Changed(filters[i], cfg)

=============================================================================
