------------------------------ MODULE HotReload ------------------------------
(***************************************************************************)
(* Replacing the configuration of a running forwarder.                     *)
(*                                                                         *)
(* The packet threads of core/forwarder.c (the worker, the WAN and the     *)
(* local queue threads) read fwd->cfg, the per policy crypto contexts, the *)
(* wire id index and the TCP pins without a lock.  The daemon's main       *)
(* thread replaces all of them: apply_active_configs copies the merged     *)
(* configuration into the spare cfg_slots entry and                        *)
(* forwarder_reload_config publishes it, behind a gate made of two         *)
(* atomics, g_reload_pause and g_inflight_packets.                         *)
(*                                                                         *)
(* Data abstractions: a policy is its wire id, action, key and the set of  *)
(* flows it matches, a table's order standing for the two passes of        *)
(* config_select_crypto_policy; a crypto context is the policy it was      *)
(* initialised for; a batch is one packet, because the threads reread      *)
(* every shared variable for each packet of a batch.  Variables marked     *)
(* "ghost" are history, no action's guard reads them.                      *)
(***************************************************************************)
EXTENDS Integers, Sequences, FiniteSets

CONSTANTS
  Workers, WanThreads, LocalThreads,    \* the packet threads
  Flows, TcpFlows,
  Topologies, Actions, Ids, Keys, ZeroKey,
  MaxPolicies,                          \* MAX_CRYPTO_POLICIES
  Configs,                              \* what build_merged_config may return
  InitialConfig,                        \* what forwarder_init was given
  StoreLoadOrdered   \* the pause store is visible before the inflight load

Threads == Workers \cup WanThreads \cup LocalThreads
Bypass == "bypass"
Index == 1 .. MaxPolicies
Policy == [id : Ids \cup {0}, action : Actions \cup {Bypass},
           key : Keys \cup {ZeroKey}, match : SUBSET Flows]
\* The bytes of an unused struct crypto_policy: action 0 is BYPASS.
NoPolicy == [id |-> 0, action |-> Bypass, key |-> ZeroKey, match |-> {}]
Config == [topology : Topologies, policies : Seq(Policy), profile_count : Nat]

ASSUME ThreadsAssumption ==
  /\ IsFiniteSet(Threads)
  /\ Workers \cap WanThreads = {}
  /\ Workers \cap LocalThreads = {}
  /\ WanThreads \cap LocalThreads = {}
ASSUME PolicyAssumption ==
  /\ TcpFlows \subseteq Flows /\ "none" \notin Flows
  /\ MaxPolicies \in Nat
  /\ Bypass \notin Actions
  /\ 0 \notin Ids
  /\ StoreLoadOrdered \in BOOLEAN
\* append_policy_unique gives every policy a wire id, keeps them distinct and
\* bounds the table.
ASSUME ConfigsAssumption ==
  /\ Configs \subseteq Config
  /\ InitialConfig \in Configs
  /\ \A c \in Configs :
       /\ Len(c.policies) <= MaxPolicies
       /\ \A i \in DOMAIN c.policies : c.policies[i].id # 0
       /\ \A i, j \in DOMAIN c.policies :
            c.policies[i].id = c.policies[j].id => i = j

Enabled(c) == c.policies # <<>>
SameTopology(a, b) == a.topology = b.topology
CryptoChanged(a, b) == a.policies # b.policies
ForwardingChanged(a, b) == a.profile_count # b.profile_count
First(S) == IF S = {} THEN 0 ELSE CHOOSE i \in S : \A j \in S : i <= j
PolicyAt(c, i) == IF i \in DOMAIN c.policies THEN c.policies[i] ELSE NoPolicy
Keyed(p) == p.action # Bypass /\ p.key # ZeroKey

VARIABLES
  slots,            \* rt->cfg_slots
  active_slot,      \* rt->active_slot, of the main thread only
  cfg,              \* fwd->cfg, as the slot it points to
  pause,            \* g_reload_pause as the packet threads see it
  pauseBuffered,    \* its store still sits in the main core's store buffer
  inflight,         \* g_inflight_packets
  crypto_enabled,
  ctx, ready,       \* g_policy_crypto_ctx and g_policy_crypto_ctx_ready
  indexById,        \* g_policy_index_by_action_id, 0 for -1
  pin,              \* policy_pi pinned to a flow, 0 for none
  rpc, fill, needCrypto, old,   \* the reload: where it is, its locals
  pc, pkt,          \* the packet threads: where they are, their locals
  failed,           \* ghost: tables entries whose packet_crypto_init failed
  pinned,           \* ghost: the policy a pin was set for, if not in an overlap
  overlap           \* ghost: threads inside when the gate was not used

gate == <<pause, pauseBuffered, inflight>>
runtime == <<crypto_enabled, ctx, ready, indexById, failed>>
pins == <<pin, pinned>>
reload == <<active_slot, rpc, fill, needCrypto, old>>
thread == <<pc, pkt, overlap>>
vars == <<slots, cfg, gate, runtime, pins, reload, thread>>

Crit == {"enqueue", "select", "index", "pin", "send",
         "resolve", "decrypt", "wanpin", "leave"}
Outside == {"idle", "spin", "inc", "check", "undo"}
Counted == {t \in Threads : pc[t] \in Crit \cup {"check", "undo"}}
Inside == {t \in Threads : pc[t] \in Crit}
Exclusive == {"swap", "clear", "fill", "pins", "unpause"}

\* A pointer into a policy table: cp, or &fwd->cfg->policies[pi].
Pointer == [slot : {0, 1}, pi : 0 .. MaxPolicies]
NoPacket == [flow |-> "none", cp |-> [slot |-> 0, pi |-> 0], use |-> 0,
             wire |-> <<Bypass, 0>>, out |-> "none",
             selected |-> NoPolicy, used |-> NoPolicy]
Packet == [flow : Flows \cup {"none"}, cp : Pointer, use : 0 .. MaxPolicies,
           wire : (Actions \cup {Bypass}) \X (Ids \cup {0}),
           out : {"none", "clear", "cipher", "plain", "dropped"},
           selected : Policy, used : Policy]

Current == slots[cfg]
Deref(p) == PolicyAt(slots[p.slot], p.pi)
IndexEmpty == [w \in Actions \X Ids |-> 0]

\* What rebuild_crypto_runtime leaves for a table of which no init fails.
KeyedIndices(c) == {i \in DOMAIN c.policies : Keyed(c.policies[i])}
IndexFor(c, S) ==
  [w \in Actions \X Ids |->
     LET hits == {i \in S : c.policies[i].action = w[1] /\ c.policies[i].id = w[2]}
     IN First(hits)]

\* forwarder_init was called with InitialConfig; slot 1 is still zeroed, which
\* nothing reads before apply_active_configs fills it.
Init ==
  /\ slots = [s \in {0, 1} |-> InitialConfig]
  /\ active_slot = 0 /\ cfg = 0
  /\ pause = FALSE /\ pauseBuffered = FALSE /\ inflight = 0
  /\ crypto_enabled = Enabled(InitialConfig)
  /\ ctx = [i \in Index |-> IF i \in KeyedIndices(InitialConfig)
                            THEN InitialConfig.policies[i] ELSE NoPolicy]
  /\ ready = [i \in Index |-> i \in KeyedIndices(InitialConfig)]
  /\ indexById = IndexFor(InitialConfig, KeyedIndices(InitialConfig))
  /\ failed = {}
  /\ pin = [f \in Flows |-> 0] /\ pinned = [f \in Flows |-> NoPolicy]
  /\ rpc = "idle" /\ fill = 1 /\ needCrypto = FALSE /\ old = {}
  /\ pc = [t \in Threads |-> "idle"]
  /\ pkt = [t \in Threads |-> NoPacket]
  /\ overlap = {}

-----------------------------------------------------------------------------
(* packet_critical_enter and packet_critical_leave *)

FirstStep(t) == IF t \in Workers THEN "select"
                ELSE IF t \in WanThreads THEN "resolve" ELSE "enqueue"

\* Wrong variants of the definitions that follow them, used by no action: with
\* one in its place a property of this module fails (see README.md).
EnterUnchecked == TRUE
UndoNothing == inflight

Admitted == ~pause
Undone == inflight - 1
AfterUndo(t) == "spin"

\* A packet arrived: the thread calls packet_critical_enter.
Arrive(t) ==
  /\ pc[t] = "idle"
  /\ pc' = [pc EXCEPT ![t] = "spin"]
  /\ UNCHANGED <<slots, cfg, gate, runtime, pins, reload, pkt, overlap>>

\* while (g_reload_pause) sched_yield()
Spin(t) ==
  /\ pc[t] = "spin" /\ ~pause
  /\ pc' = [pc EXCEPT ![t] = "inc"]
  /\ UNCHANGED <<slots, cfg, gate, runtime, pins, reload, pkt, overlap>>

Increment(t) ==
  /\ pc[t] = "inc"
  /\ inflight' = inflight + 1
  /\ pc' = [pc EXCEPT ![t] = "check"]
  /\ UNCHANGED <<slots, cfg, pause, pauseBuffered, runtime, pins, reload, pkt, overlap>>

\* The second look at g_reload_pause: in, or back out.
Recheck(t) ==
  /\ pc[t] = "check"
  /\ pc' = [pc EXCEPT ![t] = IF Admitted THEN FirstStep(t) ELSE "undo"]
  /\ UNCHANGED <<slots, cfg, gate, runtime, pins, reload, pkt, overlap>>

Undo(t) ==
  /\ pc[t] = "undo"
  /\ inflight' = Undone
  /\ pc' = [pc EXCEPT ![t] = AfterUndo(t)]
  /\ UNCHANGED <<slots, cfg, pause, pauseBuffered, runtime, pins, reload, pkt, overlap>>

Leave(t) ==
  /\ pc[t] = "leave"
  /\ inflight' = inflight - 1
  /\ pc' = [pc EXCEPT ![t] = "idle"]
  /\ pkt' = [pkt EXCEPT ![t] = NoPacket]
  /\ overlap' = overlap \ {t}
  /\ UNCHANGED <<slots, cfg, pause, pauseBuffered, runtime, pins, reload>>

\* local_queue_thread_l3l4: hands its packets to the worker's ring.
Enqueue(t) ==
  /\ pc[t] = "enqueue"
  /\ pc' = [pc EXCEPT ![t] = "leave"]
  /\ UNCHANGED <<slots, cfg, gate, runtime, pins, reload, pkt, overlap>>

-----------------------------------------------------------------------------
(* worker_thread: one packet towards a WAN *)

\* A step of a thread inside the critical section that only moves its packet.
Step(t, from, to, p) ==
  /\ pc[t] = from
  /\ pc' = [pc EXCEPT ![t] = to]
  /\ pkt' = [pkt EXCEPT ![t] = p]
  /\ UNCHANGED <<slots, cfg, gate, runtime, reload, overlap>>

\* config_select_crypto_policy: the first policy of the table that matches.
Select(c, f) ==
  LET hits == {i \in DOMAIN c.policies : f \in c.policies[i].match}
  IN First(hits)

\* tcp_policy_pin_lookup accepts the pin of f.
PinValid(f) ==
  /\ pin[f] \in DOMAIN Current.policies
  /\ Current.policies[pin[f]].action = Bypass \/ ready[pin[f]]

\* A packet that is not IPv4 is sent as it is; set_wan_l2_addrs may fail, here
\* and before every other send, and drops the packet.
WorkerNonIp(t) ==
  /\ \E out \in {"clear", "dropped"} :
       Step(t, "select", "leave", [pkt[t] EXCEPT !.out = out])
  /\ UNCHANGED pins

WorkerCryptoOff(t, f) ==
  /\ ~crypto_enabled
  /\ \E out \in {"clear", "dropped"} :
       Step(t, "select", "leave", [pkt[t] EXCEPT !.flow = f, !.out = out])
  /\ UNCHANGED pins

\* The pinned policy, else the selected one; without either the packet is
\* dropped, unless the table is empty.
WorkerSelect(t, f) ==
  LET pinHit == f \in TcpFlows /\ PinValid(f)
      pi == IF pinHit THEN pin[f] ELSE Select(Current, f)
      stale == f \in TcpFlows /\ pin[f] # 0 /\ ~pinHit
  IN /\ crypto_enabled
     /\ IF pi = 0
        THEN Step(t, "select", "leave",
                  [pkt[t] EXCEPT !.flow = f,
                     !.out = IF Enabled(Current) THEN "dropped" ELSE "clear"])
        ELSE Step(t, "select", "index",
                  [pkt[t] EXCEPT !.flow = f, !.cp = [slot |-> cfg, pi |-> pi],
                                 !.selected = PolicyAt(Current, pi)])
     /\ pin' = IF stale THEN [pin EXCEPT ![f] = 0] ELSE pin
     /\ pinned' = IF stale THEN [pinned EXCEPT ![f] = NoPolicy] ELSE pinned

\* (int)(cp - fwd->cfg->policies): undefined once fwd->cfg is the other slot.
\* 0 stands for every value outside the table.
PointerIndex(p) == IF p.slot = cfg THEN {p.pi} ELSE 0 .. MaxPolicies

\* Chooses the context and, unless the packet bypasses, sets the thread's own
\* parameters and wire id from the policy (crypto_apply_from_policy).
WorkerIndex(t) ==
  LET p == pkt[t]
      policy == Deref(p.cp)
  IN /\ \E pi \in PointerIndex(p.cp) :
          LET encrypts == /\ policy.action # Bypass
                          /\ pi \in Index /\ ready[pi]
          IN Step(t, "index", "pin",
                  IF encrypts
                  THEN [p EXCEPT !.use = pi, !.wire = <<policy.action, policy.id>>]
                  ELSE [p EXCEPT !.use = 0])
     /\ UNCHANGED pins

\* tcp_policy_pin_set for the policy just used.
WorkerPin(t) ==
  LET p == pkt[t]
  IN /\ Step(t, "pin", "send", p)
     /\ \E pi \in PointerIndex(p.cp) :
          IF /\ crypto_enabled /\ p.flow \in TcpFlows
             /\ pi \in DOMAIN Current.policies
             /\ \/ Deref(p.cp).action = Bypass
                \/ p.use # 0 /\ ready[pi]
          THEN /\ pin' = [pin EXCEPT ![p.flow] = pi]
               /\ pinned' = [pinned EXCEPT ![p.flow] =
                               IF t \in overlap THEN NoPolicy ELSE p.selected]
          ELSE UNCHANGED pins

\* Sends: in clear when it bypasses, else encrypted with the context; a FIN or
\* RST that was encrypted unpins its flow.
WorkerSend(t) ==
  LET p == pkt[t]
  IN \/ /\ p.use = 0
        /\ Step(t, "send", "leave", [p EXCEPT !.out = "clear"])
        /\ UNCHANGED pins
     \/ /\ p.use # 0 /\ Deref(p.cp).action # Bypass
        /\ Step(t, "send", "leave", [p EXCEPT !.out = "cipher", !.used = ctx[p.use]])
        /\ \/ UNCHANGED pins
           \/ /\ crypto_enabled /\ p.flow \in TcpFlows
              /\ pin' = [pin EXCEPT ![p.flow] = 0]
              /\ pinned' = [pinned EXCEPT ![p.flow] = NoPolicy]
     \/ /\ Step(t, "send", "leave", [p EXCEPT !.out = "dropped"])
        /\ UNCHANGED pins

-----------------------------------------------------------------------------
(* wan_queue_thread_l3l4: one packet from a WAN *)

\* lookup_policy_index: the index when it names an entry, else a scan.
LookupPolicyIndex(c, w) ==
  LET hits == {i \in DOMAIN c.policies :
                 c.policies[i].action = w[1] /\ c.policies[i].id = w[2]}
  IN IF indexById[w] \in DOMAIN c.policies THEN indexById[w] ELSE First(hits)

\* policy_index_from_action_id_current
CurrentIndex(w) ==
  IF indexById[w] \in DOMAIN Current.policies /\ ready[indexById[w]]
  THEN indexById[w] ELSE 0

\* No wire id on the packet, or crypto is off: forwarded as it is.
WanPlain(t) ==
  /\ Step(t, "resolve", "leave", [pkt[t] EXCEPT !.out = "clear"])
  /\ UNCHANGED pins

\* The policy whose action and wire id the packet carries; without a ready
\* context the packet is dropped.
WanResolve(t, w) ==
  LET pi == LookupPolicyIndex(Current, w)
      wanPkt == [pkt[t] EXCEPT !.wire = w]
  IN /\ crypto_enabled
     /\ IF pi # 0 /\ ready[pi]
        THEN Step(t, "resolve", "decrypt",
                  [wanPkt EXCEPT !.use = pi, !.cp = [slot |-> cfg, pi |-> pi],
                                 !.selected = PolicyAt(Current, pi)])
        ELSE Step(t, "resolve", "leave", [wanPkt EXCEPT !.out = "dropped"])
     /\ UNCHANGED pins

\* Decrypts with the context, which fails for data of another key.
WanDecrypt(t) ==
  /\ \/ Step(t, "decrypt", "wanpin",
             [pkt[t] EXCEPT !.out = "plain", !.used = ctx[pkt[t].use]])
     \/ Step(t, "decrypt", "leave", [pkt[t] EXCEPT !.out = "dropped"])
  /\ UNCHANGED pins

\* Pins the decrypted flow to the policy that its wire id names, which is read
\* from the buffer that was decrypted in place: it may be any one, or none.
WanPin(t, f) ==
  /\ Step(t, "wanpin", "leave", [pkt[t] EXCEPT !.flow = f])
  /\ \/ UNCHANGED pins
     \/ \E w \in Actions \X Ids :
          LET pi == CurrentIndex(w)
          IN /\ pi # 0 /\ f \in TcpFlows /\ crypto_enabled
             /\ pin' = [pin EXCEPT ![f] = pi]
             /\ pinned' = [pinned EXCEPT ![f] =
                             IF t \in overlap THEN NoPolicy ELSE PolicyAt(Current, pi)]

\* gc_thread, outside the gate: a pin not used for 120 s goes.
PinExpires(f) ==
  /\ crypto_enabled /\ pin[f] # 0
  /\ pin' = [pin EXCEPT ![f] = 0]
  /\ pinned' = [pinned EXCEPT ![f] = NoPolicy]
  /\ UNCHANGED <<slots, cfg, gate, runtime, reload, thread>>

-----------------------------------------------------------------------------
(* The main thread: apply_active_configs and forwarder_reload_config *)

\* Wrong variants: the live slot is overwritten, only the counts are compared,
\* a reset or the reopening is missing.
SlotInUse == active_slot
KeepPins == pin
StayClosed == pause

next_slot == 1 - active_slot
Drained == inflight = 0
ClearedIndex == IndexEmpty
ClearedPins == [f \in Flows |-> 0]
Reopened == FALSE

\* The merged configuration is copied into the spare slot, without the gate.
Apply(c) ==
  /\ rpc = "idle"
  /\ slots' = [slots EXCEPT ![next_slot] = c]
  /\ rpc' = "check"
  /\ UNCHANGED <<cfg, gate, runtime, pins, thread, active_slot, fill, needCrypto, old>>

\* "topology changed; hot reload rejected"
ReloadRejected ==
  /\ rpc = "check" /\ ~SameTopology(Current, slots[next_slot])
  /\ rpc' = "idle"
  /\ UNCHANGED <<slots, cfg, gate, runtime, pins, thread, active_slot, fill, needCrypto, old>>

OnlyCountsCompared == /\ Len(Current.policies) = Len(slots[next_slot].policies)
                      /\ ~ForwardingChanged(Current, slots[next_slot])
NothingChanged ==
  /\ ~CryptoChanged(Current, slots[next_slot])
  /\ ~ForwardingChanged(Current, slots[next_slot])

\* Neither the policies nor the counts differ: swapped without the gate.
ReloadFast ==
  /\ rpc = "check" /\ SameTopology(Current, slots[next_slot]) /\ NothingChanged
  /\ cfg' = next_slot
  /\ active_slot' = next_slot
  /\ rpc' = "idle"
  /\ overlap' = Inside
  /\ UNCHANGED <<slots, gate, runtime, pins, pc, pkt, fill, needCrypto, old>>

\* The release store of g_reload_pause: a machine that lets the load of
\* g_inflight_packets pass it (x86) shows it to the threads later.
ReloadPause ==
  /\ rpc = "check" /\ SameTopology(Current, slots[next_slot]) /\ ~NothingChanged
  /\ needCrypto' = CryptoChanged(Current, slots[next_slot])
  /\ IF StoreLoadOrdered THEN pause' = TRUE /\ UNCHANGED pauseBuffered
                         ELSE pauseBuffered' = TRUE /\ UNCHANGED pause
  /\ rpc' = "drain"
  /\ UNCHANGED <<slots, cfg, inflight, runtime, pins, thread, active_slot, fill, old>>

FlushPause ==
  /\ pauseBuffered
  /\ pause' = TRUE /\ pauseBuffered' = FALSE
  /\ UNCHANGED <<slots, cfg, inflight, runtime, pins, reload, thread>>

\* while (g_inflight_packets > 0) sched_yield()
ReloadDrain ==
  /\ rpc = "drain" /\ Drained
  /\ rpc' = "swap"
  /\ UNCHANGED <<slots, cfg, gate, runtime, pins, thread, active_slot, fill, needCrypto, old>>

\* Stores leave the buffer in order, so this one waits for the pause.
ReloadSwap ==
  /\ rpc = "swap" /\ ~pauseBuffered
  /\ cfg' = next_slot
  /\ crypto_enabled' = Enabled(slots[next_slot])
  /\ rpc' = IF Enabled(slots[next_slot]) /\ needCrypto THEN "clear" ELSE "unpause"
  /\ UNCHANGED <<slots, gate, ctx, ready, indexById, failed, pins, thread,
                 active_slot, fill, needCrypto, old>>

\* rebuild_crypto_runtime, first half: keep what was ready, empty the tables.
RebuildClear ==
  /\ rpc = "clear"
  /\ old' = {ctx[i] : i \in {j \in Index : ready[j]}}
  /\ ready' = [i \in Index |-> FALSE]
  /\ indexById' = ClearedIndex
  /\ failed' = {}
  /\ fill' = 1 /\ rpc' = "fill"
  /\ UNCHANGED <<slots, cfg, gate, crypto_enabled, ctx, pins, thread,
                 active_slot, needCrypto>>

\* Its loop, one policy a step: an unchanged policy keeps its context, another
\* gets a new one unless packet_crypto_init fails.
RebuildPolicy(initOk) ==
  LET p == Current.policies[fill]
      w == <<p.action, p.id>>
      built == Keyed(p) /\ (p \in old \/ initOk)
  IN /\ rpc = "fill" /\ fill \in DOMAIN Current.policies
     /\ ctx' = IF built THEN [ctx EXCEPT ![fill] = p] ELSE ctx
     /\ ready' = IF built THEN [ready EXCEPT ![fill] = TRUE] ELSE ready
     /\ indexById' = IF built /\ indexById[w] = 0
                     THEN [indexById EXCEPT ![w] = fill] ELSE indexById
     /\ failed' = IF Keyed(p) /\ ~built THEN failed \cup {fill} ELSE failed
     /\ fill' = fill + 1
     /\ UNCHANGED <<slots, cfg, gate, crypto_enabled, pins, thread,
                    active_slot, rpc, needCrypto, old>>

RebuildDone ==
  /\ rpc = "fill" /\ fill \notin DOMAIN Current.policies
  /\ rpc' = "pins"
  /\ old' = {} /\ fill' = 1
  /\ UNCHANGED <<slots, cfg, gate, runtime, pins, thread, active_slot, needCrypto>>

\* tcp_policy_pin_clear_all
ClearPins ==
  /\ rpc = "pins"
  /\ pin' = ClearedPins
  /\ pinned' = [f \in Flows |-> IF ClearedPins[f] = 0 THEN NoPolicy ELSE pinned[f]]
  /\ rpc' = "unpause"
  /\ UNCHANGED <<slots, cfg, gate, runtime, thread, active_slot, fill, needCrypto, old>>

\* Opens the gate; the caller then makes the slot the active one.
ReloadUnpause ==
  /\ rpc = "unpause"
  /\ pause' = Reopened
  /\ active_slot' = next_slot
  /\ needCrypto' = FALSE
  /\ rpc' = "idle"
  /\ UNCHANGED <<slots, cfg, pauseBuffered, inflight, runtime, pins, thread, fill, old>>

-----------------------------------------------------------------------------
Enter(t) == Spin(t) \/ Increment(t) \/ Recheck(t) \/ Undo(t)

Worker(t) ==
  \/ WorkerNonIp(t)
  \/ \E f \in Flows : WorkerCryptoOff(t, f) \/ WorkerSelect(t, f)
  \/ WorkerIndex(t) \/ WorkerPin(t) \/ WorkerSend(t)

Wan(t) ==
  \/ WanPlain(t)
  \/ \E w \in Actions \X Ids : WanResolve(t, w)
  \/ WanDecrypt(t)
  \/ \E f \in Flows : WanPin(t, f)

Thread(t) ==
  \/ Enter(t) \/ Leave(t)
  \/ t \in Workers /\ Worker(t)
  \/ t \in WanThreads /\ Wan(t)
  \/ t \in LocalThreads /\ Enqueue(t)

Reload ==
  \/ ReloadRejected \/ ReloadFast \/ ReloadPause \/ ReloadDrain \/ ReloadSwap
  \/ RebuildClear \/ (\E initOk \in BOOLEAN : RebuildPolicy(initOk)) \/ RebuildDone
  \/ ClearPins \/ ReloadUnpause

Next ==
  \/ \E t \in Threads : Arrive(t) \/ Thread(t)
  \/ \E f \in Flows : PinExpires(f)
  \/ \E c \in Configs : Apply(c)
  \/ Reload
  \/ FlushPause

Spec == Init /\ [][Next]_vars

\* The kernel runs every runnable thread, and a store buffer drains.
Fairness ==
  /\ \A t \in Threads : WF_vars(Thread(t))
  /\ WF_vars(Reload)
  /\ WF_vars(FlushPause)

FairSpec == Spec /\ Fairness

-----------------------------------------------------------------------------
(* Properties *)

SlotType == slots \in [{0, 1} -> Configs] /\ cfg \in {0, 1}
GateType == pause \in BOOLEAN /\ pauseBuffered \in BOOLEAN /\ inflight \in Nat
RuntimeType ==
  /\ crypto_enabled \in BOOLEAN
  /\ ctx \in [Index -> Policy] /\ ready \in [Index -> BOOLEAN]
  /\ indexById \in [Actions \X Ids -> 0 .. MaxPolicies]
  /\ failed \subseteq Index
PinType == pin \in [Flows -> 0 .. MaxPolicies] /\ pinned \in [Flows -> Policy]
ReloadType ==
  /\ active_slot \in {0, 1}
  /\ rpc \in {"idle", "check", "drain"} \cup Exclusive
  /\ fill \in 1 .. (MaxPolicies + 1) /\ needCrypto \in BOOLEAN
  /\ old \subseteq Policy
ThreadType ==
  /\ pc \in [Threads -> Outside \cup Crit]
  /\ pkt \in [Threads -> Packet]
  /\ overlap \subseteq Threads

\* Each variable holds what its C counterpart may: above all the in-flight count
\* is never decremented below zero, and no index leaves the policy table.
TypeOK ==
  /\ SlotType /\ GateType /\ RuntimeType
  /\ PinType /\ ReloadType /\ ThreadType

\* g_inflight_packets is exactly the number of threads between their increment
\* and their decrement, whatever the back-outs of packet_critical_enter and the
\* reloads in between: neither leaks, which would block every later reload, nor
\* is short, which would open the gate early.
InflightCounts == inflight = Cardinality(Counted)

\* From the end of the drain to the reopening of the gate no thread is inside:
\* forwarder_reload_config has the configuration and the runtime to itself.
ReloadExclusion == rpc \in Exclusive => Inside = {}

\* Except while a reload rebuilds them, the contexts, their ready flags and the
\* wire id index are those of the configuration fwd->cfg points to.
ContextsOfConfig ==
  crypto_enabled /\ rpc \notin {"clear", "fill"} =>
    LET built == KeyedIndices(Current) \ failed
    IN /\ \A i \in Index : ready[i] <=> i \in built
       /\ \A i \in built : ctx[i] = Current.policies[i]
       /\ indexById = IndexFor(Current, built)

\* A packet that worker_thread encrypts is encrypted with the context of the
\* policy it was selected for and carries that policy's wire id, although it
\* goes through a pointer, an index computed from fwd->cfg and a thread local.
\* (A thread caught inside by an ungated swap has no such guarantee.)
EncryptedAsSelected ==
  \A t \in Workers \ overlap :
    pkt[t].out = "cipher" =>
      /\ pkt[t].used = pkt[t].selected
      /\ pkt[t].wire = <<pkt[t].selected.action, pkt[t].selected.id>>
      /\ \E i \in DOMAIN Current.policies : Current.policies[i] = pkt[t].selected

\* An IPv4 packet leaves in clear only when its policy says so, has no key or
\* could not be initialised, or when the configuration has no policy at all:
\* never because a reload had emptied the ready flags.
ClearOnlyByPolicy ==
  \A t \in Workers \ overlap :
    pkt[t].out = "clear" /\ pkt[t].flow \in Flows =>
      IF pkt[t].selected = NoPolicy THEN ~Enabled(Current)
      ELSE ~Keyed(pkt[t].selected) \/ pkt[t].cp.pi \in failed

\* A packet from a WAN is decrypted with the context of the policy that the
\* running configuration gives the wire id and action on the packet.
DecryptedByWireId ==
  \A t \in WanThreads \ overlap :
    pkt[t].out = "plain" =>
      /\ <<pkt[t].used.action, pkt[t].used.id>> = pkt[t].wire
      /\ \E i \in DOMAIN Current.policies : Current.policies[i] = pkt[t].used

\* A TCP pin is an index into the policy table; it still denotes the policy it
\* was set for, through every reload that reorders or replaces the table.
PinsCurrent ==
  crypto_enabled /\ rpc \notin {"clear", "fill", "pins"} =>
    \A f \in Flows :
      pinned[f] # NoPolicy => PolicyAt(Current, pin[f]) = pinned[f]

\* What the threads consult beside fwd->cfg belongs to it: the contexts, their
\* flags, the wire id index and the TCP pins.
RuntimeOfConfig == ContextsOfConfig /\ PinsCurrent

\* What becomes of a packet, on its way out or in, is what its policy says, however
\* the reads of fwd->cfg, the contexts and the pins fall among the reloads.
PacketsByPolicy == EncryptedAsSelected /\ ClearOnlyByPolicy /\ DecryptedByWireId

\* The gate keeps the promises of ConfigGuard: what the threads inside work
\* with is exchanged only while none is inside, or for the same policies.
Guard == INSTANCE ConfigGuard WITH config <- Current, inside <- Inside
GuardSpec == Guard!Spec

\* Every reload returns: the threads that the closed gate finds inside leave,
\* and those that keep trying to enter back out.
ReloadCompletes == rpc # "idle" ~> rpc = "idle"

\* A thread with a packet gets in, unless reloads never stop: no back-out and
\* no reload leaves the gate shut behind it.
PacketEnters ==
  <>[](rpc = "idle") =>
    \A t \in Threads : pc[t] = "spin" ~> pc[t] \in Crit

=============================================================================
