--------------------------- MODULE HotReload_proofs ---------------------------
(***************************************************************************)
(* Proofs about HotReload, for every set of threads, flows, policies and   *)
(* configurations.                                                         *)
(***************************************************************************)
EXTENDS HotReload, FiniteSetTheorems, WellFoundedInduction, TLAPS

-----------------------------------------------------------------------------
(* Operators on policy tables *)

\* A set of table indices that is not empty has a least one.
LEMMA LeastExists ==
  ASSUME NEW S \in SUBSET Nat, S # {}
  PROVE  \E i \in S : \A j \in S : i <= j
<1>1. PICK i \in S : \A j \in S : <<j, i>> \notin OpToRel(<, Nat)
  BY WFMin, NatLessThanWellFounded
<1>2. \A j \in S : ~(j < i)
  BY <1>1, Zenon DEF OpToRel
<1> QED
  BY <1>2

\* First returns a member of its argument, or 0.
LEMMA FirstMember ==
  ASSUME NEW S \in SUBSET Nat, S # {}
  PROVE  First(S) \in S /\ \A j \in S : First(S) <= j
<1>1. \E i \in S : \A j \in S : i <= j
  BY LeastExists
<1> QED
  BY <1>1 DEF First


\* An entry of a configuration's table is a policy, whatever the index.
LEMMA PolicyAtType ==
  ASSUME NEW c \in Configs, NEW i
  PROVE  /\ PolicyAt(c, i) \in Policy
         /\ DOMAIN c.policies \subseteq Index
         /\ i \in DOMAIN c.policies => c.policies[i] \in Policy
<1>1. /\ c.policies \in Seq(Policy)
      /\ Len(c.policies) <= MaxPolicies
  BY ConfigsAssumption DEF Config
<1>2. DOMAIN c.policies \subseteq Index
  BY <1>1, PolicyAssumption DEF Index
<1>3. \A j \in DOMAIN c.policies : c.policies[j] \in Policy
  BY <1>1
<1>4. NoPolicy \in Policy
  BY DEF NoPolicy, Policy
<1> QED
  BY <1>2, <1>3, <1>4 DEF PolicyAt

\* The operators that search a table return one of its indices, or 0.
LEMMA SearchType ==
  ASSUME NEW c \in Configs, NEW S \in SUBSET DOMAIN c.policies
  PROVE  First(S) \in 0 .. MaxPolicies /\ (S # {} => First(S) \in S)
<1>1. DOMAIN c.policies \subseteq Index
  BY PolicyAtType
<1>2. CASE S = {}
  BY <1>2, PolicyAssumption DEF First
<1>3. CASE S # {}
  <2>1. S \in SUBSET Nat
    BY <1>1 DEF Index
  <2> QED
    BY <1>1, <1>3, <2>1, FirstMember, PolicyAssumption DEF Index
<1> QED
  BY <1>2, <1>3

\* rebuild_crypto_runtime's index maps every wire id to an entry or to 0 (-1).
LEMMA IndexForType ==
  ASSUME NEW c \in Configs, NEW S \in SUBSET DOMAIN c.policies
  PROVE  IndexFor(c, S) \in [Actions \X Ids -> 0 .. MaxPolicies]
<1> DEFINE hits(w) == {i \in S : c.policies[i].action = w[1] /\ c.policies[i].id = w[2]}
<1>1. \A w \in Actions \X Ids : First(hits(w)) \in 0 .. MaxPolicies
  BY SearchType
<1> QED
  BY <1>1 DEF IndexFor

-----------------------------------------------------------------------------
(* Type correctness and the in-flight count *)

IsCounted(x) == x \in Crit \cup {"check", "undo"}

\* The count follows thread t to x.
Follows(t, x) ==
  \/ (IsCounted(x) <=> IsCounted(pc[t])) /\ inflight' = inflight
  \/ IsCounted(x) /\ ~IsCounted(pc[t]) /\ inflight' = inflight + 1
  \/ ~IsCounted(x) /\ IsCounted(pc[t]) /\ inflight' = inflight - 1

\* A step of one thread that moves the count with it keeps the count exact.
LEMMA CountMoves ==
  ASSUME TypeOK, InflightCounts, NEW t \in Threads, NEW x,
         pc' = [pc EXCEPT ![t] = x],
         Follows(t, x)
  PROVE  InflightCounts' /\ inflight' \in Nat
<1>1. pc \in [Threads -> Outside \cup Crit] /\ inflight \in Nat
  BY DEF TypeOK, ThreadType, GateType
<1>2. IsFiniteSet(Counted)
  BY FS_Subset, ThreadsAssumption DEF Counted
<1>3. IsCounted(pc[t]) <=> t \in Counted
  BY DEF IsCounted, Counted
<1>4. Counted' = IF IsCounted(x) THEN Counted \cup {t} ELSE Counted \ {t}
  BY <1>1 DEF IsCounted, Counted
<1>5. inflight = Cardinality(Counted)
  BY DEF InflightCounts
<1>6. inflight' = Cardinality(Counted')
  <2>1. CASE IsCounted(x)
    <3>1. Cardinality(Counted \cup {t}) =
            IF t \in Counted THEN Cardinality(Counted) ELSE Cardinality(Counted) + 1
      BY <1>2, FS_AddElement
    <3> QED
      BY <1>1, <1>3, <1>4, <1>5, <2>1, <3>1 DEF Follows
  <2>2. CASE ~IsCounted(x)
    <3>1. Cardinality(Counted \ {t}) =
            IF t \in Counted THEN Cardinality(Counted) - 1 ELSE Cardinality(Counted)
      BY <1>2, FS_RemoveElement
    <3> QED
      BY <1>1, <1>3, <1>4, <1>5, <2>2, <3>1 DEF Follows
  <2> QED
    BY <2>1, <2>2
<1>7. Counted' \in SUBSET Threads
  BY DEF Counted
<1>8. Cardinality(Counted') \in Nat
  BY <1>7, FS_Subset, FS_CardinalityType, ThreadsAssumption
<1> QED
  BY <1>6, <1>8 DEF InflightCounts

\* A step that moves no thread leaves it alone.
LEMMA CountStays ==
  ASSUME TypeOK, InflightCounts, UNCHANGED <<pc, inflight>>
  PROVE  InflightCounts' /\ inflight' \in Nat
BY DEF TypeOK, GateType, InflightCounts, Counted


\* A WAN thread that is about to decrypt has a context.
DecryptUse == \A t \in Threads : pc[t] = "decrypt" => pkt[t].use \in Index

IInv == TypeOK /\ InflightCounts /\ DecryptUse

\* What forwarder_init leaves satisfies IInv.
THEOREM InitIInv == Init => IInv
<1> SUFFICES ASSUME Init PROVE IInv
  OBVIOUS
<1>1. InitialConfig \in Configs
  BY ConfigsAssumption
<1>2. KeyedIndices(InitialConfig) \in SUBSET DOMAIN InitialConfig.policies
  BY DEF KeyedIndices
<1>3. \A i : PolicyAt(InitialConfig, i) \in Policy /\ NoPolicy \in Policy
  BY <1>1, PolicyAtType DEF NoPolicy, Policy
<1>4. ctx \in [Index -> Policy] /\ ready \in [Index -> BOOLEAN]
  <2>1. \A i \in KeyedIndices(InitialConfig) : InitialConfig.policies[i] \in Policy
    BY <1>1, <1>2, PolicyAtType
  <2> QED
    BY <1>3, <2>1 DEF Init
<1>5. indexById \in [Actions \X Ids -> 0 .. MaxPolicies]
  BY <1>1, <1>2, IndexForType DEF Init
<1>6. NoPacket \in Packet
  BY <1>3, PolicyAssumption DEF NoPacket, Packet, Pointer
<1>7. TypeOK
  <2>1. SlotType
    <3>1. slots = [i \in {0, 1} |-> InitialConfig] /\ cfg = 0
      BY DEF Init
    <3> QED
      BY <1>1, <3>1 DEF SlotType
  <2>2. GateType
    BY DEF Init, GateType
  <2>3. PinType
    <3>1. pin = [f \in Flows |-> 0] /\ pinned = [f \in Flows |-> NoPolicy]
      BY DEF Init
    <3> QED
      BY <1>3, <3>1, PolicyAssumption DEF PinType
  <2>4. RuntimeType
    <3>1. crypto_enabled \in BOOLEAN /\ failed = {}
      BY DEF Init, Enabled
    <3> QED
      BY <1>4, <1>5, <3>1 DEF RuntimeType
  <2>5. ReloadType
    <3>1. active_slot = 0 /\ rpc = "idle" /\ fill = 1 /\ needCrypto = FALSE /\ old = {}
      BY DEF Init
    <3>2. fill \in 1 .. (MaxPolicies + 1)
      BY <3>1, PolicyAssumption
    <3>3. old \subseteq Policy /\ needCrypto \in BOOLEAN
      BY <3>1
    <3> QED
      BY <3>1, <3>2, <3>3 DEF ReloadType
  <2>6. ThreadType
    BY <1>6 DEF Init, ThreadType, Outside
  <2> QED
    BY <2>1, <2>2, <2>3, <2>4, <2>5, <2>6 DEF TypeOK
<1>8. InflightCounts
  <2>1. Counted = {}
    BY DEF Init, Counted, Crit
  <2> QED
    BY <2>1, FS_EmptySet DEF Init, InflightCounts
<1>9. DecryptUse
  BY DEF Init, DecryptUse
<1> QED
  BY <1>7, <1>8, <1>9 DEF IInv

\* Steps that leave the variables of a part alone keep its type.
LEMMA PartsUnchanged ==
  ASSUME TypeOK
  PROVE  /\ UNCHANGED <<slots, cfg>> => SlotType'
         /\ UNCHANGED gate => GateType'
         /\ UNCHANGED runtime => RuntimeType'
         /\ UNCHANGED pins => PinType'
         /\ UNCHANGED reload => ReloadType'
         /\ UNCHANGED thread => ThreadType'
<1>1. UNCHANGED <<slots, cfg>> => SlotType'
  BY DEF TypeOK, SlotType
<1>2. UNCHANGED gate => GateType'
  BY DEF TypeOK, GateType, gate
<1>3. UNCHANGED runtime => RuntimeType'
  BY DEF TypeOK, RuntimeType, runtime
<1>4. UNCHANGED pins => PinType'
  BY DEF TypeOK, PinType, pins
<1>5. UNCHANGED reload => ReloadType'
  BY DEF TypeOK, ReloadType, reload
<1>6. UNCHANGED thread => ThreadType'
  BY DEF TypeOK, ThreadType, thread
<1> QED
  BY <1>1, <1>2, <1>3, <1>4, <1>5, <1>6

\* One thread moves, and the count with it.
LEMMA ThreadMoves ==
  ASSUME IInv, NEW t \in Threads, NEW x \in Outside \cup Crit, NEW p \in Packet,
         pc' = [pc EXCEPT ![t] = x], pkt' = [pkt EXCEPT ![t] = p],
         x = "decrypt" => p.use \in Index,
         Follows(t, x),
         UNCHANGED <<slots, cfg, pause, pauseBuffered, runtime, reload>>,
         PinType', overlap' \subseteq Threads
  PROVE  IInv'
<1>1. InflightCounts' /\ inflight' \in Nat
  BY CountMoves DEF IInv
<1>2. SlotType' /\ RuntimeType' /\ ReloadType'
  BY PartsUnchanged DEF IInv
<1>3. GateType'
  BY <1>1 DEF IInv, TypeOK, GateType
<1>4. ThreadType'
  BY DEF IInv, TypeOK, ThreadType
<1>5. DecryptUse'
  BY DEF IInv, TypeOK, ThreadType, DecryptUse
<1> QED
  BY <1>1, <1>2, <1>3, <1>4, <1>5 DEF IInv, TypeOK

\* A step inside the critical section keeps the types.
LEMMA StepType ==
  ASSUME IInv, NEW t \in Threads, NEW from \in Crit, NEW to \in Crit,
         NEW p \in Packet, Step(t, from, to, p), PinType',
         to = "decrypt" => p.use \in Index
  PROVE  IInv'
<1>1. /\ pc[t] = from
      /\ pc' = [pc EXCEPT ![t] = to] /\ pkt' = [pkt EXCEPT ![t] = p]
      /\ UNCHANGED <<slots, cfg, gate, runtime, reload, overlap>>
  BY DEF Step
<1>2. IsCounted(to) /\ IsCounted(pc[t])
  BY <1>1 DEF IsCounted
<1>3. overlap' \subseteq Threads
  BY <1>1 DEF IInv, TypeOK, ThreadType, Step
<1>4. UNCHANGED <<slots, cfg, pause, pauseBuffered, runtime, reload>> /\ Follows(t, to)
  BY <1>1, <1>2 DEF gate, Follows
<1> QED
  BY <1>1, <1>3, <1>4, ThreadMoves

\* The steps of packet_critical_enter, packet_critical_leave and the local
\* queue threads keep IInv: each moves the count and the thread together.
LEMMA EnterType ==
  ASSUME IInv, NEW t \in Threads,
         Arrive(t) \/ Enter(t) \/ Leave(t) \/ Enqueue(t)
  PROVE  IInv'
<1> USE DEF gate, pins
<1>1. NoPacket \in Packet
  BY PolicyAssumption DEF NoPacket, Packet, Pointer, NoPolicy, Policy
<1>2. /\ pkt \in [Threads -> Packet] /\ pkt[t] \in Packet /\ overlap \subseteq Threads
      /\ inflight \in Nat
      /\ PinType
  BY DEF IInv, TypeOK, ThreadType, GateType
<1>3. /\ {"idle", "spin", "inc", "check", "undo"} \subseteq Outside
      /\ "leave" \in Crit /\ FirstStep(t) \in Crit \ {"decrypt"}
  BY DEF Outside, Crit, FirstStep
<1>4. /\ \A x \in Crit \cup {"check", "undo"} : IsCounted(x)
      /\ \A x \in {"idle", "spin", "inc"} : ~IsCounted(x)
  BY DEF IsCounted, Crit
<1>5. CASE Arrive(t)
  <2>1. pc' = [pc EXCEPT ![t] = "spin"] /\ Follows(t, "spin")
    BY <1>3, <1>4, <1>5 DEF Arrive, Follows
  <2>2. /\ UNCHANGED <<slots, cfg, pause, pauseBuffered, runtime, reload>>
        /\ UNCHANGED pins /\ overlap' \subseteq Threads
        /\ pkt' = [pkt EXCEPT ![t] = pkt[t]]
    BY <1>2, <1>5 DEF Arrive
  <2> QED
    BY <1>1, <1>2, <1>3, <2>1, <2>2, ThreadMoves, PartsUnchanged DEF IInv
<1>6. CASE Spin(t)
  <2>1. pc' = [pc EXCEPT ![t] = "inc"] /\ Follows(t, "inc")
    BY <1>3, <1>4, <1>6 DEF Spin, Follows
  <2>2. /\ UNCHANGED <<slots, cfg, pause, pauseBuffered, runtime, reload>>
        /\ UNCHANGED pins /\ overlap' \subseteq Threads
        /\ pkt' = [pkt EXCEPT ![t] = pkt[t]]
    BY <1>2, <1>6 DEF Spin
  <2> QED
    BY <1>1, <1>2, <1>3, <2>1, <2>2, ThreadMoves, PartsUnchanged DEF IInv
<1>7. CASE Increment(t)
  <2>1. pc' = [pc EXCEPT ![t] = "check"] /\ Follows(t, "check")
    BY <1>3, <1>4, <1>7 DEF Increment, Follows
  <2>2. /\ UNCHANGED <<slots, cfg, pause, pauseBuffered, runtime, reload>>
        /\ UNCHANGED pins /\ overlap' \subseteq Threads
        /\ pkt' = [pkt EXCEPT ![t] = pkt[t]]
    BY <1>2, <1>7 DEF Increment
  <2> QED
    BY <1>1, <1>2, <1>3, <2>1, <2>2, ThreadMoves, PartsUnchanged DEF IInv
<1>8. CASE Recheck(t)
  <2>1. PICK x \in {FirstStep(t), "undo"} : pc' = [pc EXCEPT ![t] = x] /\ Follows(t, x)
    BY <1>3, <1>4, <1>8 DEF Recheck, Follows
  <2>2. /\ UNCHANGED <<slots, cfg, pause, pauseBuffered, runtime, reload>>
        /\ UNCHANGED pins /\ overlap' \subseteq Threads
        /\ pkt' = [pkt EXCEPT ![t] = pkt[t]]
    BY <1>2, <1>8 DEF Recheck
  <2> QED
    BY <1>1, <1>2, <1>3, <2>1, <2>2, ThreadMoves, PartsUnchanged DEF IInv
<1>9. CASE Undo(t)
  <2>1. pc' = [pc EXCEPT ![t] = "spin"] /\ Follows(t, "spin")
    BY <1>3, <1>4, <1>9 DEF Undo, Undone, AfterUndo, Follows
  <2>2. /\ UNCHANGED <<slots, cfg, pause, pauseBuffered, runtime, reload>>
        /\ UNCHANGED pins /\ overlap' \subseteq Threads
        /\ pkt' = [pkt EXCEPT ![t] = pkt[t]]
    BY <1>2, <1>9 DEF Undo
  <2> QED
    BY <1>1, <1>2, <1>3, <2>1, <2>2, ThreadMoves, PartsUnchanged DEF IInv
<1>10. CASE Leave(t)
  <2>1. pc' = [pc EXCEPT ![t] = "idle"] /\ Follows(t, "idle")
    BY <1>3, <1>4, <1>10 DEF Leave, Follows
  <2>2. /\ UNCHANGED <<slots, cfg, pause, pauseBuffered, runtime, reload>>
        /\ UNCHANGED pins /\ overlap' \subseteq Threads
        /\ pkt' = [pkt EXCEPT ![t] = NoPacket]
    BY <1>2, <1>1, <1>10 DEF Leave
  <2> QED
    BY <1>1, <1>2, <1>3, <2>1, <2>2, ThreadMoves, PartsUnchanged DEF IInv
<1>11. CASE Enqueue(t)
  <2>1. pc' = [pc EXCEPT ![t] = "leave"] /\ Follows(t, "leave")
    BY <1>3, <1>4, <1>11 DEF Enqueue, Crit, Follows
  <2>2. /\ UNCHANGED <<slots, cfg, pause, pauseBuffered, runtime, reload>>
        /\ UNCHANGED pins /\ overlap' \subseteq Threads
        /\ pkt' = [pkt EXCEPT ![t] = pkt[t]]
    BY <1>2, <1>11 DEF Enqueue
  <2> QED
    BY <1>1, <1>2, <1>3, <2>1, <2>2, ThreadMoves, PartsUnchanged DEF IInv
<1> QED
  BY <1>5, <1>6, <1>7, <1>8, <1>9, <1>10, <1>11 DEF Enter

\* What the worker's and the WAN threads' steps write into their packet.
LEMMA PacketTypes ==
  ASSUME IInv, NEW t \in Threads
  PROVE  /\ pkt[t] \in Packet
         /\ Current \in Configs
         /\ \A i : PolicyAt(Current, i) \in Policy
         /\ \A i : i \in DOMAIN Current.policies => i \in 0 .. MaxPolicies /\ i \in Index
         /\ Deref(pkt[t].cp) \in Policy
         /\ PinType /\ NoPolicy \in Policy
<1>1. pkt[t] \in Packet /\ Current \in Configs /\ PinType
  BY DEF IInv, TypeOK, ThreadType, SlotType, Current
<1>2. slots[pkt[t].cp.slot] \in Configs
  BY <1>1 DEF IInv, TypeOK, SlotType, Packet, Pointer
<1>3. NoPolicy \in Policy
  BY DEF NoPolicy, Policy
<1> QED
  BY <1>1, <1>2, <1>3, PolicyAtType, PolicyAssumption DEF Index, Deref

\* worker_thread's steps keep IInv.
LEMMA WorkerType ==
  ASSUME IInv, NEW t \in Threads, Worker(t)
  PROVE  IInv'
<1> DEFINE p == pkt[t]
<1> USE PacketTypes
<1>0. {"select", "index", "pin", "send", "leave"} \subseteq Crit
  BY DEF Crit
<1>1. CASE WorkerNonIp(t)
  <2>1. PICK out \in {"clear", "dropped"} :
          Step(t, "select", "leave", [p EXCEPT !.out = out])
    BY <1>1 DEF WorkerNonIp
  <2>2. [p EXCEPT !.out = out] \in Packet
    BY <2>1 DEF Packet
  <2> QED
    BY <1>0, <1>1, <2>1, <2>2, StepType DEF WorkerNonIp, pins, PinType
<1>2. ASSUME NEW f \in Flows, WorkerCryptoOff(t, f)
      PROVE  IInv'
  <2>1. PICK out \in {"clear", "dropped"} :
          Step(t, "select", "leave", [p EXCEPT !.flow = f, !.out = out])
    BY <1>2 DEF WorkerCryptoOff
  <2>2. [p EXCEPT !.flow = f, !.out = out] \in Packet
    BY <2>1 DEF Packet
  <2> QED
    BY <1>0, <1>2, <2>1, <2>2, StepType DEF WorkerCryptoOff, pins, PinType
<1>3. ASSUME NEW f \in Flows, WorkerSelect(t, f)
      PROVE  IInv'
  <2>1. Select(Current, f) \in 0 .. MaxPolicies
    BY SearchType DEF Select
  <2>2. PinType'
    <3>1. /\ pin' \in {pin, [pin EXCEPT ![f] = 0]}
          /\ pinned' \in {pinned, [pinned EXCEPT ![f] = NoPolicy]}
      BY <1>3 DEF WorkerSelect
    <3> QED
      BY <3>1, PolicyAssumption DEF PinType
  <2> DEFINE pi == IF f \in TcpFlows /\ PinValid(f) THEN pin[f] ELSE Select(Current, f)
             q == [p EXCEPT !.flow = f,
                     !.out = IF Enabled(Current) THEN "dropped" ELSE "clear"]
             r == [p EXCEPT !.flow = f, !.cp = [slot |-> cfg, pi |-> pi],
                            !.selected = PolicyAt(Current, pi)]
  <2>3. pi \in 0 .. MaxPolicies
    BY <2>1 DEF PinType
  <2>4. q \in Packet
    BY DEF Packet
  <2>5. r \in Packet
    <3>1. [slot |-> cfg, pi |-> pi] \in Pointer
      BY <2>3 DEF Pointer, IInv, TypeOK, SlotType
    <3>2. PolicyAt(Current, pi) \in Policy
      OBVIOUS
    <3> HIDE DEF pi
    <3> QED
      BY <3>1, <3>2 DEF Packet
  <2>6. Step(t, "select", "leave", q) \/ Step(t, "select", "index", r)
    BY <1>3 DEF WorkerSelect
  <2> HIDE DEF pi, q, r
  <2> QED
    BY <1>0, <2>2, <2>4, <2>5, <2>6, StepType
<1>4. CASE WorkerIndex(t)
  <2> DEFINE policy == Deref(p.cp)
             q(pi) == [p EXCEPT !.use = pi, !.wire = <<policy.action, policy.id>>]
             r == [p EXCEPT !.use = 0]
  <2>1. PICK pi \in PointerIndex(p.cp) :
          \/ pi \in Index /\ Step(t, "index", "pin", q(pi))
          \/ Step(t, "index", "pin", r)
    BY <1>4 DEF WorkerIndex
  <2>2. pi \in Index => q(pi) \in Packet
    <3>1. policy.action \in Actions \cup {Bypass} /\ policy.id \in Ids \cup {0}
      BY DEF Policy
    <3>2. pi \in Index => pi \in 0 .. MaxPolicies
      BY PolicyAssumption DEF Index
    <3>3. <<policy.action, policy.id>> \in (Actions \cup {Bypass}) \X (Ids \cup {0})
      BY <3>1
    <3> HIDE DEF policy
    <3> QED
      BY <3>2, <3>3 DEF Packet
  <2>3. r \in Packet
    BY PolicyAssumption DEF Packet
  <2>4. PinType'
    BY <1>4 DEF WorkerIndex, pins, PinType
  <2> HIDE DEF q, r, policy
  <2> QED
    BY <1>0, <2>1, <2>2, <2>3, <2>4, StepType
<1>5. CASE WorkerPin(t)
  <2>1. PinType'
    <3>1. p.selected \in Policy
      BY DEF Packet
    <3>2. \/ UNCHANGED pins
          \/ \E pi \in DOMAIN Current.policies :
               /\ pin' = [pin EXCEPT ![p.flow] = pi]
               /\ pinned' = [pinned EXCEPT ![p.flow] =
                               IF t \in overlap THEN NoPolicy ELSE p.selected]
      BY <1>5 DEF WorkerPin
    <3> QED
      BY <3>1, <3>2 DEF PinType, pins
  <2> QED
    BY <1>0, <1>5, <2>1, StepType DEF WorkerPin
<1>6. CASE WorkerSend(t)
  <2>1. PinType'
    <3>1. \/ UNCHANGED pins
          \/ /\ pin' = [pin EXCEPT ![p.flow] = 0]
             /\ pinned' = [pinned EXCEPT ![p.flow] = NoPolicy]
      BY <1>6 DEF WorkerSend
    <3> QED
      BY <3>1, PolicyAssumption DEF PinType, pins
  <2>2. [p EXCEPT !.out = "clear"] \in Packet /\ [p EXCEPT !.out = "dropped"] \in Packet
    BY DEF Packet
  <2>3. p.use # 0 => [p EXCEPT !.out = "cipher", !.used = ctx[p.use]] \in Packet
    <3>1. p.use # 0 => p.use \in Index
      BY PolicyAssumption DEF Packet, Index
    <3>2. p.use # 0 => ctx[p.use] \in Policy
      BY <3>1 DEF IInv, TypeOK, RuntimeType
    <3> QED
      BY <3>2 DEF Packet
  <2>4. \/ Step(t, "send", "leave", [p EXCEPT !.out = "clear"])
        \/ Step(t, "send", "leave", [p EXCEPT !.out = "dropped"])
        \/ p.use # 0 /\ Step(t, "send", "leave", [p EXCEPT !.out = "cipher", !.used = ctx[p.use]])
    BY <1>6 DEF WorkerSend
  <2> QED
    BY <1>0, <2>1, <2>2, <2>3, <2>4, StepType
<1> QED
  BY <1>1, <1>2, <1>3, <1>4, <1>5, <1>6 DEF Worker


\* wan_queue_thread_l3l4's steps keep IInv.
LEMMA WanType ==
  ASSUME IInv, NEW t \in Threads, Wan(t)
  PROVE  IInv'
<1> DEFINE p == pkt[t]
<1> USE PacketTypes
<1>0. {"resolve", "decrypt", "wanpin", "leave"} \subseteq Crit
  BY DEF Crit
<1>1. CASE WanPlain(t)
  <2>1. [p EXCEPT !.out = "clear"] \in Packet
    BY DEF Packet
  <2> QED
    BY <1>0, <1>1, <2>1, StepType, PartsUnchanged DEF WanPlain, IInv
<1>2. ASSUME NEW w \in Actions \X Ids, WanResolve(t, w)
      PROVE  IInv'
  <2> DEFINE pi == LookupPolicyIndex(Current, w)
             q == [p EXCEPT !.wire = w, !.use = pi, !.cp = [slot |-> cfg, pi |-> pi],
                            !.selected = PolicyAt(Current, pi)]
             r == [p EXCEPT !.wire = w, !.out = "dropped"]
  <2>1. pi \in 0 .. MaxPolicies
    <3> DEFINE hits == {i \in DOMAIN Current.policies :
                          Current.policies[i].action = w[1] /\ Current.policies[i].id = w[2]}
    <3>1. First(hits) \in 0 .. MaxPolicies
      BY SearchType
    <3> QED
      BY <3>1 DEF LookupPolicyIndex
  <2>2. w \in (Actions \cup {Bypass}) \X (Ids \cup {0})
    OBVIOUS
  <2>3. q \in Packet
    <3>1. [slot |-> cfg, pi |-> pi] \in Pointer
      BY <2>1 DEF Pointer, IInv, TypeOK, SlotType
    <3>2. PolicyAt(Current, pi) \in Policy
      OBVIOUS
    <3> HIDE DEF pi
    <3> QED
      BY <2>1, <2>2, <3>1, <3>2 DEF Packet
  <2>4. r \in Packet
    BY <2>2 DEF Packet
  <2>5. \/ pi # 0 /\ Step(t, "resolve", "decrypt", q)
        \/ Step(t, "resolve", "leave", r)
    BY <1>2 DEF WanResolve
  <2>7. pi # 0 => q.use \in Index
    BY <2>1, PolicyAssumption DEF Index, Packet
  <2>6. PinType'
    BY <1>2, PartsUnchanged DEF WanResolve, IInv
  <2> HIDE DEF q, r
  <2> QED
    BY <1>0, <2>3, <2>4, <2>5, <2>6, <2>7, StepType
<1>3. CASE WanDecrypt(t)
  <2> DEFINE q == [p EXCEPT !.out = "plain", !.used = ctx[p.use]]
             r == [p EXCEPT !.out = "dropped"]
  <2>1. r \in Packet
    BY DEF Packet
  <2>2. Step(t, "decrypt", "wanpin", q) \/ Step(t, "decrypt", "leave", r)
    BY <1>3 DEF WanDecrypt
  <2>3. PinType'
    BY <1>3, PartsUnchanged DEF WanDecrypt, IInv
  <2>4. ASSUME Step(t, "decrypt", "wanpin", q)
        PROVE  q \in Packet
    <3>1. p.use \in Index
      BY <2>4 DEF Step, IInv, DecryptUse
    <3>2. ctx[p.use] \in Policy
      BY <3>1 DEF IInv, TypeOK, RuntimeType
    <3> QED
      BY <3>2 DEF Packet
  <2> HIDE DEF q, r
  <2> QED
    BY <1>0, <2>1, <2>2, <2>3, <2>4, StepType
<1>4. ASSUME NEW f \in Flows, WanPin(t, f)
      PROVE  IInv'
  <2>1. [p EXCEPT !.flow = f] \in Packet
    BY DEF Packet
  <2>2. PinType'
    <3>1. ASSUME NEW w \in Actions \X Ids,
                 pin' = [pin EXCEPT ![f] = CurrentIndex(w)],
                 pinned' = [pinned EXCEPT ![f] =
                             IF t \in overlap THEN NoPolicy
                             ELSE PolicyAt(Current, CurrentIndex(w))]
          PROVE  PinType'
      <4>1. CurrentIndex(w) \in 0 .. MaxPolicies
        BY PolicyAssumption DEF CurrentIndex
      <4>2. PolicyAt(Current, CurrentIndex(w)) \in Policy
        BY PolicyAtType
      <4> QED
        BY <3>1, <4>1, <4>2 DEF PinType
    <3> QED
      BY <1>4, <3>1 DEF WanPin, PinType, pins
  <2> QED
    BY <1>0, <1>4, <2>1, <2>2, StepType DEF WanPin
<1> QED
  BY <1>1, <1>2, <1>3, <1>4 DEF Wan


\* The steps of no packet thread: the collector, the main thread, the buffer.
LEMMA MainType ==
  ASSUME IInv,
         \/ \E f \in Flows : PinExpires(f)
         \/ \E c \in Configs : Apply(c)
         \/ Reload \/ FlushPause
  PROVE  IInv'
<1> USE PolicyAssumption DEF IInv
<1> SUFFICES /\ SlotType' /\ GateType' /\ RuntimeType' /\ PinType' /\ ReloadType'
             /\ UNCHANGED <<inflight, pc, pkt>> /\ overlap' \subseteq Threads
  <2>1. ThreadType' /\ DecryptUse'
    BY DEF TypeOK, ThreadType, DecryptUse
  <2> QED
    BY <2>1, CountStays DEF TypeOK
<1>0. /\ SlotType /\ GateType /\ RuntimeType /\ PinType /\ ReloadType
      /\ NoPolicy \in Policy /\ overlap \subseteq Threads /\ Inside \subseteq Threads
  BY DEF TypeOK, ThreadType, NoPolicy, Policy, Inside
<1>1. ASSUME NEW f \in Flows, PinExpires(f)
      PROVE  /\ SlotType' /\ GateType' /\ RuntimeType' /\ PinType' /\ ReloadType'
             /\ UNCHANGED <<inflight, pc, pkt>> /\ overlap' \subseteq Threads
  <2>1. PinType'
    BY <1>0, <1>1 DEF PinExpires, PinType
  <2> QED
    BY <1>0, <1>1, <2>1, PartsUnchanged DEF PinExpires, gate, thread
<1>2. ASSUME NEW c \in Configs, Apply(c)
      PROVE  /\ SlotType' /\ GateType' /\ RuntimeType' /\ PinType' /\ ReloadType'
             /\ UNCHANGED <<inflight, pc, pkt>> /\ overlap' \subseteq Threads
  <2>1. SlotType'
    BY <1>0, <1>2 DEF Apply, SlotType
  <2>2. ReloadType'
    BY <1>0, <1>2 DEF Apply, ReloadType
  <2> QED
    BY <1>0, <1>2, <2>1, <2>2, PartsUnchanged DEF Apply, gate, thread
<1>3. CASE Reload
  <2> USE DEF Reload
  <2>0. next_slot \in {0, 1}
    BY <1>0 DEF next_slot, ReloadType
  <2>1. CASE ReloadRejected
    <3>1. ReloadType'
      BY <1>0, <2>1 DEF ReloadRejected, ReloadType
    <3> QED
      BY <1>0, <2>1, <3>1, PartsUnchanged DEF ReloadRejected, gate, thread
  <2>2. CASE ReloadFast
    <3>1. ReloadType' /\ SlotType'
      BY <1>0, <2>0, <2>2 DEF ReloadFast, ReloadType, SlotType
    <3> QED
      BY <1>0, <2>2, <3>1, PartsUnchanged DEF ReloadFast, gate
  <2>3. CASE ReloadPause
    <3>1. ReloadType' /\ GateType'
      BY <1>0, <2>3 DEF ReloadPause, CryptoChanged, ReloadType, GateType
    <3> QED
      BY <1>0, <2>3, <3>1, PartsUnchanged DEF ReloadPause, thread
  <2>4. CASE ReloadDrain
    <3>1. ReloadType'
      BY <1>0, <2>4 DEF ReloadDrain, ReloadType, Exclusive
    <3> QED
      BY <1>0, <2>4, <3>1, PartsUnchanged DEF ReloadDrain, gate, thread
  <2>5. CASE ReloadSwap
    <3>1. ReloadType' /\ SlotType'
      BY <1>0, <2>0, <2>5 DEF ReloadSwap, ReloadType, SlotType, Exclusive
    <3>2. RuntimeType'
      BY <1>0, <2>5 DEF ReloadSwap, RuntimeType, Enabled
    <3> QED
      BY <1>0, <2>5, <3>1, <3>2, PartsUnchanged DEF ReloadSwap, gate, thread
  <2>6. CASE RebuildClear
    <3>1. ReloadType'
      <4>1. \A i \in Index : ctx[i] \in Policy
        BY <1>0 DEF RuntimeType
      <4>2. old' \subseteq Policy
        BY <2>6, <4>1 DEF RebuildClear
      <4> QED
        BY <1>0, <2>6, <4>2 DEF RebuildClear, ReloadType, Exclusive
    <3>2. RuntimeType'
      BY <1>0, <2>6 DEF RebuildClear, ClearedIndex, IndexEmpty, RuntimeType
    <3> QED
      BY <1>0, <2>6, <3>1, <3>2, PartsUnchanged DEF RebuildClear, gate, thread
  <2>7. ASSUME NEW initOk \in BOOLEAN, RebuildPolicy(initOk)
        PROVE  /\ SlotType' /\ GateType' /\ RuntimeType' /\ PinType' /\ ReloadType'
               /\ UNCHANGED <<inflight, pc, pkt>> /\ overlap' \subseteq Threads
    <3>1. Current \in Configs /\ fill \in DOMAIN Current.policies
      BY <1>0, <2>7 DEF RebuildPolicy, Current, SlotType
    <3>2. fill \in Index /\ Current.policies[fill] \in Policy
      BY <3>1, PolicyAtType
    <3>3. ReloadType'
      BY <1>0, <2>7, <3>2 DEF RebuildPolicy, ReloadType, Index
    <3>4. RuntimeType'
      <4> DEFINE p == Current.policies[fill]
                 w == <<p.action, p.id>>
      <4>1. /\ crypto_enabled' = crypto_enabled
            /\ ctx' \in {ctx, [ctx EXCEPT ![fill] = p]}
            /\ ready' \in {ready, [ready EXCEPT ![fill] = TRUE]}
            /\ indexById' \in {indexById, [indexById EXCEPT ![w] = fill]}
            /\ failed' \in {failed, failed \cup {fill}}
        BY <2>7 DEF RebuildPolicy
      <4>2. fill \in 0 .. MaxPolicies
        BY <3>2 DEF Index
      <4> HIDE DEF p, w
      <4>3. p \in Policy
        BY <3>2 DEF p
      <4> QED
        BY ZenonT(30), <1>0, <3>2, <4>1, <4>2, <4>3 DEF RuntimeType
    <3> QED
      BY <1>0, <2>7, <3>3, <3>4, PartsUnchanged DEF RebuildPolicy, gate, thread
  <2>8. CASE RebuildDone
    <3>1. ReloadType'
      BY <1>0, <2>8 DEF RebuildDone, ReloadType, Exclusive
    <3> QED
      BY <1>0, <2>8, <3>1, PartsUnchanged DEF RebuildDone, gate, thread
  <2>9. CASE ClearPins
    <3>1. ReloadType' /\ PinType'
      <4>1. PinType'
        BY <1>0, <2>9 DEF ClearPins, ClearedPins, PinType
      <4> QED
        BY <1>0, <2>9, <4>1 DEF ClearPins, ReloadType, Exclusive
    <3> QED
      BY <1>0, <2>9, <3>1, PartsUnchanged DEF ClearPins, gate, thread
  <2>10. CASE ReloadUnpause
    <3>1. ReloadType' /\ GateType'
      BY <1>0, <2>0, <2>10 DEF ReloadUnpause, Reopened, ReloadType, GateType
    <3> QED
      BY <1>0, <2>10, <3>1, PartsUnchanged DEF ReloadUnpause, thread
  <2> QED
    BY <1>3, <2>1, <2>2, <2>3, <2>4, <2>5, <2>6, <2>7, <2>8, <2>9, <2>10
<1>4. CASE FlushPause
  <2>1. GateType'
    BY <1>0, <1>4 DEF FlushPause, GateType
  <2> QED
    BY <1>0, <1>4, <2>1, PartsUnchanged DEF FlushPause, thread
<1> QED
  BY <1>1, <1>2, <1>3, <1>4

\* IInv is inductive: every step of every thread and of the reload keeps it.
THEOREM StepIInv == IInv /\ [Next]_vars => IInv'
<1> SUFFICES ASSUME IInv, [Next]_vars PROVE IInv'
  OBVIOUS
<1>1. ASSUME NEW t \in Threads, Arrive(t) \/ Thread(t) PROVE IInv'
  BY <1>1, EnterType, WorkerType, WanType DEF Thread
<1>2. CASE UNCHANGED vars
  <2>1. TypeOK'
    BY <1>2, PartsUnchanged DEF IInv, TypeOK, vars
  <2>2. InflightCounts' /\ DecryptUse'
    BY <1>2 DEF IInv, InflightCounts, Counted, DecryptUse, vars, thread, gate
  <2> QED
    BY <2>1, <2>2 DEF IInv
<1> QED
  BY <1>1, <1>2, MainType DEF Next

\* Types, and the in-flight counter equal to the number of threads between
\* packet_critical_enter's increment and the matching decrement, in every
\* interleaving of any number of threads with any sequence of reloads.
THEOREM TypeCorrect == Spec => []TypeOK
<1>1. Spec => []IInv
  BY InitIInv, StepIInv, PTL DEF Spec
<1>2. IInv => TypeOK
  BY DEF IInv
<1> QED
  BY <1>1, <1>2, PTL

\* packet_critical_enter and packet_critical_leave never lose count of
\* g_inflight_packets, for any number of threads and any sequence of reloads.
THEOREM CountCorrect == Spec => []InflightCounts
<1>1. Spec => []IInv
  BY InitIInv, StepIInv, PTL DEF Spec
<1>2. IInv => InflightCounts
  BY DEF IInv
<1> QED
  BY <1>1, <1>2, PTL

-----------------------------------------------------------------------------
(***************************************************************************)
(* The reload gate: exclusion between a reload and the packet threads, and *)
(* the refinement of ConfigGuard.  Both need StoreLoadOrdered, without which *)
(* TLC finds a packet thread inside.                                       *)
(***************************************************************************)

\* What the main thread knows of the gate and of the slots at each of its
\* steps: the gate is shut from the pause to the reopening, no thread is inside
\* once the drain has ended, fwd->cfg is the active slot until the swap, and
\* the configuration about to be swapped in has the running one's topology.
GateShut ==
  /\ ~pauseBuffered
  /\ pause <=> rpc \in {"drain"} \cup Exclusive
Swapped == rpc \in {"clear", "fill", "pins", "unpause"}
SlotsInUse ==
  /\ cfg = IF Swapped THEN next_slot ELSE active_slot
  /\ rpc \in {"drain", "swap"} => SameTopology(Current, slots[next_slot])

GInv == GateShut /\ ReloadExclusion /\ SlotsInUse

\* After forwarder_init the gate is open and no thread is inside: GInv holds.
THEOREM InitGInv == Init => GInv
BY DEF Init, GInv, GateShut, ReloadExclusion, SlotsInUse, Swapped, Exclusive, Inside

\* A thread that moves from x to y and leaves the gate's variables alone.
Moves(t, x, y) ==
  /\ pc[t] = x /\ pc' = [pc EXCEPT ![t] = y]
  /\ UNCHANGED <<slots, cfg, pause, pauseBuffered, reload>>

\* What a thread's step does to the set of threads inside.
ThreadEffect(t) ==
  /\ UNCHANGED <<slots, cfg, pause, pauseBuffered, reload>>
  /\ \/ Inside' = Inside
     \/ t \notin Inside /\ Inside' = Inside \cup {t} /\ ~pause
     \/ t \in Inside /\ Inside' = Inside \ {t}

\* What a step of a thread inside the gate can do to the set of those inside:
\* nothing but take the thread itself out.
LEMMA MovesEffect ==
  ASSUME IInv, NEW t \in Threads, NEW x \in Outside \cup Crit, NEW y \in Outside \cup Crit,
         Moves(t, x, y), x \in Outside /\ y \in Crit => ~pause
  PROVE  ThreadEffect(t)
<1>1. pc \in [Threads -> Outside \cup Crit]
  BY DEF IInv, TypeOK, ThreadType
<1>2. Inside' = IF y \in Crit THEN Inside \cup {t} ELSE Inside \ {t}
  BY <1>1 DEF Moves, Inside
<1>3. t \in Inside <=> x \in Crit
  BY DEF Moves, Inside
<1>4. x \in Crit <=> x \notin Outside
  BY DEF Crit, Outside
<1> QED
  BY <1>2, <1>3, <1>4 DEF ThreadEffect, Moves

\* worker_thread's steps are taken inside the gate and write none of the gate,
\* the slots and the reload's variables.
LEMMA WorkerMoves ==
  ASSUME NEW t \in Threads, Worker(t)
  PROVE  \E x, y \in Crit : Moves(t, x, y)
<1>0. {"select", "index", "pin", "send", "leave"} \subseteq Crit
  BY DEF Crit
<1> USE DEF Moves, Step, gate
<1>1. CASE WorkerNonIp(t)
  <2>1. Moves(t, "select", "leave")
    BY <1>1 DEF WorkerNonIp
  <2> QED
    BY <1>0, <2>1
<1>2. ASSUME NEW f \in Flows, WorkerCryptoOff(t, f)
      PROVE  \E x, y \in Crit : Moves(t, x, y)
  <2>1. Moves(t, "select", "leave")
    BY <1>2 DEF WorkerCryptoOff
  <2> QED
    BY <1>0, <2>1
<1>3. ASSUME NEW f \in Flows, WorkerSelect(t, f)
      PROVE  \E x, y \in Crit : Moves(t, x, y)
  <2>1. Moves(t, "select", "leave") \/ Moves(t, "select", "index")
    BY <1>3 DEF WorkerSelect
  <2> QED
    BY <1>0, <2>1
<1>4. CASE WorkerIndex(t)
  <2>1. Moves(t, "index", "pin")
    BY <1>4 DEF WorkerIndex
  <2> QED
    BY <1>0, <2>1
<1>5. CASE WorkerPin(t)
  <2>1. Moves(t, "pin", "send")
    BY <1>5 DEF WorkerPin
  <2> QED
    BY <1>0, <2>1
<1>6. CASE WorkerSend(t)
  <2>1. Moves(t, "send", "leave")
    BY <1>6 DEF WorkerSend
  <2> QED
    BY <1>0, <2>1
<1> QED
  BY <1>1, <1>2, <1>3, <1>4, <1>5, <1>6 DEF Worker

\* The same of wan_queue_thread_l3l4's steps.
LEMMA WanMoves ==
  ASSUME NEW t \in Threads, Wan(t)
  PROVE  \E x, y \in Crit : Moves(t, x, y)
<1>0. {"resolve", "decrypt", "wanpin", "leave"} \subseteq Crit
  BY DEF Crit
<1> USE DEF Moves, Step, gate
<1>1. CASE WanPlain(t)
  <2>1. Moves(t, "resolve", "leave")
    BY <1>1 DEF WanPlain
  <2> QED
    BY <1>0, <2>1
<1>2. ASSUME NEW w \in Actions \X Ids, WanResolve(t, w)
      PROVE  \E x, y \in Crit : Moves(t, x, y)
  <2>1. Moves(t, "resolve", "leave") \/ Moves(t, "resolve", "decrypt")
    BY <1>2 DEF WanResolve
  <2> QED
    BY <1>0, <2>1
<1>3. CASE WanDecrypt(t)
  <2>1. Moves(t, "decrypt", "leave") \/ Moves(t, "decrypt", "wanpin")
    BY <1>3 DEF WanDecrypt
  <2> QED
    BY <1>0, <2>1
<1>4. ASSUME NEW f \in Flows, WanPin(t, f)
      PROVE  \E x, y \in Crit : Moves(t, x, y)
  <2>1. Moves(t, "wanpin", "leave")
    BY <1>4 DEF WanPin
  <2> QED
    BY <1>0, <2>1
<1> QED
  BY <1>1, <1>2, <1>3, <1>4 DEF Wan

\* Every step of a packet thread keeps GInv: only packet_critical_enter lets a
\* thread in, and its second look at g_reload_pause finds the gate open.
LEMMA ThreadSteps ==
  ASSUME IInv, NEW t \in Threads, Arrive(t) \/ Thread(t)
  PROVE  ThreadEffect(t)
<1>0. /\ {"idle", "spin", "inc", "check", "undo"} \subseteq Outside
      /\ {"enqueue", "leave", FirstStep(t)} \subseteq Crit
      /\ Outside \cap Crit = {}
  BY DEF Outside, Crit, FirstStep
<1>1. CASE Arrive(t) \/ Spin(t) \/ Increment(t) \/ Undo(t)
  <2>1. \E x, y \in Outside : Moves(t, x, y)
    BY <1>0, <1>1 DEF Arrive, Spin, Increment, Undo, AfterUndo, Moves, gate
  <2> QED
    BY <1>0, <2>1, MovesEffect
<1>2. CASE Recheck(t)
  <2>1. Moves(t, "check", IF ~pause THEN FirstStep(t) ELSE "undo")
    BY <1>2 DEF Recheck, Admitted, Moves, gate
  <2>2. CASE pause
    BY <1>0, <2>1, <2>2, MovesEffect
  <2>3. CASE ~pause
    BY <1>0, <2>1, <2>3, MovesEffect
  <2> QED
    BY <2>2, <2>3
<1>3. CASE Leave(t)
  <2>1. Moves(t, "leave", "idle")
    BY <1>3 DEF Leave, Moves
  <2> QED
    BY <1>0, <2>1, MovesEffect
<1>4. CASE Enqueue(t)
  <2>1. Moves(t, "enqueue", "leave")
    BY <1>4 DEF Enqueue, Moves, gate
  <2> QED
    BY <1>0, <2>1, MovesEffect
<1>5. CASE Worker(t) \/ Wan(t)
  <2>1. \E x, y \in Crit : Moves(t, x, y)
    BY <1>5, WorkerMoves, WanMoves
  <2> QED
    BY <1>0, <2>1, MovesEffect
<1> QED
  BY <1>1, <1>2, <1>3, <1>4, <1>5 DEF Thread, Enter

\* When no thread is counted, none is inside.
LEMMA DrainedIsEmpty ==
  ASSUME IInv, inflight = 0
  PROVE  Inside = {}
<1>1. IsFiniteSet(Counted)
  BY FS_Subset, ThreadsAssumption DEF Counted
<1>2. Counted = {}
  BY <1>1, FS_EmptySet DEF IInv, InflightCounts
<1> QED
  BY <1>2 DEF Counted, Inside

\* A main thread's step, seen through the gate: it exchanges the configuration
\* the way ConfigGuard allows or leaves it and the threads inside alone.
MainEffect ==
  /\ GInv'
  /\ [\E c \in Configs : Guard!Exchange(c)]_<<Current, Inside>>

\* Every step of the main thread keeps GInv: forwarder_reload_config goes past
\* its drain only when g_inflight_packets is 0.
LEMMA MainSteps ==
  ASSUME StoreLoadOrdered, IInv, GInv,
         \/ \E f \in Flows : PinExpires(f)
         \/ \E c \in Configs : Apply(c)
         \/ Reload \/ FlushPause
  PROVE  MainEffect
<1>0. /\ slots \in [{0, 1} -> Configs] /\ cfg \in {0, 1} /\ active_slot \in {0, 1}
      /\ next_slot = 1 - active_slot
  BY DEF IInv, TypeOK, SlotType, ReloadType, next_slot
<1>1. ASSUME UNCHANGED <<slots, cfg, pause, pauseBuffered, active_slot, rpc, thread>>
      PROVE  MainEffect
  <2>1. UNCHANGED <<Current, Inside, next_slot>>
    BY <1>1 DEF Current, Inside, next_slot, thread
  <2> QED
    BY <1>1, <2>1 DEF MainEffect, GInv, GateShut, ReloadExclusion, SlotsInUse, Swapped
\* Steps that move only rpc, pause and the reload's locals.
<1>2. ASSUME UNCHANGED <<slots, cfg, active_slot, thread>>, GateShut', ReloadExclusion',
             Swapped <=> Swapped',
             rpc' \in {"drain", "swap"} => SameTopology(Current, slots[next_slot])
      PROVE  MainEffect
  <2>1. UNCHANGED <<Current, Inside, next_slot>>
    BY <1>2 DEF Current, Inside, next_slot, thread
  <2> QED
    BY <1>2, <2>1 DEF MainEffect, GInv, SlotsInUse, SameTopology
<1>3. ASSUME NEW c \in Configs, Apply(c)
      PROVE  MainEffect
  <2>1. rpc = "idle" /\ rpc' = "check" /\ cfg = active_slot /\ next_slot # cfg
    BY <1>0, <1>3 DEF Apply, GInv, SlotsInUse, Swapped
  <2>2. UNCHANGED <<Current, Inside, cfg, active_slot, pause, pauseBuffered>>
    BY <1>0, <1>3, <2>1 DEF Apply, Current, Inside, thread, gate
  <2> QED
    BY <2>1, <2>2 DEF MainEffect, GInv, GateShut, ReloadExclusion, SlotsInUse,
                      Swapped, Exclusive
<1>4. CASE ReloadFast
  <2>1. /\ cfg' = next_slot /\ active_slot' = next_slot /\ rpc' = "idle" /\ rpc = "check"
        /\ UNCHANGED <<slots, pause, pauseBuffered, pc>>
    BY <1>4 DEF ReloadFast, gate
  <2>2. Current' = slots[next_slot] /\ Current' \in Configs /\ Inside' = Inside
    BY <1>0, <2>1 DEF Current, Inside
  <2>3. GInv'
    BY <2>1 DEF GInv, GateShut, ReloadExclusion, SlotsInUse, Swapped, Exclusive
  <2>4. Guard!Exchange(Current')
    BY <1>4, <2>2 DEF ReloadFast, NothingChanged, CryptoChanged, ForwardingChanged,
                      SameTopology, Guard!Exchange
  <2> QED
    BY <2>2, <2>3, <2>4 DEF MainEffect
<1>5. CASE ReloadSwap
  <2>1. /\ rpc = "swap" /\ cfg' = next_slot
        /\ rpc' \in {"clear", "unpause"}
        /\ UNCHANGED <<slots, pause, pauseBuffered, active_slot, pc>>
    BY <1>5 DEF ReloadSwap, gate, thread
  <2>2. Current' = slots[next_slot] /\ Current' \in Configs /\ Inside' = Inside
    BY <1>0, <2>1 DEF Current, Inside
  <2>3. GInv'
    BY <2>1, <2>2 DEF GInv, GateShut, ReloadExclusion, SlotsInUse, Swapped, Exclusive, next_slot
  <2>4. Inside = {} /\ SameTopology(Current, slots[next_slot])
    BY <2>1 DEF GInv, ReloadExclusion, SlotsInUse, Exclusive
  <2>5. Guard!Exchange(Current')
    BY <2>2, <2>4 DEF SameTopology, Guard!Exchange
  <2> QED
    BY <2>2, <2>3, <2>5 DEF MainEffect
<1>6. CASE ReloadUnpause
  <2>1. /\ rpc = "unpause" /\ rpc' = "idle" /\ active_slot' = next_slot
        /\ pause' = FALSE /\ UNCHANGED <<slots, cfg, pauseBuffered, pc>>
    BY <1>6 DEF ReloadUnpause, Reopened, thread
  <2>2. UNCHANGED <<Current, Inside>>
    BY <2>1 DEF Current, Inside
  <2>3. GInv'
    BY <2>1 DEF GInv, GateShut, ReloadExclusion, SlotsInUse, Swapped, Exclusive
  <2> QED
    BY <2>2, <2>3 DEF MainEffect
<1>7. CASE ReloadPause
  <2>1. /\ rpc' = "drain" /\ rpc = "check" /\ pause' /\ SameTopology(Current, slots[next_slot])
        /\ UNCHANGED <<slots, cfg, active_slot, thread, pauseBuffered>>
    BY <1>7 DEF ReloadPause
  <2> QED
    BY <1>2, <2>1 DEF GInv, GateShut, ReloadExclusion, Swapped, Exclusive
<1>8. CASE ReloadDrain
  <2>1. Inside = {}
    BY <1>8, DrainedIsEmpty DEF ReloadDrain, Drained
  <2>2. /\ rpc = "drain" /\ rpc' = "swap"
        /\ UNCHANGED <<slots, cfg, active_slot, thread, pause, pauseBuffered>>
    BY <1>8 DEF ReloadDrain, gate
  <2>3. Inside' = {}
    BY <2>1, <2>2 DEF Inside, thread
  <2> QED
    BY <1>2, <2>2, <2>3 DEF GInv, GateShut, ReloadExclusion, SlotsInUse, Swapped, Exclusive
<1>9. CASE RebuildClear \/ RebuildDone \/ ClearPins \/ ReloadRejected
  <2>1. /\ \/ rpc \in {"clear", "fill", "pins"} /\ rpc' \in {"fill", "pins", "unpause"}
           \/ rpc = "check" /\ rpc' = "idle"
        /\ UNCHANGED <<slots, cfg, active_slot, thread, pause, pauseBuffered>>
    BY <1>9 DEF RebuildClear, RebuildDone, ClearPins, ReloadRejected, gate
  <2>2. Inside' = Inside
    BY <2>1 DEF Inside, thread
  <2> QED
    BY <1>2, <2>1, <2>2 DEF GInv, GateShut, ReloadExclusion, Swapped, Exclusive
<1>10. ASSUME NEW initOk \in BOOLEAN, RebuildPolicy(initOk)
       PROVE  MainEffect
  <2>1. UNCHANGED <<slots, cfg, pause, pauseBuffered, active_slot, rpc, thread>>
    BY <1>10 DEF RebuildPolicy, gate
  <2> QED
    BY <1>1, <2>1
<1>11. ASSUME NEW f \in Flows, PinExpires(f)
       PROVE  MainEffect
  <2>1. UNCHANGED <<slots, cfg, pause, pauseBuffered, active_slot, rpc, thread>>
    BY <1>11 DEF PinExpires, gate, reload
  <2> QED
    BY <1>1, <2>1
<1>12. ~FlushPause
  BY DEF FlushPause, GInv, GateShut
<1> QED
  BY <1>3, <1>4, <1>5, <1>6, <1>7, <1>8, <1>9, <1>10, <1>11, <1>12 DEF Reload

\* GInv is inductive, given the counting invariant IInv.
THEOREM StepGInv ==
  ASSUME StoreLoadOrdered, IInv, GInv, [Next]_vars
  PROVE  GInv' /\ [Guard!Next]_<<Current, Inside>>
<1>1. ASSUME NEW t \in Threads, Arrive(t) \/ Thread(t)
      PROVE  GInv' /\ [Guard!Next]_<<Current, Inside>>
  <2>1. ThreadEffect(t)
    BY <1>1, ThreadSteps
  <2>2. UNCHANGED <<Current, next_slot, active_slot, rpc, slots, cfg, pause, pauseBuffered>>
    BY <2>1 DEF ThreadEffect, Current, next_slot, reload
  <2>3. rpc \in Exclusive => Inside' = {}
    BY <2>1 DEF ThreadEffect, GInv, GateShut, ReloadExclusion
  <2>4. GInv'
    BY <2>2, <2>3 DEF GInv, GateShut, ReloadExclusion, SlotsInUse, Swapped
  <2>5. Inside' = Inside \/ Guard!Enter(t) \/ Guard!Leave(t)
    BY <2>1, <2>2 DEF ThreadEffect, Guard!Enter, Guard!Leave
  <2> QED
    BY <2>2, <2>4, <2>5 DEF Guard!Next
<1>2. CASE UNCHANGED vars
  <2>1. UNCHANGED <<Current, Inside, next_slot>>
    BY <1>2 DEF Current, Inside, next_slot, vars, thread, reload
  <2>2. GInv'
    BY <1>2, <2>1 DEF GInv, GateShut, ReloadExclusion, SlotsInUse, Swapped, vars, gate, reload
  <2> QED
    BY <2>1, <2>2
<1>3. MainEffect => GInv' /\ [Guard!Next]_<<Current, Inside>>
  BY DEF MainEffect, Guard!Next
<1> QED
  BY <1>1, <1>2, <1>3, MainSteps DEF Next

\* No packet thread is inside the critical section while forwarder_reload_config
\* swaps the configuration, rebuilds the runtime and clears the pins, provided
\* the pause is visible before the in-flight count is read.
THEOREM ExclusionCorrect ==
  ASSUME StoreLoadOrdered
  PROVE  Spec => []ReloadExclusion
<1>1. Spec => [](IInv /\ GInv)
  <2>1. Init => IInv /\ GInv
    BY InitIInv, InitGInv
  <2>2. IInv /\ GInv /\ [Next]_vars => (IInv /\ GInv)'
    BY StepIInv, StepGInv
  <2> QED
    BY <2>1, <2>2, PTL DEF Spec
<1>2. GInv => ReloadExclusion
  BY DEF GInv
<1> QED
  BY <1>1, <1>2, PTL

\* The gate implements ConfigGuard: whatever the number of threads and the
\* reloads, the configuration that the threads inside work with is exchanged
\* only for one with the same policies, or while none is inside.
THEOREM GuardCorrect ==
  ASSUME StoreLoadOrdered
  PROVE  Spec => GuardSpec
<1>1. Init => Guard!Init
  <2>1. ASSUME Init PROVE Current = InitialConfig /\ Inside = {}
    BY <2>1 DEF Init, Current, Inside, Crit
  <2> QED
    BY <2>1 DEF Guard!Init
<1>2. Init => IInv /\ GInv
  BY InitIInv, InitGInv
<1>3. IInv /\ GInv /\ [Next]_vars => (IInv /\ GInv)' /\ [Guard!Next]_<<Current, Inside>>
  BY StepIInv, StepGInv
<1> QED
  BY <1>1, <1>2, <1>3, PTL DEF Spec, GuardSpec, Guard!Spec

-----------------------------------------------------------------------------
(***************************************************************************)
(* What the packet threads work with: the crypto runtime and the pins are  *)
(* those of the running configuration, and every packet gets what the policy *)
(* it was selected for says.  Like the gate's theorems they need           *)
(* StoreLoadOrdered.                                                       *)
(***************************************************************************)

\* The contexts, their flags and the index are those of the policies in B.
RuntimeHolds(B) ==
  /\ \A i \in Index : ready[i] <=> i \in B
  /\ \A i \in B : ctx[i] = Current.policies[i]
  /\ indexById = IndexFor(Current, B)

\* The runtime at each step of a reload: complete, except that the rebuild's loop
\* has got to fill; and needCrypto still says whether the policies differ.
RuntimeInv ==
  /\ crypto_enabled <=> Enabled(Current)
  /\ ContextsOfConfig
  /\ rpc = "fill" =>
       /\ fill <= Len(Current.policies) + 1
       /\ \A i \in failed : i < fill
       /\ RuntimeHolds({i \in KeyedIndices(Current) : i < fill} \ failed)
  /\ rpc \in {"drain", "swap"} =>
       (needCrypto <=> CryptoChanged(Current, slots[next_slot]))

\* worker_thread's pointer is into the running configuration.
Chosen(t) ==
  /\ crypto_enabled
  /\ pkt[t].cp.slot = cfg /\ pkt[t].cp.pi \in DOMAIN Current.policies
  /\ pkt[t].selected = Current.policies[pkt[t].cp.pi]

\* Its index and its thread's parameters are of the same policy.
UseChosen(t) ==
  IF pkt[t].selected.action # Bypass /\ ready[pkt[t].cp.pi]
  THEN /\ pkt[t].use = pkt[t].cp.pi
       /\ pkt[t].wire = <<pkt[t].selected.action, pkt[t].selected.id>>
  ELSE pkt[t].use = 0

\* The policy that the wire id on a packet from a WAN names.
Named(t) ==
  /\ crypto_enabled
  /\ pkt[t].use \in DOMAIN Current.policies /\ ready[pkt[t].use]
  /\ pkt[t].selected = Current.policies[pkt[t].use]
  /\ pkt[t].wire = <<pkt[t].selected.action, pkt[t].selected.id>>

\* What PacketsByPolicy says of a thread at the end of its packet.
Done(t) ==
  /\ pkt[t].out = "cipher" =>
       /\ pkt[t].used = pkt[t].selected
       /\ pkt[t].wire = <<pkt[t].selected.action, pkt[t].selected.id>>
       /\ \E i \in DOMAIN Current.policies : Current.policies[i] = pkt[t].selected
  /\ pkt[t].out = "clear" /\ pkt[t].flow \in Flows =>
       IF pkt[t].selected = NoPolicy THEN ~Enabled(Current)
       ELSE ~Keyed(pkt[t].selected) \/ pkt[t].cp.pi \in failed
  /\ pkt[t].out = "plain" =>
       /\ <<pkt[t].used.action, pkt[t].used.id>> = pkt[t].wire
       /\ \E i \in DOMAIN Current.policies : Current.policies[i] = pkt[t].used

Entering == Outside \cup {"enqueue", "select", "resolve"}

\* What a thread knows of its packet at each of its steps, if it was not caught
\* inside by an ungated swap.
Knows(t) ==
  /\ pc[t] = "index" => Chosen(t) /\ pkt[t].out = "none"
  /\ pc[t] \in {"pin", "send"} => Chosen(t) /\ UseChosen(t) /\ pkt[t].out = "none"
  /\ pc[t] = "decrypt" => Named(t) /\ pkt[t].out = "none"
  /\ pc[t] = "wanpin" => Named(t) /\ pkt[t].out = "plain" /\ pkt[t].used = pkt[t].selected
  /\ pc[t] = "leave" => Done(t)

PacketInv ==
  \A t \in Threads :
    /\ pc[t] \in Entering => pkt[t] = NoPacket
    /\ t \notin overlap => Knows(t)

RInv == RuntimeInv /\ PinsCurrent /\ PacketInv

-----------------------------------------------------------------------------
(* Policy tables *)

\* What the runtime is made of depends on the policies alone.
LEMMA SamePolicies ==
  ASSUME NEW c, NEW d, ~CryptoChanged(c, d)
  PROVE  /\ Enabled(c) <=> Enabled(d)
         /\ KeyedIndices(c) = KeyedIndices(d)
         /\ \A S : IndexFor(c, S) = IndexFor(d, S)
         /\ \A i : PolicyAt(c, i) = PolicyAt(d, i)
BY DEF CryptoChanged, Enabled, KeyedIndices, IndexFor, PolicyAt

\* A policy of a configuration: its type, and no other has its wire id.
LEMMA TableFacts ==
  ASSUME NEW c \in Configs
  PROVE  /\ c.policies \in Seq(Policy)
         /\ DOMAIN c.policies = 1 .. Len(c.policies) /\ Len(c.policies) \in Nat
         /\ DOMAIN c.policies \subseteq Index
         /\ \A i \in DOMAIN c.policies :
              c.policies[i] \in Policy /\ c.policies[i] # NoPolicy
         /\ \A i, j \in DOMAIN c.policies : c.policies[i].id = c.policies[j].id => i = j
<1>1. c.policies \in Seq(Policy) /\ DOMAIN c.policies \subseteq Index
  BY ConfigsAssumption, PolicyAtType DEF Config
<1>2. \A i \in DOMAIN c.policies : c.policies[i].id # 0
  BY ConfigsAssumption
<1>3. \A i \in DOMAIN c.policies : c.policies[i] \in Policy
  BY <1>1
<1>4. NoPolicy.id = 0
  BY DEF NoPolicy
<1>5. \A i, j \in DOMAIN c.policies : c.policies[i].id = c.policies[j].id => i = j
  BY ConfigsAssumption
<1> QED
  BY <1>1, <1>2, <1>3, <1>4, <1>5

\* An encrypting policy has an entry in the wire id index.
LEMMA KeyedWire ==
  ASSUME NEW c \in Configs, NEW i \in DOMAIN c.policies, Keyed(c.policies[i])
  PROVE  <<c.policies[i].action, c.policies[i].id>> \in Actions \X Ids
<1>1. c.policies[i] \in Policy /\ c.policies[i].id # 0
  BY TableFacts, ConfigsAssumption
<1> QED
  BY <1>1 DEF Keyed, Policy

\* First is the only least member.
LEMMA FirstIs ==
  ASSUME NEW S \in SUBSET Nat, NEW i \in S, \A j \in S : i <= j
  PROVE  First(S) = i
<1>1. First(S) \in S /\ First(S) <= i
  BY FirstMember
<1>2. i <= First(S)
  BY <1>1
<1>3. First(S) \in Nat /\ i \in Nat
  BY <1>1
<1> HIDE DEF First
<1> QED
  BY <1>1, <1>2, <1>3

\* One round of rebuild_crypto_runtime's loop: the index of the policies so far
\* and one further down the table.
LEMMA IndexGrows ==
  ASSUME NEW c \in Configs, NEW B \in SUBSET DOMAIN c.policies,
         NEW i \in DOMAIN c.policies, Keyed(c.policies[i]), \A j \in B : j < i,
         NEW w, w = <<c.policies[i].action, c.policies[i].id>>
  PROVE  IndexFor(c, B \cup {i}) =
           IF IndexFor(c, B)[w] = 0 THEN [IndexFor(c, B) EXCEPT ![w] = i] ELSE IndexFor(c, B)
<1> DEFINE hits(S, v) == {j \in S : c.policies[j].action = v[1] /\ c.policies[j].id = v[2]}
<1>1. w \in Actions \X Ids
  BY KeyedWire
<1>2. \A S : IndexFor(c, S) = [v \in Actions \X Ids |-> First(hits(S, v))]
  BY DEF IndexFor
<1>3. hits(B \cup {i}, w) = hits(B, w) \cup {i}
  OBVIOUS
<1>4. ASSUME NEW v \in Actions \X Ids, v # w
      PROVE  hits(B \cup {i}, v) = hits(B, v)
  <2>1. v = <<v[1], v[2]>>
    BY <1>4
  <2>2. ~(c.policies[i].action = v[1] /\ c.policies[i].id = v[2])
    BY <1>4, <2>1
  <2> QED
    BY <2>2
<1>5. DOMAIN c.policies \subseteq Nat /\ 0 \notin DOMAIN c.policies
  BY TableFacts DEF Index
<1>6. CASE hits(B, w) = {}
  <2>1. First(hits(B, w)) = 0
    BY <1>6 DEF First
  <2>2. hits(B \cup {i}, w) = {i}
    BY <1>3, <1>6
  <2>3. First({i}) = i
    BY <1>5, FirstIs
  <2>4. IndexFor(c, B)[w] = 0
    BY <1>1, <1>2, <2>1
  <2>5. IndexFor(c, B \cup {i}) = [IndexFor(c, B) EXCEPT ![w] = i]
    <3>1. \A v \in Actions \X Ids :
            First(hits(B \cup {i}, v)) = IF v = w THEN i ELSE First(hits(B, v))
      BY <1>4, <2>2, <2>3
    <3> DEFINE g == IndexFor(c, B)
               h == IndexFor(c, B \cup {i})
    <3>2. /\ g = [v \in Actions \X Ids |-> First(hits(B, v))]
          /\ h = [v \in Actions \X Ids |-> First(hits(B \cup {i}, v))]
      BY <1>2
    <3> HIDE DEF g, h, hits
    <3>3. /\ g = [v \in Actions \X Ids |-> g[v]] /\ h = [v \in Actions \X Ids |-> h[v]]
          /\ \A v \in Actions \X Ids : h[v] = IF v = w THEN i ELSE g[v]
      BY <3>1, <3>2
    <3>4. h = [g EXCEPT ![w] = i]
      BY <1>1, <3>3
    <3> QED
      BY <3>4 DEF g, h
  <2> QED
    BY <2>4, <2>5
<1>7. CASE hits(B, w) # {}
  <2>1. hits(B, w) \in SUBSET Nat /\ 0 \notin hits(B, w)
    BY <1>5
  <2>2. First(hits(B, w)) \in hits(B, w) /\ \A j \in hits(B, w) : First(hits(B, w)) <= j
    BY <1>7, <2>1, FirstMember
  <2>3. First(hits(B \cup {i}, w)) = First(hits(B, w))
    <3>1. First(hits(B, w)) < i
      BY <2>2
    <3>2. hits(B, w) \cup {i} \in SUBSET Nat
      BY <1>5, <2>1
    <3> HIDE DEF hits
    <3>3. \A j \in hits(B, w) \cup {i} : First(hits(B, w)) <= j
      BY <1>5, <2>1, <2>2, <3>1
    <3>4. First(hits(B, w) \cup {i}) = First(hits(B, w))
      BY <2>2, <3>2, <3>3, FirstIs
    <3> QED
      BY <1>3, <3>4
  <2>4. IndexFor(c, B)[w] # 0
    <3>1. IndexFor(c, B)[w] = First(hits(B, w))
      BY <1>1, <1>2
    <3> HIDE DEF hits
    <3> QED
      BY <2>1, <2>2, <3>1
  <2>5. \A v \in Actions \X Ids : First(hits(B \cup {i}, v)) = First(hits(B, v))
    BY <1>4, <2>3
  <2>6. IndexFor(c, B \cup {i}) = IndexFor(c, B)
    <3> DEFINE g == IndexFor(c, B)
               h == IndexFor(c, B \cup {i})
    <3>1. /\ g = [v \in Actions \X Ids |-> First(hits(B, v))]
          /\ h = [v \in Actions \X Ids |-> First(hits(B \cup {i}, v))]
      BY <1>2
    <3> HIDE DEF g, h, hits
    <3>2. h = g
      BY <2>5, <3>1, Zenon
    <3> QED
      BY <3>2 DEF g, h
  <2> QED
    BY <2>4, <2>6
<1> QED
  BY <1>6, <1>7

-----------------------------------------------------------------------------
(* The packet threads *)

\* What RInv says of one thread.
KnowsIfClear(t) ==
  /\ pc[t] \in Entering => pkt[t] = NoPacket
  /\ t \notin overlap => Knows(t)

TablesKept == UNCHANGED <<Current, cfg, crypto_enabled, ready, failed>>

\* A thread that does not move keeps what it knows, if the tables stay.
LEMMA StandsStill ==
  ASSUME NEW u \in Threads, KnowsIfClear(u), TablesKept,
         pc'[u] = pc[u], pkt'[u] = pkt[u], u \in overlap => u \in overlap'
  PROVE  KnowsIfClear(u)'
<1>1. Chosen(u) => Chosen(u)'
  BY DEF Chosen, TablesKept
<1>2. UseChosen(u) => UseChosen(u)'
  BY DEF UseChosen, TablesKept
<1>3. Named(u) => Named(u)'
  BY DEF Named, TablesKept
<1>4. Done(u) => Done(u)'
  BY DEF Done, TablesKept
<1> QED
  BY <1>1, <1>2, <1>3, <1>4 DEF KnowsIfClear, Knows

\* A thread's step concerns itself only, and leaves the tables and the reload.
Alone(t) ==
  /\ UNCHANGED <<slots, cfg, runtime, reload>>
  /\ \A u \in Threads \ {t} :
       pc'[u] = pc[u] /\ pkt'[u] = pkt[u] /\ (u \in overlap <=> u \in overlap')

\* A step inside the gate, read off Step.
LEMMA StepFacts ==
  ASSUME TypeOK, NEW t \in Threads, NEW x, NEW y, NEW p, Step(t, x, y, p)
  PROVE  /\ Alone(t)
         /\ pc[t] = x /\ pc'[t] = y /\ pkt'[t] = p /\ overlap' = overlap
<1>1. pc \in [Threads -> Outside \cup Crit] /\ pkt \in [Threads -> Packet]
  BY DEF TypeOK, ThreadType
<1> QED
  BY <1>1 DEF Step, Alone

\* A pin that is removed, or set to the policy it was set for, is current.
LEMMA PinSet ==
  ASSUME TypeOK, PinsCurrent, UNCHANGED <<slots, cfg, runtime, reload>>,
         NEW f \in Flows, NEW x, NEW q,
         pin' = [pin EXCEPT ![f] = x], pinned' = [pinned EXCEPT ![f] = q],
         q = NoPolicy \/ PolicyAt(Current, x) = q
  PROVE  PinsCurrent'
<1>1. pin \in [Flows -> 0 .. MaxPolicies] /\ pinned \in [Flows -> Policy]
  BY DEF TypeOK, PinType
<1>2. UNCHANGED <<Current, crypto_enabled, rpc>>
  BY DEF Current, runtime, reload
<1> QED
  BY <1>1, <1>2 DEF PinsCurrent

\* So are pins that nobody touches.
LEMMA PinsStay ==
  ASSUME PinsCurrent, UNCHANGED <<slots, cfg, runtime, reload, pins>>
  PROVE  PinsCurrent'
BY DEF PinsCurrent, Current, runtime, reload, pins

\* A thread inside the gate finds the runtime of the running configuration.
LEMMA RuntimeInside ==
  ASSUME IInv, GInv, RInv, NEW t \in Threads, pc[t] \in Crit, crypto_enabled,
         NEW i \in DOMAIN Current.policies
  PROVE  /\ i \in Index /\ Current.policies[i] \in Policy
         /\ ready[i] <=> Keyed(Current.policies[i]) /\ i \notin failed
         /\ ready[i] => ctx[i] = Current.policies[i]
         /\ indexById = IndexFor(Current, KeyedIndices(Current) \ failed)
         /\ Current \in Configs
<1>1. Current \in Configs
  BY DEF IInv, TypeOK, SlotType, Current
<1>2. i \in Index /\ Current.policies[i] \in Policy
  BY <1>1, TableFacts
<1>3. rpc \notin {"clear", "fill"}
  BY DEF GInv, ReloadExclusion, Inside, Exclusive
<1>4. LET built == KeyedIndices(Current) \ failed
      IN  /\ \A j \in Index : ready[j] <=> j \in built
          /\ \A j \in built : ctx[j] = Current.policies[j]
          /\ indexById = IndexFor(Current, built)
  BY <1>3 DEF RInv, RuntimeInv, ContextsOfConfig
<1> QED
  BY <1>1, <1>2, <1>4 DEF KeyedIndices

\* Where a packet ends, Done is all there is to know.
LEMMA Leaves ==
  ASSUME NEW t \in Threads, pc'[t] = "leave", t \notin overlap' => Done(t)'
  PROVE  KnowsIfClear(t)'
BY DEF KnowsIfClear, Knows, Entering, Outside

\* What worker_thread knows of its packet survives each of its steps.
LEMMA WorkerKnows ==
  ASSUME IInv, GInv, RInv, NEW t \in Threads, Worker(t)
  PROVE  Alone(t) /\ KnowsIfClear(t)' /\ PinsCurrent'
<1>0. /\ TypeOK /\ PinsCurrent /\ KnowsIfClear(t) /\ pkt[t] \in Packet
      /\ Current \in Configs
      /\ crypto_enabled <=> Enabled(Current)
  BY DEF IInv, RInv, RuntimeInv, PacketInv, KnowsIfClear, TypeOK, ThreadType, SlotType, Current
<1>1. Alone(t) => TablesKept /\ UNCHANGED ctx
  BY DEF Alone, TablesKept, Current, runtime
<1>a. pc[t] \in Entering => pkt[t] = NoPacket
  BY <1>0 DEF KnowsIfClear
<1>2. CASE WorkerNonIp(t)
  <2>1. PICK out \in {"clear", "dropped"} :
          Step(t, "select", "leave", [pkt[t] EXCEPT !.out = out])
    BY <1>2 DEF WorkerNonIp
  <2>2. /\ Alone(t) /\ pc[t] = "select" /\ pc'[t] = "leave"
        /\ pkt'[t] = [pkt[t] EXCEPT !.out = out]
    BY <1>0, <2>1, StepFacts
  <2>3. pkt[t] = NoPacket
    BY <1>a, <2>2 DEF Entering
  <2>4. pkt'[t].out = out /\ pkt'[t].flow = "none"
    BY <2>2, <2>3 DEF NoPacket
  <2>5. Done(t)'
    BY <2>4, PolicyAssumption DEF Done
  <2>6. PinsCurrent'
    BY <1>0, <1>2, <2>2, PinsStay DEF WorkerNonIp, Alone
  <2> QED
    BY <2>2, <2>5, <2>6, Leaves
<1>3. ASSUME NEW f \in Flows, WorkerCryptoOff(t, f)
      PROVE  Alone(t) /\ KnowsIfClear(t)' /\ PinsCurrent'
  <2>1. PICK out \in {"clear", "dropped"} :
          Step(t, "select", "leave", [pkt[t] EXCEPT !.flow = f, !.out = out])
    BY <1>3 DEF WorkerCryptoOff
  <2>2. /\ Alone(t) /\ pc[t] = "select" /\ pc'[t] = "leave"
        /\ pkt'[t] = [pkt[t] EXCEPT !.flow = f, !.out = out]
    BY <1>0, <2>1, StepFacts
  <2>3. pkt[t] = NoPacket
    BY <1>a, <2>2 DEF Entering
  <2>4. pkt'[t].out = out /\ pkt'[t].selected = NoPolicy
    BY <2>2, <2>3 DEF NoPacket
  <2>5. ~Enabled(Current)'
    BY <1>0, <1>1, <1>3, <2>2 DEF WorkerCryptoOff, TablesKept, Enabled
  <2>6. Done(t)'
    BY <2>4, <2>5 DEF Done
  <2>7. PinsCurrent'
    BY <1>0, <1>3, <2>2, PinsStay DEF WorkerCryptoOff, Alone
  <2> QED
    BY <2>2, <2>6, <2>7, Leaves
<1>4. ASSUME NEW f \in Flows, WorkerSelect(t, f)
      PROVE  Alone(t) /\ KnowsIfClear(t)' /\ PinsCurrent'
  <2> DEFINE pinHit == f \in TcpFlows /\ PinValid(f)
             pi == IF pinHit THEN pin[f] ELSE Select(Current, f)
             stale == f \in TcpFlows /\ pin[f] # 0 /\ ~pinHit
  <2>1. /\ crypto_enabled
        /\ IF pi = 0
           THEN Step(t, "select", "leave",
                     [pkt[t] EXCEPT !.flow = f,
                        !.out = IF Enabled(Current) THEN "dropped" ELSE "clear"])
           ELSE Step(t, "select", "index",
                     [pkt[t] EXCEPT !.flow = f, !.cp = [slot |-> cfg, pi |-> pi],
                                    !.selected = PolicyAt(Current, pi)])
        /\ pin' = IF stale THEN [pin EXCEPT ![f] = 0] ELSE pin
        /\ pinned' = IF stale THEN [pinned EXCEPT ![f] = NoPolicy] ELSE pinned
    BY <1>4 DEF WorkerSelect
  <2>2. pi # 0 => pi \in DOMAIN Current.policies
    <3>1. pinHit => pin[f] \in DOMAIN Current.policies
      BY DEF PinValid
    <3>2. Select(Current, f) # 0 => Select(Current, f) \in DOMAIN Current.policies
      <4> DEFINE hits == {i \in DOMAIN Current.policies : f \in Current.policies[i].match}
      <4>1. Select(Current, f) = First(hits)
        BY DEF Select
      <4>2. hits = {} => First(hits) = 0
        BY DEF First
      <4>3. hits # {} => First(hits) \in hits
        BY <1>0, SearchType
      <4> QED
        BY <4>1, <4>2, <4>3
    <3> QED
      BY <3>1, <3>2
  <2> HIDE DEF pi, stale
  <2>3. Alone(t) /\ pc[t] = "select"
    BY <1>0, <2>1, StepFacts
  <2>4. pkt[t] = NoPacket
    BY <1>a, <2>3 DEF Entering
  <2>5. PinsCurrent'
    <3>1. CASE stale
      BY <1>0, <2>1, <2>3, <3>1, PinSet DEF Alone
    <3>2. CASE ~stale
      BY <1>0, <2>1, <2>3, <3>2, PinsStay DEF Alone, pins
    <3> QED
      BY <3>1, <3>2
  <2>6. CASE pi = 0
    <3>1. /\ pc'[t] = "leave"
          /\ pkt'[t] = [pkt[t] EXCEPT !.flow = f,
                          !.out = IF Enabled(Current) THEN "dropped" ELSE "clear"]
      BY <1>0, <2>1, <2>6, StepFacts
    <3>2. pkt'[t].out = "dropped"
      BY <1>0, <2>1, <2>4, <3>1 DEF NoPacket
    <3>3. Done(t)'
      BY <3>2 DEF Done
    <3> QED
      BY <2>3, <2>5, <3>1, <3>3, Leaves
  <2>7. CASE pi # 0
    <3>1. /\ pc'[t] = "index"
          /\ pkt'[t] = [pkt[t] EXCEPT !.flow = f, !.cp = [slot |-> cfg, pi |-> pi],
                                      !.selected = PolicyAt(Current, pi)]
      BY <1>0, <2>1, <2>7, StepFacts
    <3>2. /\ pkt'[t].cp = [slot |-> cfg, pi |-> pi] /\ pkt'[t].out = "none"
          /\ pkt'[t].selected = Current.policies[pi]
      BY <2>2, <2>4, <2>7, <3>1 DEF NoPacket, PolicyAt
    <3>3. TablesKept
      BY <1>1, <2>3
    <3>4. Chosen(t)'
      BY <2>1, <2>2, <2>7, <3>2, <3>3 DEF Chosen, TablesKept
    <3>5. KnowsIfClear(t)'
      BY <3>1, <3>2, <3>4 DEF KnowsIfClear, Knows, Entering, Outside
    <3> QED
      BY <2>3, <2>5, <3>5
  <2> QED
    BY <2>6, <2>7
\* What a thread that no swap has overtaken finds through its pointer.
<1>5. ASSUME t \notin overlap, Chosen(t), pc[t] \in Crit
      PROVE  /\ PointerIndex(pkt[t].cp) = {pkt[t].cp.pi}
             /\ Deref(pkt[t].cp) = pkt[t].selected
             /\ pkt[t].cp.pi \in DOMAIN Current.policies
             /\ pkt[t].cp.pi \in Index /\ pkt[t].cp.pi # 0
             /\ pkt[t].selected = Current.policies[pkt[t].cp.pi]
             /\ pkt[t].selected \in Policy /\ pkt[t].selected # NoPolicy
             /\ ready[pkt[t].cp.pi] <=> Keyed(pkt[t].selected) /\ pkt[t].cp.pi \notin failed
             /\ ready[pkt[t].cp.pi] => ctx[pkt[t].cp.pi] = pkt[t].selected
  <2>1. pkt[t].cp.pi \in DOMAIN Current.policies /\ crypto_enabled /\ pkt[t].cp.slot = cfg
        /\ pkt[t].selected = Current.policies[pkt[t].cp.pi]
    BY <1>5 DEF Chosen
  <2>2. pkt[t].cp.pi \in Index /\ pkt[t].cp.pi # 0 /\ pkt[t].selected # NoPolicy
    BY <1>0, <2>1, TableFacts DEF Index
  <2>3. Deref(pkt[t].cp) = pkt[t].selected
    BY <2>1 DEF Deref, PolicyAt, Current
  <2>4. PointerIndex(pkt[t].cp) = {pkt[t].cp.pi}
    BY <2>1 DEF PointerIndex
  <2> QED
    BY <1>5, <2>1, <2>2, <2>3, <2>4, RuntimeInside
<1>6. CASE WorkerIndex(t)
  <2> DEFINE p == pkt[t]
             encrypts(pi) == /\ Deref(p.cp).action # Bypass
                             /\ pi \in Index /\ ready[pi]
             q(pi) == IF encrypts(pi)
                      THEN [p EXCEPT !.use = pi,
                              !.wire = <<Deref(p.cp).action, Deref(p.cp).id>>]
                      ELSE [p EXCEPT !.use = 0]
  <2>1. PICK pi \in PointerIndex(p.cp) : Step(t, "index", "pin", q(pi))
    BY <1>6 DEF WorkerIndex
  <2>2. Alone(t) /\ pc[t] = "index" /\ pc'[t] = "pin" /\ pkt'[t] = q(pi) /\ overlap' = overlap
    BY <1>0, <2>1, StepFacts
  <2>3. PinsCurrent'
    BY <1>0, <1>6, <2>2, PinsStay DEF WorkerIndex, Alone
  <2>4. ASSUME t \notin overlap
        PROVE  Knows(t)'
    <3>1. Chosen(t) /\ p.out = "none"
      BY <1>0, <2>2, <2>4 DEF KnowsIfClear, Knows
    <3>2. pi = p.cp.pi /\ Deref(p.cp) = p.selected /\ pi \in Index
      BY <1>5, <2>1, <2>2, <2>4, <3>1 DEF Crit
    <3>3. /\ pkt'[t].cp = p.cp /\ pkt'[t].selected = p.selected /\ pkt'[t].out = "none"
          /\ IF p.selected.action # Bypass /\ ready[p.cp.pi]
             THEN /\ pkt'[t].use = p.cp.pi
                  /\ pkt'[t].wire = <<p.selected.action, p.selected.id>>
             ELSE pkt'[t].use = 0
      BY <1>0, <2>2, <3>1, <3>2 DEF Packet
    <3>4. Chosen(t)' /\ UseChosen(t)'
      BY <1>1, <2>2, <3>1, <3>3 DEF Chosen, UseChosen, TablesKept
    <3> QED
      BY <2>2, <3>3, <3>4 DEF Knows
  <2> QED
    BY <2>2, <2>3, <2>4 DEF KnowsIfClear, Entering, Outside
<1>7. CASE WorkerPin(t)
  <2> DEFINE p == pkt[t]
  <2>1. /\ Alone(t) /\ pc[t] = "pin" /\ pc'[t] = "send" /\ pkt'[t] = p /\ overlap' = overlap
    BY <1>0, <1>7, StepFacts DEF WorkerPin
  <2>2. ASSUME t \notin overlap
        PROVE  Chosen(t) /\ UseChosen(t) /\ p.out = "none"
    BY <1>0, <2>1, <2>2 DEF KnowsIfClear, Knows
  <2>3. Knows(t)' \/ t \in overlap
    <3>1. Chosen(t) => Chosen(t)'
      BY <1>1, <2>1 DEF Chosen, TablesKept
    <3>2. UseChosen(t) => UseChosen(t)'
      BY <1>1, <2>1 DEF UseChosen, TablesKept
    <3> QED
      BY <2>1, <2>2, <3>1, <3>2 DEF Knows
  <2>4. PinsCurrent'
    <3>1. PICK pi \in PointerIndex(p.cp) :
            IF /\ crypto_enabled /\ p.flow \in TcpFlows
               /\ pi \in DOMAIN Current.policies
               /\ \/ Deref(p.cp).action = Bypass
                  \/ p.use # 0 /\ ready[pi]
            THEN /\ pin' = [pin EXCEPT ![p.flow] = pi]
                 /\ pinned' = [pinned EXCEPT ![p.flow] =
                                 IF t \in overlap THEN NoPolicy ELSE p.selected]
            ELSE UNCHANGED pins
      BY <1>7 DEF WorkerPin
    <3>2. CASE UNCHANGED pins
      BY <1>0, <2>1, <3>2, PinsStay DEF Alone
    <3>3. CASE /\ pin' = [pin EXCEPT ![p.flow] = pi] /\ p.flow \in TcpFlows
               /\ pinned' = [pinned EXCEPT ![p.flow] =
                               IF t \in overlap THEN NoPolicy ELSE p.selected]
      <4>1. p.flow \in Flows
        BY <3>3, PolicyAssumption
      <4>2. t \notin overlap => PolicyAt(Current, pi) = p.selected
        BY <1>5, <2>1, <2>2, <3>1 DEF Crit, PolicyAt
      <4> QED
        BY <1>0, <2>1, <3>3, <4>1, <4>2, PinSet DEF Alone
    <3> QED
      BY <3>1, <3>2, <3>3
  <2> QED
    BY <2>1, <2>3, <2>4 DEF KnowsIfClear, Entering, Outside
<1>8. CASE WorkerSend(t)
  <2> DEFINE p == pkt[t]
  <2>1. \E q : Step(t, "send", "leave", q)
    BY <1>8 DEF WorkerSend
  <2>2. Alone(t) /\ pc[t] = "send" /\ pc'[t] = "leave" /\ overlap' = overlap
    BY <1>0, <2>1, StepFacts
  <2>3. ASSUME t \notin overlap
        PROVE  /\ Chosen(t) /\ UseChosen(t)
               /\ p.selected # NoPolicy
               /\ p.use # 0 => ctx[p.use] = p.selected
                               /\ p.wire = <<p.selected.action, p.selected.id>>
               /\ p.use = 0 => ~Keyed(p.selected) \/ p.cp.pi \in failed
               /\ \E i \in DOMAIN Current.policies : Current.policies[i] = p.selected
    <3>1. Chosen(t) /\ UseChosen(t)
      BY <1>0, <2>2, <2>3 DEF KnowsIfClear, Knows
    <3> QED
      BY <1>5, <2>2, <2>3, <3>1 DEF UseChosen, Crit, Keyed
  <2>4. CASE p.use = 0 /\ Step(t, "send", "leave", [p EXCEPT !.out = "clear"]) /\ UNCHANGED pins
    <3>1. pkt'[t] = [p EXCEPT !.out = "clear"]
      BY <1>0, <2>4, StepFacts
    <3>2. /\ pkt'[t].out = "clear" /\ pkt'[t].selected = p.selected
          /\ pkt'[t].cp = p.cp
      BY <1>0, <3>1 DEF Packet
    <3>3. t \notin overlap => Done(t)'
      BY <1>1, <2>2, <2>3, <2>4, <3>2 DEF Done, TablesKept
    <3>4. PinsCurrent'
      BY <1>0, <2>2, <2>4, PinsStay DEF Alone
    <3> QED
      BY <2>2, <3>3, <3>4, Leaves
  <2>5. CASE /\ p.use # 0
             /\ Step(t, "send", "leave", [p EXCEPT !.out = "cipher", !.used = ctx[p.use]])
             /\ \/ UNCHANGED pins
                \/ /\ p.flow \in TcpFlows
                   /\ pin' = [pin EXCEPT ![p.flow] = 0]
                   /\ pinned' = [pinned EXCEPT ![p.flow] = NoPolicy]
    <3>1. pkt'[t] = [p EXCEPT !.out = "cipher", !.used = ctx[p.use]]
      BY <1>0, <2>5, StepFacts
    <3>2. /\ pkt'[t].out = "cipher" /\ pkt'[t].selected = p.selected
          /\ pkt'[t].used = ctx[p.use] /\ pkt'[t].wire = p.wire
      BY <1>0, <3>1 DEF Packet
    <3>3. t \notin overlap => Done(t)'
      BY <1>1, <2>2, <2>3, <2>5, <3>2 DEF Done, TablesKept
    <3>4. PinsCurrent'
      BY <1>0, <2>2, <2>5, PinsStay, PinSet, PolicyAssumption DEF Alone
    <3> QED
      BY <2>2, <3>3, <3>4, Leaves
  <2>6. CASE Step(t, "send", "leave", [p EXCEPT !.out = "dropped"]) /\ UNCHANGED pins
    <3>1. pkt'[t] = [p EXCEPT !.out = "dropped"]
      BY <1>0, <2>6, StepFacts
    <3>2. pkt'[t].out = "dropped"
      BY <1>0, <3>1 DEF Packet
    <3>3. Done(t)'
      BY <3>2 DEF Done
    <3>4. PinsCurrent'
      BY <1>0, <2>2, <2>6, PinsStay DEF Alone
    <3> QED
      BY <2>2, <3>3, <3>4, Leaves
  <2> QED
    BY <1>8, <2>4, <2>5, <2>6 DEF WorkerSend
<1> QED
  BY <1>2, <1>3, <1>4, <1>6, <1>7, <1>8 DEF Worker

\* lookup_policy_index finds a policy that has the wire id, or none: by the index
\* as well as by the scan.
LEMMA LookupFinds ==
  ASSUME NEW c \in Configs, NEW w \in Actions \X Ids, NEW B \in SUBSET DOMAIN c.policies,
         indexById = IndexFor(c, B)
  PROVE  /\ LookupPolicyIndex(c, w) # 0 =>
              /\ LookupPolicyIndex(c, w) \in DOMAIN c.policies
              /\ <<c.policies[LookupPolicyIndex(c, w)].action,
                   c.policies[LookupPolicyIndex(c, w)].id>> = w
         /\ indexById[w] \in DOMAIN c.policies =>
              <<c.policies[indexById[w]].action, c.policies[indexById[w]].id>> = w
<1> DEFINE hits(S) == {i \in S : c.policies[i].action = w[1] /\ c.policies[i].id = w[2]}
<1>1. w = <<w[1], w[2]>>
  OBVIOUS
<1>2. indexById[w] = First(hits(B))
  BY DEF IndexFor
<1>3. 0 \notin DOMAIN c.policies
  BY TableFacts DEF Index
<1>4. ASSUME NEW S \in SUBSET DOMAIN c.policies
      PROVE  First(hits(S)) = 0 \/ First(hits(S)) \in hits(S)
  <2>1. hits(S) \in SUBSET DOMAIN c.policies
    OBVIOUS
  <2>2. hits(S) = {} => First(hits(S)) = 0
    BY DEF First
  <2> QED
    BY <2>1, <2>2, SearchType
<1>5. First(hits(B)) = 0 \/ First(hits(B)) \in hits(B)
  BY <1>4
<1>6. First(hits(DOMAIN c.policies)) = 0 \/
      First(hits(DOMAIN c.policies)) \in hits(DOMAIN c.policies)
  BY <1>4
<1>7. LookupPolicyIndex(c, w) =
        IF indexById[w] \in DOMAIN c.policies THEN indexById[w] ELSE First(hits(DOMAIN c.policies))
  BY DEF LookupPolicyIndex
<1> QED
  BY <1>1, <1>2, <1>3, <1>5, <1>6, <1>7

\* What wan_queue_thread_l3l4 knows of its packet survives each of its steps.
LEMMA WanKnows ==
  ASSUME IInv, GInv, RInv, NEW t \in Threads, Wan(t)
  PROVE  Alone(t) /\ KnowsIfClear(t)' /\ PinsCurrent'
<1>0. /\ TypeOK /\ PinsCurrent /\ KnowsIfClear(t) /\ pkt[t] \in Packet
      /\ Current \in Configs
  BY DEF IInv, RInv, PacketInv, KnowsIfClear, TypeOK, ThreadType, SlotType, Current
<1>1. Alone(t) => TablesKept /\ UNCHANGED ctx
  BY DEF Alone, TablesKept, Current, runtime
<1>a. pc[t] \in Entering => pkt[t] = NoPacket
  BY <1>0 DEF KnowsIfClear
<1>b. ASSUME pc[t] \in Crit, crypto_enabled
      PROVE  /\ indexById = IndexFor(Current, KeyedIndices(Current) \ failed)
             /\ KeyedIndices(Current) \ failed \in SUBSET DOMAIN Current.policies
  <2>1. rpc \notin {"clear", "fill"}
    BY <1>b DEF GInv, ReloadExclusion, Inside, Exclusive
  <2> QED
    BY <1>b, <2>1 DEF RInv, RuntimeInv, ContextsOfConfig, KeyedIndices
<1>2. CASE WanPlain(t)
  <2>1. Alone(t) /\ pc[t] = "resolve" /\ pc'[t] = "leave" /\ pkt'[t] = [pkt[t] EXCEPT !.out = "clear"]
    BY <1>0, <1>2, StepFacts DEF WanPlain
  <2>2. pkt'[t].out = "clear" /\ pkt'[t].flow = "none"
    BY <1>a, <2>1 DEF Entering, NoPacket
  <2>3. Done(t)'
    BY <2>2, PolicyAssumption DEF Done
  <2>4. PinsCurrent'
    BY <1>0, <1>2, <2>1, PinsStay DEF WanPlain, Alone
  <2> QED
    BY <2>1, <2>3, <2>4, Leaves
<1>3. ASSUME NEW w \in Actions \X Ids, WanResolve(t, w)
      PROVE  Alone(t) /\ KnowsIfClear(t)' /\ PinsCurrent'
  <2> DEFINE pi == LookupPolicyIndex(Current, w)
             wanPkt == [pkt[t] EXCEPT !.wire = w]
  <2>1. /\ crypto_enabled
        /\ IF pi # 0 /\ ready[pi]
           THEN Step(t, "resolve", "decrypt",
                     [wanPkt EXCEPT !.use = pi, !.cp = [slot |-> cfg, pi |-> pi],
                                    !.selected = PolicyAt(Current, pi)])
           ELSE Step(t, "resolve", "leave", [wanPkt EXCEPT !.out = "dropped"])
        /\ UNCHANGED pins
    BY <1>3 DEF WanResolve
  <2> HIDE DEF pi
  <2>2. Alone(t) /\ pc[t] = "resolve"
    BY <1>0, <2>1, StepFacts
  <2>3. pkt[t] = NoPacket
    BY <1>a, <2>2 DEF Entering
  <2>4. PinsCurrent'
    BY <1>0, <2>1, <2>2, PinsStay DEF Alone
  <2>5. CASE pi # 0 /\ ready[pi]
    <3>1. /\ pc'[t] = "decrypt"
          /\ pkt'[t] = [wanPkt EXCEPT !.use = pi, !.cp = [slot |-> cfg, pi |-> pi],
                                      !.selected = PolicyAt(Current, pi)]
      BY <1>0, <2>1, <2>5, StepFacts
    <3>2. /\ pi \in DOMAIN Current.policies
          /\ <<Current.policies[pi].action, Current.policies[pi].id>> = w
      BY <1>0, <1>b, <2>1, <2>2, <2>5, LookupFinds DEF pi, Crit
    <3>3. /\ pkt'[t].use = pi /\ pkt'[t].wire = w /\ pkt'[t].out = "none"
          /\ pkt'[t].selected = Current.policies[pi]
      BY <2>3, <3>1, <3>2 DEF NoPacket, PolicyAt
    <3>4. Named(t)'
      BY <1>1, <2>1, <2>2, <2>5, <3>2, <3>3 DEF Named, TablesKept
    <3>5. KnowsIfClear(t)'
      BY <3>1, <3>3, <3>4 DEF KnowsIfClear, Knows, Entering, Outside
    <3> QED
      BY <2>2, <2>4, <3>5
  <2>6. CASE ~(pi # 0 /\ ready[pi])
    <3>1. pc'[t] = "leave" /\ pkt'[t] = [wanPkt EXCEPT !.out = "dropped"]
      BY <1>0, <2>1, <2>6, StepFacts
    <3>2. pkt'[t].out = "dropped"
      BY <2>3, <3>1 DEF NoPacket
    <3>3. Done(t)'
      BY <3>2 DEF Done
    <3> QED
      BY <2>2, <2>4, <3>1, <3>3, Leaves
  <2> QED
    BY <2>5, <2>6
<1>4. CASE WanDecrypt(t)
  <2> DEFINE p == pkt[t]
             q == [p EXCEPT !.out = "plain", !.used = ctx[p.use]]
  <2>1. PinsCurrent'
    <3>1. Alone(t)
      BY <1>0, <1>4, StepFacts DEF WanDecrypt
    <3> QED
      BY <1>0, <1>4, <3>1, PinsStay DEF WanDecrypt, Alone
  <2>2. CASE Step(t, "decrypt", "wanpin", q)
    <3>1. /\ Alone(t) /\ pc[t] = "decrypt" /\ pc'[t] = "wanpin" /\ pkt'[t] = q /\ overlap' = overlap
      BY <1>0, <2>2, StepFacts
    <3>2. /\ pkt'[t].out = "plain" /\ pkt'[t].used = ctx[p.use] /\ pkt'[t].selected = p.selected
          /\ pkt'[t].use = p.use /\ pkt'[t].wire = p.wire
      BY <1>0, <3>1 DEF Packet
    <3>3. ASSUME t \notin overlap
          PROVE  Knows(t)'
      <4>1. Named(t)
        BY <1>0, <3>1, <3>3 DEF KnowsIfClear, Knows
      <4>2. ctx[p.use] = p.selected
        BY <3>1, <4>1, RuntimeInside DEF Named, Crit
      <4>3. Named(t)'
        BY <1>1, <3>1, <3>2, <4>1 DEF Named, TablesKept
      <4> QED
        BY <3>1, <3>2, <4>2, <4>3 DEF Knows
    <3> QED
      BY <2>1, <3>1, <3>3 DEF KnowsIfClear, Entering, Outside
  <2>3. CASE Step(t, "decrypt", "leave", [p EXCEPT !.out = "dropped"])
    <3>1. Alone(t) /\ pc'[t] = "leave" /\ pkt'[t] = [p EXCEPT !.out = "dropped"]
      BY <1>0, <2>3, StepFacts
    <3>2. pkt'[t].out = "dropped"
      BY <1>0, <3>1 DEF Packet
    <3>3. Done(t)'
      BY <3>2 DEF Done
    <3> QED
      BY <2>1, <3>1, <3>3, Leaves
  <2> QED
    BY <1>4, <2>2, <2>3 DEF WanDecrypt
<1>5. ASSUME NEW f \in Flows, WanPin(t, f)
      PROVE  Alone(t) /\ KnowsIfClear(t)' /\ PinsCurrent'
  <2> DEFINE p == pkt[t]
  <2>1. /\ Alone(t) /\ pc[t] = "wanpin" /\ pc'[t] = "leave"
        /\ pkt'[t] = [p EXCEPT !.flow = f] /\ overlap' = overlap
    BY <1>0, <1>5, StepFacts DEF WanPin
  <2>2. /\ pkt'[t].out = p.out /\ pkt'[t].used = p.used /\ pkt'[t].wire = p.wire
    BY <1>0, <2>1 DEF Packet
  <2>3. ASSUME t \notin overlap
        PROVE  Named(t) /\ p.out = "plain" /\ p.used = p.selected
    BY <1>0, <2>1, <2>3 DEF KnowsIfClear, Knows
  <2>4. t \notin overlap => Done(t)'
    BY <1>1, <2>1, <2>2, <2>3 DEF Done, Named, TablesKept
  <2>5. CASE UNCHANGED pins
    BY <1>0, <2>1, <2>4, <2>5, PinsStay, Leaves DEF Alone
  <2>6. ASSUME NEW w \in Actions \X Ids, CurrentIndex(w) # 0, crypto_enabled,
               pin' = [pin EXCEPT ![f] = CurrentIndex(w)],
               pinned' = [pinned EXCEPT ![f] =
                           IF t \in overlap THEN NoPolicy
                           ELSE PolicyAt(Current, CurrentIndex(w))]
        PROVE  KnowsIfClear(t)' /\ PinsCurrent'
    <3>1. PinsCurrent'
      BY <1>0, <2>1, <2>6, PinSet DEF Alone
    <3> QED
      BY <2>1, <2>4, <3>1, Leaves
  <2> QED
    BY <1>5, <2>1, <2>5, <2>6 DEF WanPin
<1> QED
  BY <1>2, <1>3, <1>4, <1>5 DEF Wan

\* Every step of a packet thread keeps RInv.
LEMMA ThreadKeeps ==
  ASSUME IInv, GInv, RInv, NEW t \in Threads, Arrive(t) \/ Thread(t)
  PROVE  RInv'
<1>0. /\ TypeOK /\ PinsCurrent /\ RuntimeInv /\ \A u \in Threads : KnowsIfClear(u)
      /\ pc \in [Threads -> Outside \cup Crit] /\ pkt \in [Threads -> Packet]
  BY DEF IInv, RInv, PacketInv, KnowsIfClear, TypeOK, ThreadType
<1>1. ASSUME Alone(t), KnowsIfClear(t)', PinsCurrent'
      PROVE  RInv'
  <2>1. TablesKept /\ UNCHANGED <<slots, next_slot, runtime, reload, Current>>
    BY <1>1 DEF Alone, TablesKept, Current, next_slot, runtime, reload
  <2>2. \A u \in Threads : KnowsIfClear(u)'
    BY <1>0, <1>1, <2>1, StandsStill DEF Alone
  <2>3. ContextsOfConfig'
    BY <1>0, <2>1 DEF RuntimeInv, ContextsOfConfig, runtime, reload
  <2>4. RuntimeInv'
    BY <1>0, <2>1, <2>3 DEF RuntimeInv, RuntimeHolds, runtime, reload
  <2> QED
    BY <1>1, <2>2, <2>4 DEF RInv, PacketInv, KnowsIfClear
\* packet_critical_enter and packet_critical_leave: there is no packet yet, or none any more.
<1>2. CASE Arrive(t) \/ Enter(t)
  <2>1. Alone(t) /\ pkt' = pkt /\ overlap' = overlap /\ UNCHANGED pins
    BY <1>0, <1>2 DEF Arrive, Enter, Spin, Increment, Recheck, Undo, Alone
  <2>2. pc[t] \in Entering /\ pc'[t] \in Entering
    BY <1>0, <1>2 DEF Arrive, Enter, Spin, Increment, Recheck, Undo, AfterUndo, FirstStep,
                      Entering, Outside
  <2>3. KnowsIfClear(t)'
    BY <1>0, <2>1, <2>2 DEF KnowsIfClear, Knows, Entering, Outside
  <2> QED
    BY <1>0, <1>1, <2>1, <2>3, PinsStay DEF Alone
<1>3. CASE Leave(t)
  <2>1. Alone(t) /\ pkt'[t] = NoPacket /\ pc'[t] = "idle" /\ UNCHANGED pins
    BY <1>0, <1>3 DEF Leave, Alone
  <2>2. KnowsIfClear(t)'
    BY <2>1 DEF KnowsIfClear, Knows
  <2> QED
    BY <1>0, <1>1, <2>1, <2>2, PinsStay DEF Alone
<1>4. CASE Enqueue(t)
  <2>1. /\ Alone(t) /\ pkt' = pkt /\ pc[t] = "enqueue" /\ pc'[t] = "leave" /\ UNCHANGED pins
    BY <1>0, <1>4 DEF Enqueue, Alone
  <2>2. pkt'[t].out = "none"
    BY <1>0, <2>1 DEF KnowsIfClear, Entering, NoPacket
  <2>3. Done(t)'
    BY <2>2 DEF Done
  <2> QED
    BY <1>0, <1>1, <2>1, <2>3, Leaves, PinsStay DEF Alone
<1>5. CASE Worker(t)
  BY <1>1, <1>5, WorkerKnows
<1>6. CASE Wan(t)
  BY <1>1, <1>6, WanKnows
<1> QED
  BY <1>2, <1>3, <1>4, <1>5, <1>6 DEF Thread

-----------------------------------------------------------------------------
(* The reload *)

\* The threads stand still: what they know stays true when the tables stay, when
\* none is inside, and when those inside are marked as overtaken.
LEMMA ThreadsWait ==
  ASSUME IInv, RInv, UNCHANGED <<pc, pkt>>,
         \/ TablesKept /\ overlap' = overlap
         \/ Inside = {}
         \/ Inside \subseteq overlap'
  PROVE  PacketInv'
<1>1. \A u \in Threads : KnowsIfClear(u)
  BY DEF RInv, PacketInv, KnowsIfClear
<1>2. ASSUME NEW u \in Threads, u \notin Inside
      PROVE  KnowsIfClear(u)'
  <2>1. pc[u] \in Outside
    BY <1>2 DEF Inside, IInv, TypeOK, ThreadType
  <2> QED
    BY <1>1, <2>1 DEF KnowsIfClear, Knows, Entering, Outside
<1>3. ASSUME NEW u \in Threads, u \in Inside, Inside \subseteq overlap'
      PROVE  KnowsIfClear(u)'
  <2>1. pc[u] \in Entering => pkt[u] = NoPacket
    BY <1>1 DEF KnowsIfClear
  <2> QED
    BY <1>3, <2>1 DEF KnowsIfClear
<1>4. ASSUME NEW u \in Threads, TablesKept, overlap' = overlap
      PROVE  KnowsIfClear(u)'
  BY <1>1, <1>4, StandsStill
<1>5. \A u \in Threads : KnowsIfClear(u)'
  BY <1>2, <1>3, <1>4
<1> QED
  BY <1>5 DEF PacketInv, KnowsIfClear

\* The runtime of a configuration is that of another with the same policies.
LEMMA RuntimeMoves ==
  ASSUME RuntimeInv, PinsCurrent, rpc \notin {"clear", "fill", "pins"},
         ~CryptoChanged(Current, Current'), rpc' \notin {"clear", "fill", "drain", "swap"},
         crypto_enabled' <=> Enabled(Current)',
         UNCHANGED <<ctx, ready, indexById, failed, pins>>
  PROVE  RuntimeInv' /\ PinsCurrent'
<1>1. /\ Enabled(Current) <=> Enabled(Current)'
      /\ KeyedIndices(Current) = KeyedIndices(Current)'
      /\ \A S : IndexFor(Current, S) = IndexFor(Current', S)
      /\ \A i : PolicyAt(Current, i) = PolicyAt(Current', i)
      /\ Current.policies = Current'.policies
  BY SamePolicies DEF CryptoChanged, Enabled, KeyedIndices
<1>2. crypto_enabled' <=> crypto_enabled
  BY <1>1 DEF RuntimeInv
<1>3. ContextsOfConfig'
  BY <1>1, <1>2 DEF RuntimeInv, ContextsOfConfig
<1>4. PinsCurrent'
  BY <1>1, <1>2 DEF PinsCurrent, pins
<1> QED
  BY <1>3, <1>4 DEF RuntimeInv

\* One round of rebuild_crypto_runtime's loop.
LEMMA RebuildRound ==
  ASSUME IInv, RuntimeInv, NEW initOk \in BOOLEAN, RebuildPolicy(initOk)
  PROVE  RuntimeInv'
<1> DEFINE p == Current.policies[fill]
           w == <<p.action, p.id>>
           built == Keyed(p) /\ (p \in old \/ initOk)
           B == {i \in KeyedIndices(Current) : i < fill} \ failed
<1>1. /\ rpc = "fill" /\ fill \in DOMAIN Current.policies
      /\ ctx' = IF built THEN [ctx EXCEPT ![fill] = p] ELSE ctx
      /\ ready' = IF built THEN [ready EXCEPT ![fill] = TRUE] ELSE ready
      /\ indexById' = IF built /\ indexById[w] = 0
                      THEN [indexById EXCEPT ![w] = fill] ELSE indexById
      /\ failed' = IF Keyed(p) /\ ~built THEN failed \cup {fill} ELSE failed
      /\ fill' = fill + 1
      /\ UNCHANGED <<slots, cfg, crypto_enabled, rpc>>
  BY DEF RebuildPolicy
<1>2. /\ Current \in Configs /\ ctx \in [Index -> Policy] /\ ready \in [Index -> BOOLEAN]
      /\ failed \subseteq Index /\ fill \in Nat
  BY DEF IInv, TypeOK, SlotType, RuntimeType, ReloadType, Current
<1>3. /\ DOMAIN Current.policies = 1 .. Len(Current.policies) /\ Len(Current.policies) \in Nat
      /\ DOMAIN Current.policies \subseteq Index
  BY <1>2, TableFacts
<1>4. /\ \A i \in failed : i < fill
      /\ \A i \in Index : ready[i] <=> i \in B
      /\ \A i \in B : ctx[i] = Current.policies[i]
      /\ indexById = IndexFor(Current, B)
  BY <1>1 DEF RuntimeInv, RuntimeHolds
<1>5. Current' = Current /\ KeyedIndices(Current)' = KeyedIndices(Current)
  BY <1>1 DEF Current, KeyedIndices
<1>6. B \in SUBSET DOMAIN Current.policies /\ (\A j \in B : j < fill) /\ fill \notin B
  BY <1>3 DEF KeyedIndices
<1>7. PICK N \in SUBSET KeyedIndices(Current) :
        /\ N = IF built THEN B \cup {fill} ELSE B
        /\ N = {i \in KeyedIndices(Current) : i < fill'} \ failed'
  <2>1. \A i \in DOMAIN Current.policies : i < fill + 1 <=> i < fill \/ i = fill
    BY <1>2, <1>3
  <2>2. fill \in KeyedIndices(Current) <=> Keyed(p)
    BY <1>1 DEF KeyedIndices
  <2>3. fill \notin failed
    BY <1>2, <1>4
  <2>4. KeyedIndices(Current) \subseteq DOMAIN Current.policies
    BY DEF KeyedIndices
  <2>5. (IF built THEN B \cup {fill} ELSE B) =
          {i \in KeyedIndices(Current) : i < fill + 1} \ failed'
    <3>1. CASE built
      BY <1>1, <2>1, <2>2, <2>3, <2>4, <3>1
    <3>2. CASE ~built
      <4>1. CASE Keyed(p)
        <5>1. failed' = failed \cup {fill}
          BY <1>1, <3>2, <4>1
        <5>2. \A i \in DOMAIN Current.policies : i < fill => i # fill
          BY <1>2
        <5> HIDE DEF built
        <5> QED
          BY <2>1, <2>4, <3>2, <5>1, <5>2
      <4>2. CASE ~Keyed(p)
        BY <1>1, <2>1, <2>2, <2>4, <3>2, <4>2
      <4> QED
        BY <4>1, <4>2
    <3> QED
      BY <3>1, <3>2
  <2> QED
    BY <1>1, <2>5
<1>8. /\ \A i \in Index : ready'[i] <=> i \in N
      /\ \A i \in N : ctx'[i] = Current.policies[i]
      /\ indexById' = IndexFor(Current, N)
  <2>1. CASE built
    <3>1. N = B \cup {fill} /\ Keyed(p) /\ fill \in Index
      BY <1>1, <1>3, <1>7, <2>1
    <3>2. indexById' = IndexFor(Current, B \cup {fill})
      <4>1. IndexFor(Current, B \cup {fill}) =
              IF indexById[w] = 0 THEN [indexById EXCEPT ![w] = fill] ELSE indexById
        <5>1. /\ Current \in Configs /\ B \in SUBSET DOMAIN Current.policies
              /\ fill \in DOMAIN Current.policies /\ Keyed(Current.policies[fill])
              /\ \A j \in B : j < fill
          BY <1>1, <1>2, <1>6, <3>1
        <5>2. /\ w = <<Current.policies[fill].action, Current.policies[fill].id>>
              /\ indexById = IndexFor(Current, B)
          BY <1>4
        <5> HIDE DEF B, w, p, built
        <5>3. IndexFor(Current, B \cup {fill}) =
                IF IndexFor(Current, B)[w] = 0
                THEN [IndexFor(Current, B) EXCEPT ![w] = fill] ELSE IndexFor(Current, B)
          BY <5>1, <5>2, IndexGrows
        <5> QED
          BY <5>2, <5>3
      <4>2. indexById' = IF indexById[w] = 0 THEN [indexById EXCEPT ![w] = fill]
                         ELSE indexById
        <5>1. indexById' = IF built /\ indexById[w] = 0
                           THEN [indexById EXCEPT ![w] = fill] ELSE indexById
          BY <1>1
        <5>2. built
          BY <2>1
        <5> HIDE DEF built, w
        <5> QED
          BY <5>1, <5>2
      <4> HIDE DEF B, w
      <4> QED
        BY <4>1, <4>2
    <3>3. \A i \in Index : ready'[i] <=> i \in B \cup {fill}
      <4>1. ready' = [ready EXCEPT ![fill] = TRUE]
        BY <1>1, <2>1
      <4> QED
        BY <1>2, <1>4, <3>1, <4>1
    <3>4. \A i \in B \cup {fill} : ctx'[i] = Current.policies[i]
      <4>1. ctx' = [ctx EXCEPT ![fill] = p]
        BY <1>1, <2>1
      <4>2. B \subseteq Index
        BY <1>3, <1>6
      <4> QED
        BY <1>2, <1>4, <3>1, <4>1, <4>2
    <3> QED
      BY <3>1, <3>2, <3>3, <3>4
  <2>2. CASE ~built
    <3>1. N = B /\ ctx' = ctx /\ ready' = ready /\ indexById' = indexById
      BY <1>1, <1>7, <2>2
    <3> QED
      BY <1>4, <3>1
  <2> QED
    BY <2>1, <2>2
<1>9. RuntimeHolds({i \in KeyedIndices(Current) : i < fill} \ failed)'
  <2>1. N = ({i \in KeyedIndices(Current) : i < fill} \ failed)'
    BY <1>5, <1>7
  <2> HIDE DEF B
  <2> QED
    BY <1>5, <1>7, <1>8, <2>1 DEF RuntimeHolds
<1>10. fill' <= Len(Current.policies)' + 1
  <2>1. fill + 1 <= Len(Current.policies) + 1
    BY <1>1, <1>2, <1>3
  <2> QED
    BY <1>1, <1>5, <2>1
<1>11. \A i \in failed' : i < fill'
  <2>1. \A i \in failed : i < fill + 1
    <3>1. failed \subseteq Nat /\ fill \in Nat
      BY <1>2 DEF Index
    <3>2. ASSUME NEW i \in failed PROVE i < fill + 1
      <4>1. i \in Nat /\ i < fill
        BY <1>4, <3>1
      <4> QED
        BY <3>1, <4>1
    <3> QED
      BY <3>2
  <2>2. fill < fill + 1
    BY <1>2
  <2>3. failed' \subseteq failed \cup {fill}
    BY <1>1
  <2> QED
    BY <1>1, <2>1, <2>2, <2>3
<1>12. ContextsOfConfig' /\ rpc' = "fill"
  BY <1>1 DEF ContextsOfConfig
<1>13. crypto_enabled' <=> Enabled(Current)'
  BY <1>1, <1>5 DEF RuntimeInv, Enabled
<1> QED
  BY <1>9, <1>10, <1>11, <1>12, <1>13 DEF RuntimeInv

\* The main thread's steps that exchange neither a table nor the configuration.
LEMMA MainWaits ==
  ASSUME IInv, RInv, UNCHANGED <<slots, cfg, runtime, pins, thread>>,
         rpc \notin {"clear", "fill", "pins"}, rpc' \notin {"clear", "fill", "pins"},
         \/ rpc' \notin {"drain", "swap"}
         \/ /\ needCrypto' <=> CryptoChanged(Current, slots[next_slot])
            /\ next_slot' = next_slot
  PROVE  RInv'
<1>1. /\ TablesKept /\ UNCHANGED <<slots, ctx, indexById, pc, pkt, overlap, pin, pinned>>
      /\ UNCHANGED <<Current, crypto_enabled, ready, failed>>
  BY DEF TablesKept, Current, runtime, pins, thread
<1>2. PacketInv'
  BY <1>1, ThreadsWait
<1>3. PinsCurrent'
  BY <1>1 DEF RInv, PinsCurrent
<1>4. ContextsOfConfig'
  BY <1>1 DEF RInv, RuntimeInv, ContextsOfConfig
<1>5. CASE rpc' \in {"drain", "swap"}
  <2>1. next_slot' = next_slot /\ (needCrypto' <=> CryptoChanged(Current, slots[next_slot]))
    BY <1>5
  <2>2. needCrypto' <=> CryptoChanged(Current, slots[next_slot])'
    BY <1>1, <2>1
  <2> QED
    BY <1>1, <1>2, <1>3, <1>4, <2>2 DEF RInv, RuntimeInv
<1>6. CASE rpc' \notin {"drain", "swap"}
  BY <1>1, <1>2, <1>3, <1>4, <1>6 DEF RInv, RuntimeInv
<1> QED
  BY <1>5, <1>6

\* Every step of the main thread, and gc_thread's, keeps RInv: the tables are
\* exchanged for those of the same policies, or behind the closed gate.
LEMMA MainKeeps ==
  ASSUME StoreLoadOrdered, IInv, GInv, RInv,
         \/ \E f \in Flows : PinExpires(f)
         \/ \E c \in Configs : Apply(c)
         \/ Reload \/ FlushPause
  PROVE  RInv'
<1>0. /\ TypeOK /\ PinsCurrent /\ RuntimeInv
      /\ slots \in [{0, 1} -> Configs] /\ cfg \in {0, 1} /\ active_slot \in {0, 1}
      /\ next_slot = 1 - active_slot
  BY DEF IInv, RInv, TypeOK, SlotType, ReloadType, next_slot
<1>a. ASSUME UNCHANGED thread, Inside = {} PROVE PacketInv'
  BY <1>a, ThreadsWait DEF thread
<1>b. rpc \in Exclusive => Inside = {}
  BY DEF GInv, ReloadExclusion
<1>1. ASSUME NEW f \in Flows, PinExpires(f)
      PROVE  RInv'
  <2>1. UNCHANGED <<slots, cfg, runtime, reload, thread>>
    BY <1>1 DEF PinExpires
  <2>2. PinsCurrent'
    BY <1>0, <1>1, <2>1, PinSet DEF PinExpires
  <2>3. TablesKept /\ UNCHANGED <<ctx, indexById, rpc, fill, needCrypto, next_slot, pc, pkt, overlap>>
    BY <2>1 DEF TablesKept, Current, runtime, reload, next_slot, thread
  <2>4. PacketInv'
    BY <2>3, ThreadsWait
  <2>5. ContextsOfConfig'
    BY <1>0, <2>3 DEF RuntimeInv, ContextsOfConfig, TablesKept
  <2>6. RuntimeInv'
    BY <1>0, <2>1, <2>3, <2>5 DEF RuntimeInv, RuntimeHolds, TablesKept
  <2> QED
    BY <2>2, <2>4, <2>6 DEF RInv
<1>2. ASSUME NEW c \in Configs, Apply(c)
      PROVE  RInv'
  <2>1. /\ rpc = "idle" /\ rpc' = "check" /\ cfg = active_slot /\ next_slot # cfg
        /\ UNCHANGED <<cfg, runtime, pins, thread>>
    BY <1>0, <1>2 DEF Apply, GInv, SlotsInUse, Swapped
  <2>2. Current' = Current
    BY <1>0, <1>2, <2>1 DEF Apply, Current
  <2>3. TablesKept /\ UNCHANGED <<ctx, indexById, pc, pkt, overlap, pin, pinned>>
    BY <2>1, <2>2 DEF TablesKept, runtime, pins, thread
  <2>4. PacketInv'
    BY <2>3, ThreadsWait
  <2>5. RuntimeInv' /\ PinsCurrent'
    BY <1>0, <2>1, <2>3 DEF RuntimeInv, ContextsOfConfig, PinsCurrent, TablesKept
  <2> QED
    BY <2>4, <2>5 DEF RInv
<1>3. CASE ReloadRejected \/ ReloadUnpause
  <2>1. /\ rpc \in {"check", "unpause"} /\ rpc' = "idle"
        /\ UNCHANGED <<slots, cfg, runtime, pins, thread>>
    BY <1>3 DEF ReloadRejected, ReloadUnpause
  <2> QED
    BY <2>1, MainWaits
<1>4. CASE ReloadPause \/ ReloadDrain
  <2>1. /\ rpc \in {"check", "drain"} /\ rpc' \in {"drain", "swap"}
        /\ UNCHANGED <<slots, cfg, runtime, pins, thread, next_slot>>
    BY <1>4 DEF ReloadPause, ReloadDrain, next_slot
  <2>2. needCrypto' <=> CryptoChanged(Current, slots[next_slot])
    BY <1>0, <1>4 DEF ReloadPause, ReloadDrain, RuntimeInv
  <2> QED
    BY <2>1, <2>2, MainWaits
<1>5. CASE ReloadFast
  <2>1. /\ rpc = "check" /\ rpc' = "idle" /\ cfg' = next_slot /\ overlap' = Inside
        /\ UNCHANGED <<slots, pc, pkt, pins, runtime>>
        /\ ~CryptoChanged(Current, slots[next_slot])
    BY <1>5 DEF ReloadFast, NothingChanged
  <2>2. Current' = slots[next_slot]
    BY <2>1 DEF Current
  <2>3. UNCHANGED <<ctx, ready, indexById, failed, crypto_enabled>>
    BY <2>1 DEF runtime
  <2>4. crypto_enabled' <=> Enabled(Current)'
    BY <1>0, <2>1, <2>2, <2>3, SamePolicies DEF RuntimeInv, Enabled, CryptoChanged
  <2>5. RuntimeInv' /\ PinsCurrent'
    BY <1>0, <2>1, <2>2, <2>3, <2>4, RuntimeMoves
  <2>6. PacketInv'
    BY <2>1, ThreadsWait
  <2> QED
    BY <2>5, <2>6 DEF RInv
<1>6. CASE ReloadSwap
  <2>1. /\ rpc = "swap" /\ cfg' = next_slot
        /\ rpc' = IF Enabled(slots[next_slot]) /\ needCrypto THEN "clear" ELSE "unpause"
        /\ crypto_enabled' = Enabled(slots[next_slot])
        /\ UNCHANGED <<slots, ctx, ready, indexById, failed, pins, thread>>
    BY <1>6 DEF ReloadSwap
  <2>2. Current' = slots[next_slot]
    BY <2>1 DEF Current
  <2>3. PacketInv'
    BY <1>a, <1>b, <2>1 DEF Exclusive
  <2>4. crypto_enabled' <=> Enabled(Current)'
    BY <2>1, <2>2 DEF Enabled
  <2>5. CASE ~Enabled(slots[next_slot])
    <3>1. ~crypto_enabled' /\ rpc' = "unpause"
      BY <2>1, <2>5
    <3> QED
      BY <2>3, <2>4, <3>1 DEF RInv, RuntimeInv, ContextsOfConfig, PinsCurrent
  <2>6. CASE Enabled(slots[next_slot]) /\ needCrypto
    <3>1. rpc' = "clear"
      BY <2>1, <2>6
    <3> QED
      BY <2>3, <2>4, <3>1 DEF RInv, RuntimeInv, ContextsOfConfig, PinsCurrent
  <2>7. CASE ~needCrypto
    <3>1. ~CryptoChanged(Current, slots[next_slot])
      BY <1>0, <2>1, <2>7 DEF RuntimeInv
    <3>2. rpc' = "unpause"
      BY <2>1, <2>7
    <3>3. RuntimeInv' /\ PinsCurrent'
      BY <1>0, <2>1, <2>2, <2>4, <3>1, <3>2, RuntimeMoves
    <3> QED
      BY <2>3, <3>3 DEF RInv
  <2> QED
    BY <2>5, <2>6, <2>7
<1>7. CASE RebuildClear
  <2>1. /\ rpc = "clear" /\ rpc' = "fill" /\ fill' = 1 /\ failed' = {}
        /\ ready' = [i \in Index |-> FALSE] /\ indexById' = IndexEmpty
        /\ UNCHANGED <<slots, cfg, crypto_enabled, thread>>
    BY <1>7 DEF RebuildClear, ClearedIndex
  <2>2. Current' = Current /\ Current \in Configs
    BY <1>0, <2>1 DEF Current
  <2>3. PacketInv'
    BY <1>a, <1>b, <2>1 DEF Exclusive
  <2>4. ({i \in KeyedIndices(Current) : i < fill} \ failed)' = {}
    <3>1. KeyedIndices(Current)' \subseteq DOMAIN Current.policies
      BY <2>2 DEF KeyedIndices
    <3>2. \A i \in DOMAIN Current.policies : ~(i < 1)
      BY <2>2, TableFacts
    <3> QED
      BY <2>1, <3>1, <3>2
  <2>5. indexById' = IndexFor(Current, {})
    <3>1. \A a, b : First({i \in {} : Current.policies[i].action = a /\ Current.policies[i].id = b}) = 0
      BY DEF First
    <3> QED
      BY <2>1, <3>1 DEF IndexFor, IndexEmpty
  <2>6. RuntimeHolds({i \in KeyedIndices(Current) : i < fill} \ failed)'
    BY <2>1, <2>2, <2>4, <2>5 DEF RuntimeHolds
  <2>7. fill' <= Len(Current.policies)' + 1
    BY <2>1, <2>2, TableFacts
  <2>8. RuntimeInv' /\ PinsCurrent'
    BY <1>0, <2>1, <2>2, <2>6, <2>7 DEF RuntimeInv, ContextsOfConfig, PinsCurrent
  <2> QED
    BY <2>3, <2>8 DEF RInv
<1>8. ASSUME NEW initOk \in BOOLEAN, RebuildPolicy(initOk)
      PROVE  RInv'
  <2>1. rpc = "fill" /\ rpc' = "fill" /\ UNCHANGED thread
    BY <1>8 DEF RebuildPolicy
  <2>2. PacketInv'
    BY <1>a, <1>b, <2>1 DEF Exclusive
  <2>3. RuntimeInv'
    BY <1>0, <1>8, RebuildRound
  <2>4. PinsCurrent'
    BY <2>1 DEF PinsCurrent
  <2> QED
    BY <2>2, <2>3, <2>4 DEF RInv
<1>9. CASE RebuildDone
  <2>1. /\ rpc = "fill" /\ fill \notin DOMAIN Current.policies /\ rpc' = "pins"
        /\ UNCHANGED <<slots, cfg, runtime, thread>>
    BY <1>9 DEF RebuildDone
  <2>2. TablesKept /\ UNCHANGED <<ctx, indexById>>
    BY <2>1 DEF TablesKept, Current, runtime
  <2>3. PacketInv'
    BY <1>a, <1>b, <2>1 DEF Exclusive
  <2>4. {i \in KeyedIndices(Current) : i < fill} = KeyedIndices(Current)
    <3>1. /\ DOMAIN Current.policies = 1 .. Len(Current.policies)
          /\ Len(Current.policies) \in Nat
      BY <1>0, TableFacts DEF Current
    <3>2. fill \in Nat /\ fill >= 1
      BY <1>0 DEF TypeOK, ReloadType, PolicyAssumption
    <3>3. \A i \in DOMAIN Current.policies : i < fill
      BY <2>1, <3>1, <3>2
    <3> QED
      BY <3>3 DEF KeyedIndices
  <2>5. RuntimeHolds(KeyedIndices(Current) \ failed)
    BY <1>0, <2>1, <2>4 DEF RuntimeInv
  <2>6. ContextsOfConfig'
    BY <2>2, <2>5 DEF RuntimeHolds, ContextsOfConfig, TablesKept
  <2>7. RuntimeInv' /\ PinsCurrent'
    BY <1>0, <2>1, <2>2, <2>6 DEF RuntimeInv, PinsCurrent, TablesKept
  <2> QED
    BY <2>3, <2>7 DEF RInv
<1>10. CASE ClearPins
  <2>1. /\ rpc = "pins" /\ rpc' = "unpause" /\ pin' = [f \in Flows |-> 0]
        /\ pinned' = [f \in Flows |-> NoPolicy]
        /\ UNCHANGED <<slots, cfg, runtime, thread>>
    BY <1>10 DEF ClearPins, ClearedPins
  <2>2. TablesKept /\ UNCHANGED <<ctx, indexById>>
    BY <2>1 DEF TablesKept, Current, runtime
  <2>3. PacketInv'
    BY <1>a, <1>b, <2>1 DEF Exclusive
  <2>4. ContextsOfConfig'
    BY <1>0, <2>1, <2>2 DEF RuntimeInv, ContextsOfConfig, TablesKept
  <2>5. RuntimeInv' /\ PinsCurrent'
    BY <1>0, <2>1, <2>2, <2>4 DEF RuntimeInv, PinsCurrent, TablesKept
  <2> QED
    BY <2>3, <2>5 DEF RInv
<1>11. ~FlushPause
  BY DEF FlushPause, GInv, GateShut
<1> QED
  BY <1>1, <1>2, <1>3, <1>4, <1>5, <1>6, <1>7, <1>8, <1>9, <1>10, <1>11 DEF Reload

-----------------------------------------------------------------------------
(* The theorems *)

\* forwarder_init builds the runtime of the configuration it is given, and no
\* packet is there yet: RInv holds.
LEMMA InitRInv == Init => RInv
<1> SUFFICES ASSUME Init PROVE RInv
  OBVIOUS
<1>1. /\ Current = InitialConfig /\ rpc = "idle" /\ failed = {}
      /\ pc = [t \in Threads |-> "idle"] /\ pkt = [t \in Threads |-> NoPacket]
      /\ pinned = [f \in Flows |-> NoPolicy]
  BY DEF Init, Current
<1>2. KeyedIndices(InitialConfig) \subseteq Index
  BY ConfigsAssumption, TableFacts DEF KeyedIndices
<1>3. ContextsOfConfig
  BY <1>1, <1>2 DEF Init, ContextsOfConfig
<1>4. RuntimeInv
  BY <1>1, <1>3 DEF RuntimeInv, Init
<1>5. PinsCurrent
  BY <1>1 DEF PinsCurrent
<1>6. PacketInv
  BY <1>1 DEF PacketInv, Knows
<1> QED
  BY <1>4, <1>5, <1>6 DEF RInv

\* RInv is inductive, given the invariants of the types, the count and the gate.
LEMMA StepRInv ==
  ASSUME StoreLoadOrdered, IInv, GInv, RInv, [Next]_vars
  PROVE  RInv'
<1>1. CASE UNCHANGED vars
  <2>1. /\ TablesKept /\ UNCHANGED <<slots, next_slot, ctx, indexById, pc, pkt, overlap, pin, pinned,
                                     rpc, fill, needCrypto>>
    BY <1>1 DEF vars, TablesKept, Current, next_slot, runtime, reload, thread, pins
  <2>2. PacketInv'
    BY <2>1, ThreadsWait
  <2>3. ContextsOfConfig' /\ PinsCurrent'
    BY <2>1 DEF RInv, RuntimeInv, ContextsOfConfig, PinsCurrent, TablesKept
  <2>4. RuntimeInv'
    BY <2>1, <2>3 DEF RInv, RuntimeInv, RuntimeHolds, TablesKept
  <2> QED
    BY <2>2, <2>3, <2>4 DEF RInv
<1> QED
  BY <1>1, ThreadKeeps, MainKeeps DEF Next

LEMMA AlwaysRInv ==
  ASSUME StoreLoadOrdered
  PROVE  Spec => [](IInv /\ RInv)
<1>1. Init => IInv /\ GInv /\ RInv
  BY InitIInv, InitGInv, InitRInv
<1>2. IInv /\ GInv /\ RInv /\ [Next]_vars => (IInv /\ GInv /\ RInv)'
  BY StepIInv, StepGInv, StepRInv
<1> QED
  BY <1>1, <1>2, PTL DEF Spec

\* What a thread knows on its way covers what PacketsByPolicy says of it: a
\* packet has an outcome only where it leaves, or where a packet from a WAN is
\* about to be pinned.
LEMMA OutcomeKnown ==
  ASSUME IInv, RInv, NEW t \in Threads \ overlap
  PROVE  Done(t)
<1>1. pc[t] \in Outside \cup Crit /\ Knows(t) /\ (pc[t] \in Entering => pkt[t] = NoPacket)
  BY DEF IInv, TypeOK, ThreadType, RInv, PacketInv
<1>2. CASE pkt[t].out = "none"
  BY <1>2 DEF Done
<1>3. CASE pc[t] = "wanpin"
  BY <1>1, <1>3 DEF Knows, Done, Named
<1>4. CASE pc[t] = "leave"
  BY <1>1, <1>4 DEF Knows
<1>5. CASE pc[t] \in Entering
  BY <1>1, <1>2, <1>5 DEF NoPacket
<1> QED
  BY <1>1, <1>2, <1>3, <1>4, <1>5 DEF Knows, Entering, Outside, Crit

\* Through every sequence of reloads, and whatever the packet threads do
\* meanwhile, the contexts, their ready flags, the wire id index and the TCP
\* pins are those of the configuration fwd->cfg points to.
THEOREM RuntimeCorrect ==
  ASSUME StoreLoadOrdered
  PROVE  Spec => []RuntimeOfConfig
<1>1. RInv => RuntimeOfConfig
  BY DEF RInv, RuntimeInv, RuntimeOfConfig
<1> QED
  BY <1>1, AlwaysRInv, PTL

\* For any number of packet threads, flows and policies: a packet is encrypted,
\* sent in clear or decrypted as the policy it was selected for says, in every
\* interleaving of worker_thread and wan_queue_thread_l3l4 with the reloads.
THEOREM PacketsCorrect ==
  ASSUME StoreLoadOrdered
  PROVE  Spec => []PacketsByPolicy
<1>1. ASSUME IInv, RInv PROVE PacketsByPolicy
  BY <1>1, OutcomeKnown
     DEF PacketsByPolicy, EncryptedAsSelected, ClearOnlyByPolicy, DecryptedByWireId, Done, Threads
<1> QED
  BY <1>1, AlwaysRInv, PTL

=============================================================================
