------------------------------ MODULE WanSelect ------------------------------
(***************************************************************************)
(* How a packet of a LAN gets its WAN: select_wan_idx_for_packet of        *)
(* core/forwarder.c and the tables of core/flow_table.c.                   *)
(*                                                                         *)
(* A profile with several WANs spreads its packets by weighted round       *)
(* robin: one counter of the process, g_pkt_wrr_seq, is taken modulo the   *)
(* sum of the profile's weights.  A profile with one WAN uses it.  A       *)
(* packet that finds no WAN this way (its profile's rows changed between   *)
(* the two queries that load them) goes by the flow table: a flow stays on *)
(* a WAN for that WAN's window of bytes, then moves to the next one, and   *)
(* is forgotten FLOW_TIMEOUT_SEC after it was last seen.                   *)
(*                                                                         *)
(* Data abstractions: a flow is a pair of hosts, as flow_table_get_wan     *)
(* keys it; a packet is its length; the code of a bucket's critical        *)
(* section is one step, for nothing reads the bucket without its lock.     *)
(***************************************************************************)
EXTENDS Integers, FiniteSets, Sequences, SequencesExt

CONSTANTS
  NWan,              \* cfg->wan_count
  NProfile,          \* cfg->profile_count
  WanLists,          \* the lists of WANs and weights each profile may have
  Flow,              \* the flows without a WAN of their profile
  BucketOf,          \* flow_hash_ips
  Worker,            \* the threads that select a WAN
  Lens,              \* packet lengths
  BaseWindow,        \* WAN_REORDER_WINDOW_KB, in bytes
  MinWindow,         \* min_bytes
  FLOW_TIMEOUT_SEC,
  Wrap,              \* 2^64, the values of a uint64_t
  ByteWrap,          \* 2^32, the values of byte_count
  IntMax,            \* INT_MAX
  MaxDelay,          \* seconds a thread takes from clock_gettime to the lock
  MaxClock,          \* bound: seconds followed
  MaxPicks           \* bound: packets picked by round robin

Wan == 0 .. (NWan - 1)
Profile == 1 .. NProfile
Bucket == {BucketOf[f] : f \in Flow}

ASSUME WanSelectAssumption ==
  /\ {NWan, IntMax, MinWindow} \subseteq Nat \ {0}
  /\ {NProfile, BaseWindow, FLOW_TIMEOUT_SEC, MaxDelay, MaxClock, MaxPicks} \subseteq Nat
  /\ MinWindow <= BaseWindow /\ Lens \subseteq Nat \ {0}
  /\ Wrap \in Nat /\ Wrap > FLOW_TIMEOUT_SEC + MaxClock
  /\ ByteWrap \in Nat /\ \A n \in Lens : ByteWrap > BaseWindow + n
  /\ DOMAIN BucketOf = Flow /\ Bucket \subseteq Nat
  /\ \A p \in Profile : WanLists[p] \subseteq Seq([wan : Int, weight : Int])

VARIABLES
  wans,      \* wan_indices and wan_bandwidth_weight of each profile
  seq,       \* g_pkt_wrr_seq
  window,    \* wan_window_sizes
  next_wan,  \* the static counter of get_next_wan
  entry,     \* the flow table
  job,       \* what each thread does: a packet, and the clock it read
  gc,        \* flow_table_gc: its clock and the bucket it comes to
  clock,     \* CLOCK_MONOTONIC
  picked,    \* ghost: a profile's last picks, as many as its weights add up to
  stay,      \* ghost: bytes a flow sent since it is on its WAN
  last       \* ghost: when a flow's last packet was handled

vars == <<wans, seq, window, next_wan, entry, job, gc, clock, picked, stay, last>>
pick == <<wans, seq, picked>>
flows == <<window, next_wan, entry, job, gc, clock, stay, last>>

NoJob == [flow |-> "none", len |-> 0, now |-> 0]
NoEntry == [live |-> FALSE, wan |-> 0, bytes |-> 0, seen |-> 0]
NoGc == [on |-> FALSE, now |-> 0, i |-> 0]

-----------------------------------------------------------------------------
(* A profile's WANs. *)
AnyWeight(l) == \E i \in DOMAIN l : l[i].weight > 0

Usable(l, e) == e.wan \in Wan /\ (AnyWeight(l) => e.weight > 0)

Allowed(l) == FoldLeft(LAMBDA s, e : IF Usable(l, e) THEN Append(s, e) ELSE s, <<>>, l)

\* Without weights (wp = NULL) the WANs take turns, as if each weighed one.
Share(l, e) == IF AnyWeight(l) THEN e.weight ELSE 1

SharesTo(l) ==
  LET a == Allowed(l)
      acc[i \in 0 .. Len(a)] == IF i = 0 THEN 0 ELSE acc[i - 1] + Share(l, a[i])
  IN  acc

Round(l) == SharesTo(l)[Len(Allowed(l))]

\* Wrong variant, used by no action: the slot may equal the running sum.
PickPerPacketLate(l, n) ==
  LET s == n % Round(l)
  IN  Allowed(l)[CHOOSE i \in DOMAIN Allowed(l) :
                   s <= SharesTo(l)[i] /\ \A j \in 1 .. (i - 1) : s > SharesTo(l)[j]].wan

PickPerPacket(l, n) ==
  LET s == n % Round(l)  to == SharesTo(l)  a == Allowed(l)
  IN  a[CHOOSE i \in DOMAIN a : to[i - 1] <= s /\ s < to[i]].wan

(* compute_profile_weighted_wan_windows: the last profile with a weight for *)
(* the WAN decides, and in it the last such row.                            *)
Weighing(ws, w) ==
  {p \in Profile : \E i \in DOMAIN ws[p] : ws[p][i].wan = w /\ ws[p][i].weight > 0}

WeightSum(l) == FoldLeft(LAMBDA s, e : IF e.weight > 0 THEN s + e.weight ELSE s, 0, l)

Clamped(bytes) == IF bytes < MinWindow THEN MinWindow
                  ELSE IF bytes > BaseWindow THEN BaseWindow ELSE bytes

WindowSize(ws, w) ==
  IF Weighing(ws, w) = {} THEN BaseWindow
  ELSE LET l == ws[CHOOSE p \in Weighing(ws, w) : \A q \in Weighing(ws, w) : q <= p]
           i == Max({j \in DOMAIN l : l[j].wan = w /\ l[j].weight > 0})
       IN  Clamped((BaseWindow * l[i].weight) \div WeightSum(l))

Init ==
  /\ wans \in {ws \in [Profile -> UNION {WanLists[p] : p \in Profile}] :
                 \A p \in Profile : ws[p] \in WanLists[p]}
  /\ window = [w \in Wan |-> WindowSize(wans, w)]
  /\ seq = 0 /\ next_wan = 0
  /\ entry = [f \in Flow |-> NoEntry]
  /\ job = [t \in Worker |-> NoJob]
  /\ gc = NoGc /\ clock = 0
  /\ picked = [p \in Profile |-> <<>>]
  /\ stay = [f \in Flow |-> 0] /\ last = [f \in Flow |-> 0]

-----------------------------------------------------------------------------
(* A packet of a profile with WANs.  One WAN leaves the counter alone. *)
Remember(p, w) ==
  LET s == Append(picked[p], w)
  IN  picked' = [picked EXCEPT ![p] = IF Len(s) > Round(wans[p]) THEN Tail(s) ELSE s]

PickOnly(p) ==
  /\ Len(Allowed(wans[p])) = 1
  /\ Remember(p, Allowed(wans[p])[1].wan)
  /\ UNCHANGED <<wans, seq, flows>>

PickNext(p) ==
  /\ Len(Allowed(wans[p])) > 1 /\ seq < MaxPicks
  /\ Remember(p, PickPerPacket(wans[p], seq))
  /\ seq' = seq + 1
  /\ UNCHANGED <<wans, flows>>

\* A reload that keeps the interfaces may bring other weights; the windows
\* stay as forwarder_init computed them.
Reload(p) ==
  /\ wans' \in {[wans EXCEPT ![p] = l] : l \in WanLists[p]}
  /\ wans' # wans
  /\ picked' = [picked EXCEPT ![p] = <<>>]
  /\ UNCHANGED <<seq, flows>>

-----------------------------------------------------------------------------
(* A packet that goes by the flow table. *)
ReadClock(t) ==
  /\ job[t] = NoJob
  /\ \E f \in Flow, n \in Lens : job' = [job EXCEPT ![t] = [flow |-> f, len |-> n, now |-> clock]]
  /\ UNCHANGED <<pick, window, next_wan, entry, gc, clock, stay, last>>

Done(t) == job' = [job EXCEPT ![t] = NoJob]

Handled(t) == last' = [last EXCEPT ![job[t].flow] = clock]

WindowOf(w) == IF w \in Wan THEN window[w] ELSE 0

\* Wrong variants, used by no action: the window itself is still allowed; the
\* next WAN is not taken modulo their number.
SpentLate(f, n) == WindowOf(entry[f].wan) > 0 /\ entry[f].bytes + n > WindowOf(entry[f].wan)

Spent(f, n) == WindowOf(entry[f].wan) > 0 /\ entry[f].bytes + n >= WindowOf(entry[f].wan)

CountedPast(f, n) ==
  IF Spent(f, n) THEN [entry[f] EXCEPT !.bytes = 0, !.wan = @ + 1]
  ELSE [entry[f] EXCEPT !.bytes = (@ + n) % ByteWrap]

Counted(f, n) ==
  IF Spent(f, n) THEN [entry[f] EXCEPT !.bytes = 0, !.wan = (@ + 1) % NWan]
  ELSE [entry[f] EXCEPT !.bytes = (@ + n) % ByteWrap]

Lookup(t) ==
  LET f == job[t].flow  n == job[t].len IN
  /\ job[t] # NoJob /\ entry[f].live
  /\ entry' = [entry EXCEPT ![f] = [Counted(f, n) EXCEPT !.seen = job[t].now]]
  /\ stay' = [stay EXCEPT ![f] = IF entry'[f].wan # entry[f].wan THEN n
                                  ELSE IF entry[f].wan \in Wan THEN @ + n ELSE @]
  /\ Done(t) /\ Handled(t)
  /\ UNCHANGED <<pick, window, next_wan, gc, clock>>

\* get_next_wan: C's remainder has the sign of the dividend, and negating
\* INT_MIN leaves it as it is.
FirstWan(n) == IF n >= 0 THEN n % NWan
               ELSE IF n = -IntMax - 1 THEN -((-n) % NWan) ELSE (-n) % NWan

Insert(t) ==
  LET f == job[t].flow  n == job[t].len IN
  /\ job[t] # NoJob /\ ~entry[f].live
  /\ entry' = [entry EXCEPT ![f] = [live |-> TRUE, wan |-> FirstWan(next_wan),
                                    bytes |-> n, seen |-> job[t].now]]
  /\ next_wan' = IF next_wan = IntMax THEN -IntMax - 1 ELSE next_wan + 1
  /\ stay' = [stay EXCEPT ![f] = n]
  /\ Done(t) /\ Handled(t)
  /\ UNCHANGED <<pick, window, gc, clock>>

\* malloc fails: WAN 0, and no entry.
InsertFails(t) ==
  /\ job[t] # NoJob /\ ~entry[job[t].flow].live
  /\ Done(t)
  /\ UNCHANGED <<pick, window, next_wan, entry, gc, clock, stay, last>>

-----------------------------------------------------------------------------
(* flow_table_gc reads the clock once and goes through all buckets. *)
GcBegin ==
  /\ ~gc.on
  /\ gc' = [on |-> TRUE, now |-> clock, i |-> 0]
  /\ UNCHANGED <<pick, window, next_wan, entry, job, clock, stay, last>>

\* now - last_seen is unsigned.
Idle(now, seen) == (now - seen) % Wrap

\* Wrong variant, used by no action: as soon as the timeout is reached.
StaleEarly(f) == Idle(gc.now, entry[f].seen) >= FLOW_TIMEOUT_SEC

Stale(f) == Idle(gc.now, entry[f].seen) > FLOW_TIMEOUT_SEC

GcBucket ==
  /\ gc.on /\ \E b \in Bucket : b >= gc.i
  /\ LET b == CHOOSE c \in Bucket : c >= gc.i /\ \A d \in Bucket : d >= gc.i => c <= d
     IN  /\ entry' = [f \in Flow |->
                        IF BucketOf[f] = b /\ entry[f].live /\ Stale(f) THEN NoEntry ELSE entry[f]]
         /\ gc' = [gc EXCEPT !.i = b + 1]
  /\ UNCHANGED <<pick, window, next_wan, job, clock, stay, last>>

GcEnd ==
  /\ gc.on /\ \A b \in Bucket : b < gc.i
  /\ gc' = NoGc
  /\ UNCHANGED <<pick, window, next_wan, entry, job, clock, stay, last>>

Tick ==
  /\ clock < MaxClock
  /\ \A t \in Worker : job[t] # NoJob => clock - job[t].now < MaxDelay
  /\ clock' = clock + 1
  /\ UNCHANGED <<pick, window, next_wan, entry, job, gc, stay, last>>

Next ==
  \/ \E p \in Profile : PickOnly(p) \/ PickNext(p) \/ Reload(p)
  \/ \E t \in Worker : ReadClock(t) \/ Lookup(t) \/ Insert(t) \/ InsertFails(t)
  \/ GcBegin \/ GcBucket \/ GcEnd
  \/ Tick

Spec == Init /\ [][Next]_vars

-----------------------------------------------------------------------------
(* The counters, the table and the threads hold what the code's types do. *)
TypeOK ==
  /\ seq \in 0 .. MaxPicks /\ clock \in 0 .. MaxClock
  /\ next_wan \in (-IntMax - 1) .. IntMax
  /\ window \in [Wan -> MinWindow .. BaseWindow]
  /\ \A f \in Flow : entry[f].wan \in (1 - NWan) .. (NWan - 1)
  /\ \A t \in Worker : job[t] = NoJob \/ (job[t].flow \in Flow /\ job[t].now <= clock)

(* The parts of a round that are a WAN's: as many of each row of the list   *)
(* that names it as the row weighs.                                         *)
Parts(l, w) ==
  LET rows == {i \in DOMAIN Allowed(l) : Allowed(l)[i].wan = w}
  IN  UNION {{i} \X (1 .. Share(l, Allowed(l)[i])) : i \in rows}

(* Over any round of as many packets of a profile as its weights add up to, *)
(* every WAN of it gets exactly its weight of them: what weighted round     *)
(* robin (flow_table_pick_wan_per_packet) is to give.  It holds while one   *)
(* profile at most has several WANs, for then only that one's packets take  *)
(* the counter; a second such profile takes turns out of the first one's.   *)
WeightedShare ==
  \A p \in Profile :
    Len(picked[p]) = Round(wans[p]) =>
      \A w \in Wan :
        Cardinality({k \in DOMAIN picked[p] : picked[p][k] = w})
          = Cardinality(Parts(wans[p], w))

(* No WAN carries a flow for more than its window and one packet at a time. *)
WindowSpent ==
  \A f \in Flow :
    entry[f].live /\ entry[f].wan \in Wan =>
      \A n \in Lens : (\A m \in Lens : m <= n) => stay[f] < window[entry[f].wan] + n

(* A flow stays on a WAN for the WAN's window and no longer: it leaves for  *)
(* the next one only when, with the packet that moves it, it has sent the   *)
(* window there, so that its packets are not spread over the WANs more      *)
(* often than flow_table_get_wan means them to, and no WAN carries it for   *)
(* more than the window and one packet.  With one WAN there is no next one. *)
WindowsKept ==
  [][/\ WindowSpent'
     /\ \A f \in Flow :
          entry[f].live /\ entry'[f].live /\ entry'[f].wan # entry[f].wan =>
            /\ entry'[f].wan = (entry[f].wan + 1) % NWan
            /\ stay[f] + stay'[f] >= window[entry[f].wan]]_vars

(* flow_table_gc forgets only flows that were idle for the timeout, give or *)
(* take the delay of a thread that had read its clock; or those that were   *)
(* seen after the gc had read its own, which it takes for long idle.        *)
IdleForgotten ==
  [][\A f \in Flow :
       entry[f].live /\ ~entry'[f].live =>
         \/ clock - last[f] > FLOW_TIMEOUT_SEC - MaxDelay
         \/ gc.now < entry[f].seen]_vars

=============================================================================
