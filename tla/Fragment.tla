------------------------------- MODULE Fragment -------------------------------
(***************************************************************************)
(* Packets too long for the tunnel, core/fragment.c and its callers in     *)
(* core/forwarder.c.                                                       *)
(*                                                                         *)
(* One end splits a packet into two halves under a 16 bit id, encrypts and *)
(* sends each by itself.  The other decrypts them and keeps a first half   *)
(* in the table of its layer, in the slot the id selects, until the second *)
(* one with this id comes or 200 ms have passed.  The WAN threads take the *)
(* table's mutex, gc_thread does not.                                      *)
(*                                                                         *)
(* Data abstractions: a packet is the number of ids issued before and with *)
(* it; a half is its packet and index, as each is decrypted alone; time    *)
(* advances in ticks.  The network in between loses, duplicates, reorders  *)
(* and delays.  One other end is modelled: two that use the same receiver  *)
(* number their packets independently (README.md).                         *)
(***************************************************************************)
EXTENDS Integers, Sequences

CONSTANTS
  Layers,        \* l2, l3, l4: a table each, one counter for all
  IdSpace,       \* values of the 16 bit packet id
  TableSize,     \* FRAG_TABLE_SIZE
  Timeout,       \* FRAG_TIMEOUT_NS, in ticks
  MaxDelay,      \* bound: ticks a half may be under way
  Rate,          \* bound: packets split within a tick
  MaxPackets, MaxTime, MaxCopies    \* bounds of an instance

ASSUME FragmentAssumption ==
  /\ Layers # {}
  /\ IdSpace \in Nat \ {0} /\ TableSize \in Nat \ {0}
  /\ Timeout \in Nat /\ MaxDelay \in Nat /\ Rate \in Nat \ {0}
  /\ MaxPackets \in Nat \ {0} /\ MaxTime \in Nat /\ MaxCopies \in Nat

\* The ids of two packets that can meet in a slot differ: no more are issued
\* while a half is under way or pending than there are.
IdsSuffice == Rate * (Timeout + MaxDelay + 1) <= IdSpace

VARIABLES
  now,              \* CLOCK_MONOTONIC
  sent,             \* ghost: the packets split so far, g_pkt_id_counter is its length
  burst,            \* ghost: how many of them within this tick
  net, copies,      \* the halves under way; ghost: how many were duplicated
  table,            \* g_wan_frag_l2, g_wan_frag_l3, g_wan_frag_l4
  gc,               \* gc_thread in frag_table_gc: where it is, its locals
  arrived, delivered,   \* ghost: a packet's first halves received, its reassemblies
  last              \* ghost: the packets of the two halves reassembled last

sender == <<sent, burst>>
receiver == <<table, arrived, delivered, last>>
vars == <<now, sender, net, copies, receiver, gc>>

Packet == 1 .. MaxPackets
Slot == 0 .. (TableSize - 1)
Half == [pkt : Packet, index : {0, 1}]
NoEntry == [valid |-> FALSE, pkt_id |-> 0, data |-> 1, timestamp |-> 0]
NoGc == [at |-> "idle", layer |-> CHOOSE l \in Layers : TRUE, now |-> 0, slot |-> 0]

Init ==
  /\ now = 0
  /\ sent = <<>> /\ burst = 0
  /\ net = {} /\ copies = 0
  /\ table = [l \in Layers |-> [s \in Slot |-> NoEntry]]
  /\ gc = NoGc
  /\ arrived = [p \in Packet |-> 0] /\ delivered = [p \in Packet |-> 0]
  /\ last = <<1, 1>>

-----------------------------------------------------------------------------
(* The sending end *)

\* frag_next_pkt_id, as the id of the packet numbered p
IdOf(p) == (p - 1) % IdSpace

\* frag_split_and_encrypt and its l2 and l4 twins, and the two sends: each may
\* fail, which the network's losses include.  A first half above 1600 bytes (of
\* a jumbo frame) is sent and does not fit the receiver's entry.
Split(l, fits) ==
  /\ burst < Rate /\ Len(sent) < MaxPackets
  /\ sent' = Append(sent, [at |-> now, layer |-> l, fits |-> fits])
  /\ burst' = burst + 1
  /\ net' = net \cup [pkt : {Len(sent) + 1}, index : {0, 1}]
  /\ UNCHANGED <<now, copies, receiver, gc>>

\* Time passes; what has been under way for too long is lost.
Tick ==
  /\ now < MaxTime
  /\ now' = now + 1 /\ burst' = 0
  /\ net' = {f \in net : now' - sent[f.pkt].at <= MaxDelay}
  /\ UNCHANGED <<sent, copies, receiver, gc>>

-----------------------------------------------------------------------------
(* The receiving end: frag_try_reassemble and its l2 and l4 twins *)

\* Wrong variants of the definitions that follow them, used by no action.
NeverExpires(e, time) == FALSE
KeepValid(e) == e
FreshEarlier(e, time) == time - e.timestamp < Timeout

Matches(e, id) == e.valid /\ e.pkt_id = id
Expired(e, time) == time - e.timestamp > Timeout
Dropped(e) == [e EXCEPT !.valid = FALSE]
Fresh(e, time) == time - e.timestamp <= Timeout

Stored(p) == [valid |-> TRUE, pkt_id |-> IdOf(p), data |-> p, timestamp |-> now]

\* A half leaves the network, or stays there as a copy.
Taken(f) ==
  \/ net' = net \ {f} /\ UNCHANGED copies
  \/ copies < MaxCopies /\ copies' = copies + 1 /\ UNCHANGED net

SlotOf(f) == IdOf(f.pkt) % TableSize

\* A first half displaces whatever the slot holds, unless it is refused.
ReceiveFirst(f) ==
  LET l == sent[f.pkt].layer
  IN /\ f.index = 0 /\ Taken(f)
     /\ table' = IF sent[f.pkt].fits
                 THEN [table EXCEPT ![l][SlotOf(f)] = Stored(f.pkt)] ELSE table
     /\ arrived' = [arrived EXCEPT ![f.pkt] = @ + 1]
     /\ UNCHANGED <<now, sender, delivered, last, gc>>

\* A second half is joined to the one in its slot, or dropped: too late, too
\* early, or the first one was lost or displaced.
ReceiveSecond(f) ==
  LET l == sent[f.pkt].layer
      e == table[l][SlotOf(f)]
      joins == Matches(e, IdOf(f.pkt)) /\ ~Expired(e, now)
  IN /\ f.index = 1 /\ Taken(f)
     /\ table' = IF Matches(e, IdOf(f.pkt))
                 THEN [table EXCEPT ![l][SlotOf(f)] = Dropped(e)] ELSE table
     /\ delivered' = IF joins THEN [delivered EXCEPT ![e.data] = @ + 1] ELSE delivered
     /\ last' = IF joins THEN <<e.data, f.pkt>> ELSE last
     /\ UNCHANGED <<now, sender, arrived, gc>>

\* frag_table_gc by a WAN thread at the start of a batch, under the mutex.
Collect(l) ==
  /\ table' = [table EXCEPT ![l] =
                [s \in Slot |-> IF Fresh(@[s], now) THEN @[s] ELSE Dropped(@[s])]]
  /\ UNCHANGED <<now, sender, net, copies, arrived, delivered, last, gc>>

-----------------------------------------------------------------------------
(* gc_thread: frag_table_gc without the mutex, one access a step *)

GcGoes(next) ==
  /\ gc' = next
  /\ UNCHANGED <<now, sender, net, copies, arrived, delivered, last>>

NextSlot == IF gc.slot + 1 \in Slot THEN [gc EXCEPT !.at = "valid", !.slot = @ + 1]
                                    ELSE NoGc

GcStart(l) ==
  /\ gc.at = "idle"
  /\ GcGoes([at |-> "valid", layer |-> l, now |-> now, slot |-> 0])
  /\ UNCHANGED table

GcReadValid ==
  /\ gc.at = "valid"
  /\ GcGoes(IF table[gc.layer][gc.slot].valid THEN [gc EXCEPT !.at = "time"] ELSE NextSlot)
  /\ UNCHANGED table

\* A half stored since the scan began is later than its "now", and the unsigned
\* difference of the two is huge.
GcReadTime ==
  LET t == table[gc.layer][gc.slot].timestamp
  IN /\ gc.at = "time"
     /\ GcGoes(IF gc.now - t > Timeout \/ t > gc.now
               THEN [gc EXCEPT !.at = "clear"] ELSE NextSlot)
     /\ UNCHANGED table

GcClear ==
  /\ gc.at = "clear"
  /\ table' = [table EXCEPT ![gc.layer][gc.slot] = Dropped(@)]
  /\ GcGoes(NextSlot)

-----------------------------------------------------------------------------
Next ==
  \/ \E l \in Layers, fits \in BOOLEAN : Split(l, fits)
  \/ Tick
  \/ \E f \in net : ReceiveFirst(f) \/ ReceiveSecond(f)
  \/ \E l \in Layers : Collect(l) \/ GcStart(l)
  \/ GcReadValid \/ GcReadTime \/ GcClear

Spec == Init /\ [][Next]_vars

-----------------------------------------------------------------------------
(* Properties *)

Entry == [valid : BOOLEAN, pkt_id : 0 .. (IdSpace - 1), data : Packet,
          timestamp : 0 .. MaxTime]

TypeOK ==
  /\ now \in 0 .. MaxTime
  /\ sent \in Seq([at : 0 .. MaxTime, layer : Layers, fits : BOOLEAN])
  /\ Len(sent) <= MaxPackets /\ burst \in 0 .. Rate
  /\ net \subseteq Half /\ copies \in 0 .. MaxCopies
  /\ table \in [Layers -> [Slot -> Entry]]
  /\ gc \in [at : {"idle", "valid", "time", "clear"}, layer : Layers,
             now : 0 .. MaxTime, slot : Slot]
  /\ arrived \in [Packet -> Nat] /\ delivered \in [Packet -> Nat]
  /\ last \in Packet \X Packet

\* The two halves joined are of one packet, although the id wraps around, slots
\* are shared and second halves get lost.  (As long as IdsSuffice.)
HalvesMatch == last[1] = last[2]

\* No packet comes out more often than its first half came in, whatever the
\* network duplicates: a half that was used is not used again.
NoExtraDelivery == \A p \in Packet : delivered[p] <= arrived[p]

\* A first half that is not too old goes only into a packet; otherwise the slot
\* keeps it or the half that displaced it.  The exception is gc_thread, which
\* works without the mutex on a time and an entry it read before.
FreshKept ==
  [][\A l \in Layers, s \in Slot :
       LET e == table[l][s]
       IN e.valid /\ now - e.timestamp <= Timeout /\ ~table'[l][s].valid =>
            \/ delivered'[e.data] > delivered[e.data]
            \/ gc.at = "clear" /\ gc.layer = l /\ gc.slot = s /\ gc' # gc]_vars

=============================================================================
