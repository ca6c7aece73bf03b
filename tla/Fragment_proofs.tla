--------------------------- MODULE Fragment_proofs ---------------------------
(***************************************************************************)
(* Proofs about Fragment: whatever the network does and gc_thread races    *)
(* with, two halves that are joined are of one packet, and no half is used *)
(* twice.                                                                  *)
(***************************************************************************)
EXTENDS Fragment, SequenceTheorems, TLAPS

Sent == 1 .. Len(sent)

\* Packets split since packet i, itself included: Rate a tick at most.
ClockInv ==
  \A i \in Sent :
    /\ sent[i].at <= now
    /\ Len(sent) + 1 - i <= Rate * (now - sent[i].at) + burst

\* The same between any two packets.
RateInv ==
  \A i, j \in Sent : i < j => j - i < Rate * (sent[j].at - sent[i].at + 1)

NetInv == \A f \in net : f.pkt \in Sent /\ now - sent[f.pkt].at <= MaxDelay

\* An entry in use is in its slot, came within the network's delay and has a
\* first half more than was delivered of it.
EntryInv(l, s) ==
  LET e == table[l][s]
  IN e.valid =>
       /\ e.data \in Sent /\ e.pkt_id = IdOf(e.data)
       /\ sent[e.data].layer = l /\ s = IdOf(e.data) % TableSize
       /\ e.timestamp <= now /\ e.timestamp - sent[e.data].at <= MaxDelay
       /\ delivered[e.data] < arrived[e.data]
TableInv == \A l \in Layers, s \in Slot : EntryInv(l, s)

FInv == TypeOK /\ ClockInv /\ RateInv /\ NetInv /\ TableInv /\ NoExtraDelivery

\* IdOf is an id, and selects a slot.
LEMMA IdType ==
  ASSUME NEW p \in Nat \ {0}
  PROVE  IdOf(p) \in 0 .. (IdSpace - 1) /\ IdOf(p) \in Nat /\ IdOf(p) % TableSize \in Slot
<1>1. IdOf(p) \in 0 .. (IdSpace - 1)
  BY FragmentAssumption DEF IdOf
<1>2. IdOf(p) \in Nat
  BY <1>1, FragmentAssumption
<1> QED
  BY <1>1, <1>2, FragmentAssumption DEF Slot

\* What the recorded packets are.
LEMMA SentType ==
  ASSUME TypeOK
  PROVE  /\ Len(sent) \in Nat
         /\ \A i \in Sent : /\ i \in Nat \ {0} /\ i <= Len(sent) /\ i \in Packet
                            /\ sent[i].at \in Nat /\ sent[i].layer \in Layers
<1>1. Len(sent) \in Nat /\ Len(sent) <= MaxPackets
  BY DEF TypeOK
<1>2. \A i \in Sent : i \in Nat \ {0} /\ i <= Len(sent) /\ i \in Packet
  BY <1>1, FragmentAssumption DEF Sent, Packet
<1>3. \A i \in Sent : sent[i] \in [at : 0 .. MaxTime, layer : Layers, fits : BOOLEAN]
  BY ElementOfSeq DEF TypeOK, Sent
<1>4. 0 .. MaxTime \subseteq Nat
  BY FragmentAssumption
<1> QED
  BY <1>1, <1>2, <1>3, <1>4

\* Fewer ticks, fewer packets.
LEMMA RateMonotone ==
  ASSUME NEW x \in Int, NEW y \in Int, x <= y
  PROVE  Rate * x <= Rate * y
<1>1. \A r, d \in Nat : r * d \in Nat
  OBVIOUS
<1>2. Rate \in Nat /\ y - x \in Nat
  BY FragmentAssumption
<1>3. Rate * (y - x) \in Nat
  BY <1>1, <1>2
<1>4. Rate * (y - x) = Rate * y - Rate * x
  BY <1>2
<1> QED
  BY <1>2, <1>3, <1>4

\* Two packets with the same id are IdSpace apart.
LEMMA SameId ==
  ASSUME NEW p \in Nat \ {0}, NEW q \in Nat \ {0}, IdOf(p) = IdOf(q), p < q
  PROVE  q - p >= IdSpace
<1>0. ASSUME NEW m \in Int
      PROVE  m \div IdSpace \in Int /\ m % IdSpace = m - IdSpace * (m \div IdSpace)
  <2>1. m \div IdSpace \in Int
    BY FragmentAssumption
  <2>2. m % IdSpace = m - IdSpace * (m \div IdSpace)
    BY FragmentAssumption, Z3
  <2> QED
    BY <2>1, <2>2
<1>1. PICK a \in Int : IdOf(p) = p - 1 - IdSpace * a
  BY <1>0 DEF IdOf
<1>2. PICK b \in Int : IdOf(q) = q - 1 - IdSpace * b
  BY <1>0 DEF IdOf
<1>3. IdSpace * a \in Int /\ IdSpace * b \in Int
  BY FragmentAssumption
<1> DEFINE u == IdSpace * a
           v == IdSpace * b
<1>4. q - p = v - u
  <2>1. u \in Int /\ v \in Int /\ p - 1 - u = q - 1 - v
    BY <1>1, <1>2, <1>3
  <2> HIDE DEF u, v
  <2> QED
    BY <2>1
<1>5. IdSpace * b - IdSpace * a = IdSpace * (b - a)
  BY FragmentAssumption
<1>6. CASE b - a <= 0
  <2>1. \A r, d \in Nat : r * d \in Nat
    OBVIOUS
  <2>2. IdSpace * (a - b) \in Nat
    BY <1>6, <2>1, FragmentAssumption
  <2>3. IdSpace * (b - a) = 0 - IdSpace * (a - b)
    BY FragmentAssumption
  <2> QED
    BY <1>4, <1>5, <2>2, <2>3
<1>7. CASE b - a >= 1
  <2>1. \A r, d \in Nat : r * d \in Nat
    OBVIOUS
  <2>2. IdSpace * (b - a - 1) \in Nat
    BY <1>7, <2>1, FragmentAssumption
  <2>3. IdSpace * (b - a) = IdSpace * (b - a - 1) + IdSpace
    BY FragmentAssumption
  <2> QED
    BY <1>4, <1>5, <2>2, <2>3, FragmentAssumption
<1> QED
  BY <1>6, <1>7

\* After frag_table_init and with nothing sent FInv holds.
THEOREM InitFInv == Init => FInv
<1> SUFFICES ASSUME Init PROVE FInv
  OBVIOUS
<1>1. 1 \in Packet /\ 0 \in 0 .. MaxTime /\ 0 \in Slot /\ 0 \in 0 .. (IdSpace - 1)
  BY FragmentAssumption DEF Packet, Slot
<1>2. NoEntry \in Entry /\ ~NoEntry.valid
  BY <1>1 DEF NoEntry, Entry
<1>3. gc \in [at : {"idle", "valid", "time", "clear"}, layer : Layers,
              now : 0 .. MaxTime, slot : Slot]
  BY <1>1, FragmentAssumption DEF Init, NoGc
<1>4. TypeOK
  BY <1>1, <1>2, <1>3, FragmentAssumption DEF Init, TypeOK, Half
<1>5. ClockInv /\ RateInv /\ NetInv
  BY DEF Init, ClockInv, RateInv, NetInv, Sent
<1>6. TableInv
  BY <1>2 DEF Init, TableInv, EntryInv
<1>7. NoExtraDelivery
  BY DEF Init, NoExtraDelivery
<1> QED
  BY <1>4, <1>5, <1>6, <1>7 DEF FInv

\* The splits keep FInv: a packet more, within the rate.
LEMMA SplitFInv ==
  ASSUME FInv, NEW l \in Layers, NEW fits \in BOOLEAN, Split(l, fits)
  PROVE  FInv'
<1> DEFINE n == Len(sent)
           x == [at |-> now, layer |-> l, fits |-> fits]
<1> USE DEF FInv
<1>1. n \in Nat /\ n + 1 \in Packet /\ x \in [at : 0 .. MaxTime, layer : Layers, fits : BOOLEAN]
  BY SMTT(30), FragmentAssumption DEF TypeOK, Split, Packet
<1>2. /\ sent' = Append(sent, x) /\ Len(sent') = n + 1
      /\ sent' \in Seq([at : 0 .. MaxTime, layer : Layers, fits : BOOLEAN])
      /\ sent'[n + 1] = x /\ \A i \in Sent : sent'[i] = sent[i]
  BY <1>1 DEF Split, TypeOK, Sent
<1>3. Sent' = Sent \cup {n + 1} /\ n + 1 \notin Sent
  BY <1>1, <1>2 DEF Sent
<1>4. burst' = burst + 1 /\ burst < Rate /\ burst \in Nat /\ Rate \in Nat /\ now \in Nat
  BY FragmentAssumption DEF Split, TypeOK
<1>5. UNCHANGED <<now, copies, table, arrived, delivered, last, gc>>
  BY DEF Split, receiver
<1>6. TypeOK'
  <2>1. net' \subseteq Half
    BY <1>1 DEF Split, TypeOK, Half
  <2>2. burst' \in 0 .. Rate
    BY <1>4
  <2>3. Len(sent') <= MaxPackets
    BY <1>1, <1>2 DEF Packet
  <2> QED
    BY <1>2, <1>5, <2>1, <2>2, <2>3 DEF TypeOK
<1>7. \A i \in Sent : sent[i].at \in Nat /\ i \in Nat /\ i <= n
  BY SentType
<1>8. ClockInv'
  <2> SUFFICES ASSUME NEW i \in Sent'
               PROVE  /\ sent'[i].at <= now
                      /\ (n + 1) + 1 - i <= Rate * (now - sent'[i].at) + (burst + 1)
    BY <1>2, <1>4, <1>5 DEF ClockInv
  <2>1. CASE i \in Sent
    <3> DEFINE r == Rate * (now - sent[i].at)
    <3>1. r \in Int
      BY <1>4, <1>7, <2>1
    <3>2. sent[i].at <= now /\ n + 1 - i <= r + burst
      BY <2>1 DEF ClockInv
    <3>3. sent'[i] = sent[i]
      BY <1>2, <2>1
    <3> HIDE DEF r
    <3>4. (n + 1) + 1 - i <= r + (burst + 1)
      BY <1>1, <1>4, <1>7, <2>1, <3>1, <3>2
    <3> QED
      BY <3>2, <3>3, <3>4 DEF r
  <2>2. CASE i = n + 1
    BY <1>1, <1>2, <1>4, <2>2
  <2> QED
    BY <1>3, <2>1, <2>2
<1>9. RateInv'
  <2> SUFFICES ASSUME NEW i \in Sent', NEW j \in Sent', i < j
               PROVE  j - i < Rate * (sent'[j].at - sent'[i].at + 1)
    BY DEF RateInv
  <2>1. CASE j \in Sent
    <3>1. i \in Sent
      BY <1>1, <1>3, <1>7, <2>1
    <3> QED
      BY <1>2, <2>1, <3>1 DEF RateInv
  <2>2. CASE j = n + 1
    <3>1. i \in Sent
      BY <1>1, <1>3, <2>2
    <3> DEFINE r == Rate * (now - sent[i].at)
    <3>2. n + 1 - i <= r + burst
      BY <3>1 DEF ClockInv
    <3>3. Rate * (now - sent[i].at + 1) = r + Rate
      BY <1>4, <1>7, <3>1
    <3>4. r \in Int
      BY <1>4, <1>7, <3>1
    <3>5. sent'[i] = sent[i] /\ sent'[j].at = now
      <4>1. sent'[j] = x
        BY <1>2, <2>2
      <4>2. x.at = now
        OBVIOUS
      <4>3. sent'[i] = sent[i]
        BY <1>2, <3>1
      <4> HIDE DEF x
      <4> QED
        BY <4>1, <4>2, <4>3
    <3> HIDE DEF r
    <3>6. n + 1 - i < r + Rate
      BY <1>1, <1>4, <1>7, <3>1, <3>2, <3>4
    <3>7. Rate * (sent'[j].at - sent'[i].at + 1) = r + Rate
      BY <3>3, <3>5
    <3> QED
      BY <2>2, <3>6, <3>7
  <2> QED
    BY <1>3, <2>1, <2>2
<1>10. NetInv'
  <2> SUFFICES ASSUME NEW f \in net' PROVE f.pkt \in Sent' /\ now - sent'[f.pkt].at <= MaxDelay
    BY <1>5 DEF NetInv
  <2>1. CASE f \in net
    BY <1>2, <1>3, <2>1 DEF NetInv
  <2>2. CASE f \in [pkt : {n + 1}, index : {0, 1}]
    BY <1>2, <1>3, <1>4, <2>2, FragmentAssumption
  <2> QED
    BY <2>1, <2>2 DEF Split
<1>11. TableInv'
  <2> SUFFICES ASSUME NEW k \in Layers, NEW s \in Slot, EntryInv(k, s) PROVE EntryInv(k, s)'
    BY DEF TableInv
  <2> QED
    BY <1>2, <1>3, <1>5 DEF EntryInv, IdOf
<1>12. NoExtraDelivery'
  BY <1>5 DEF NoExtraDelivery
<1> QED
  BY <1>6, <1>8, <1>9, <1>10, <1>11, <1>12

\* So does the passing of time.
LEMMA TickFInv ==
  ASSUME FInv, Tick
  PROVE  FInv'
<1> USE DEF FInv
<1>1. /\ now' = now + 1 /\ burst' = 0 /\ Sent' = Sent
      /\ UNCHANGED <<sent, copies, table, arrived, delivered, last, gc>>
  BY DEF Tick, receiver, Sent
<1>2. now \in Nat /\ burst \in Nat /\ burst <= Rate /\ Rate \in Nat /\ Len(sent) \in Nat
  BY FragmentAssumption DEF TypeOK
<1>3. TypeOK'
  BY <1>1, FragmentAssumption DEF TypeOK, Tick
<1>4. ClockInv'
  <2> SUFFICES ASSUME NEW i \in Sent
               PROVE  /\ sent[i].at <= now + 1
                      /\ Len(sent) + 1 - i <= Rate * (now' - sent[i].at) + burst'
    BY <1>1 DEF ClockInv
  <2> DEFINE r == Rate * (now - sent[i].at)
  <2>1. sent[i].at \in Nat /\ i \in Nat
    BY SentType
  <2>2. Rate * (now + 1 - sent[i].at) = r + Rate
    BY <1>2, <2>1
  <2>3. r \in Int
    BY <1>2, <2>1
  <2>4. sent[i].at <= now /\ Len(sent) + 1 - i <= r + burst
    BY DEF ClockInv
  <2> HIDE DEF r
  <2>5. sent[i].at <= now + 1 /\ Len(sent) + 1 - i <= r + Rate
    BY <1>2, <2>1, <2>3, <2>4
  <2>6. Rate * (now' - sent[i].at) + burst' = r + Rate
    <3>1. now' - sent[i].at = now + 1 - sent[i].at
      BY <1>1, <1>2, <2>1
    <3>2. Rate * (now' - sent[i].at) = r + Rate
      BY <2>2, <3>1
    <3> QED
      BY <1>1, <1>2, <2>3, <3>2
  <2> QED
    BY <2>5, <2>6
<1>5. RateInv' /\ NoExtraDelivery'
  BY <1>1 DEF RateInv, NoExtraDelivery
<1>6. NetInv'
  BY <1>1 DEF NetInv, Tick
<1>7. TableInv'
  <2> SUFFICES ASSUME NEW l \in Layers, NEW s \in Slot, EntryInv(l, s) PROVE EntryInv(l, s)'
    BY DEF TableInv
  <2>1. table[l][s].timestamp \in Int
    BY FragmentAssumption DEF TypeOK, Entry
  <2> QED
    BY <1>1, <1>2, <2>1 DEF EntryInv, IdOf
<1> QED
  BY <1>3, <1>4, <1>5, <1>6, <1>7

\* A step that only changes entries and counts keeps the rest of FInv.
LEMMA ReceiverStep ==
  ASSUME FInv, UNCHANGED <<now, sender>>, net' \subseteq net
  PROVE  ClockInv' /\ RateInv' /\ NetInv'
<1>1. UNCHANGED <<now, sent, burst>> /\ Sent' = Sent
  BY DEF sender, Sent
<1>2. ClockInv'
  BY <1>1 DEF FInv, ClockInv
<1>3. RateInv'
  BY <1>1 DEF FInv, RateInv
<1>4. NetInv'
  BY <1>1 DEF FInv, NetInv
<1> QED
  BY <1>2, <1>3, <1>4

\* frag_try_reassemble of a first half.
LEMMA ReceiveFirstFInv ==
  ASSUME FInv, NEW f \in net, ReceiveFirst(f)
  PROVE  FInv'
<1> DEFINE p == f.pkt
           l == sent[p].layer
           e == Stored(p)
<1>1. p \in Sent /\ p \in Packet /\ p \in Nat \ {0} /\ l \in Layers /\ sent[p].at \in Nat
  BY SentType DEF FInv, NetInv
<1>2. /\ now - sent[p].at <= MaxDelay /\ now \in 0 .. MaxTime /\ now \in Nat
      /\ table \in [Layers -> [Slot -> Entry]]
      /\ arrived \in [Packet -> Nat] /\ delivered \in [Packet -> Nat]
  BY FragmentAssumption DEF FInv, NetInv, TypeOK
<1>3. IdOf(p) \in 0 .. (IdSpace - 1) /\ SlotOf(f) \in Slot /\ SlotOf(f) = IdOf(p) % TableSize
  BY <1>1, IdType DEF SlotOf
<1>4. e \in Entry
  BY <1>1, <1>2, <1>3 DEF Stored, Entry
<1>5. UNCHANGED <<now, sent, burst, delivered, last, gc>> /\ Sent' = Sent
  BY DEF ReceiveFirst, sender, Sent
<1>6. arrived' = [arrived EXCEPT ![p] = arrived[p] + 1]
  BY DEF ReceiveFirst
<1>7. net' \subseteq net /\ copies' \in 0 .. MaxCopies
  BY SMTT(30), FragmentAssumption DEF ReceiveFirst, Taken, FInv, TypeOK
<1>8. ClockInv' /\ RateInv' /\ NetInv'
  BY <1>7, ReceiverStep DEF ReceiveFirst
<1>9. /\ table' \in [Layers -> [Slot -> Entry]]
      /\ \A k \in Layers, s \in Slot :
           table'[k][s] = table[k][s] \/ (k = l /\ s = SlotOf(f) /\ table'[k][s] = e)
  <2> HIDE DEF e
  <2>1. CASE sent[p].fits
    <3>1. table' = [table EXCEPT ![l][SlotOf(f)] = e]
      BY <2>1 DEF ReceiveFirst, e
    <3> QED
      BY <1>1, <1>2, <1>3, <1>4, <3>1
  <2>2. CASE ~sent[p].fits
    BY <1>2, <2>2 DEF ReceiveFirst
  <2> QED
    BY <2>1, <2>2
<1>10. TypeOK'
  <2>1. arrived' \in [Packet -> Nat]
    <3> HIDE DEF p
    <3> QED
      BY <1>1, <1>2, <1>6
  <2>2. net' \subseteq Half
    BY <1>7 DEF FInv, TypeOK
  <2> HIDE DEF p, l, e
  <2> QED
    BY <1>5, <1>7, <1>9, <2>1, <2>2 DEF FInv, TypeOK
<1>11. \A q \in Packet : arrived'[q] \in Nat /\ arrived[q] \in Nat /\ arrived'[q] >= arrived[q]
  BY <1>1, <1>2, <1>6
<1>12. NoExtraDelivery'
  BY <1>2, <1>5, <1>11 DEF FInv, NoExtraDelivery
<1>13. TableInv'
  <2> SUFFICES ASSUME NEW k \in Layers, NEW s \in Slot, table'[k][s].valid
               PROVE  EntryInv(k, s)'
    BY DEF TableInv, EntryInv
  <2>1. CASE table'[k][s] = table[k][s]
    <3>1. EntryInv(k, s) /\ table[k][s].valid
      BY <2>1 DEF FInv, TableInv
    <3>2. table[k][s].data \in Packet
      BY <1>2 DEF Entry
    <3> QED
      BY <1>2, <1>5, <1>11, <2>1, <3>1, <3>2 DEF EntryInv, IdOf
  <2>2. CASE k = l /\ s = SlotOf(f) /\ table'[k][s] = e
    <3>1. /\ table'[k][s].data = p /\ table'[k][s].pkt_id = IdOf(p)
          /\ table'[k][s].timestamp = now
      BY <2>2 DEF Stored
    <3>2. delivered[p] < arrived'[p]
      BY <1>1, <1>2, <1>6 DEF FInv, NoExtraDelivery
    <3> HIDE DEF p, l, e
    <3> QED
      BY <1>1, <1>2, <1>3, <1>5, <2>2, <3>1, <3>2 DEF EntryInv, IdOf, l
  <2> QED
    BY <1>9, <2>1, <2>2
<1> QED
  BY <1>8, <1>10, <1>12, <1>13 DEF FInv

\* A step that only drops entries keeps FInv.
LEMMA DroppedFInv ==
  ASSUME FInv, UNCHANGED <<now, sender, arrived, delivered>>,
         net' \subseteq net, TypeOK',
         \A l \in Layers, s \in Slot :
           table'[l][s] = table[l][s] \/ ~table'[l][s].valid
  PROVE  FInv'
<1>1. UNCHANGED <<now, sent, arrived, delivered>> /\ Sent' = Sent
  BY DEF sender, Sent
<1>2. ClockInv' /\ RateInv' /\ NetInv'
  BY ReceiverStep
<1>3. NoExtraDelivery'
  BY <1>1 DEF FInv, NoExtraDelivery
<1>4. TableInv'
  <2> SUFFICES ASSUME NEW l \in Layers, NEW s \in Slot, table'[l][s].valid
               PROVE  EntryInv(l, s)'
    BY DEF TableInv, EntryInv
  <2>1. table'[l][s] = table[l][s] /\ EntryInv(l, s)
    BY DEF FInv, TableInv
  <2> QED
    BY <1>1, <2>1 DEF EntryInv, IdOf
<1> QED
  BY <1>2, <1>3, <1>4 DEF FInv

\* frag_try_reassemble of a second half: the entry it uses is not used again.
LEMMA ReceiveSecondFInv ==
  ASSUME FInv, NEW f \in net, ReceiveSecond(f)
  PROVE  FInv'
<1> DEFINE l == sent[f.pkt].layer
           z == SlotOf(f)
           e == table[l][z]
           id == IdOf(f.pkt)
<1>1. f.pkt \in Sent /\ f.pkt \in Packet /\ f.pkt \in Nat \ {0} /\ l \in Layers
  BY SentType DEF FInv, NetInv
<1>2. z \in Slot
  BY <1>1, IdType DEF SlotOf
<1>3. /\ table \in [Layers -> [Slot -> Entry]]
      /\ arrived \in [Packet -> Nat] /\ delivered \in [Packet -> Nat]
  BY DEF FInv, TypeOK
<1>4. e \in Entry /\ e.data \in Packet
  BY <1>1, <1>2, <1>3 DEF Entry
<1>5. UNCHANGED <<now, sender, sent, burst, arrived, gc>> /\ Sent' = Sent
  BY DEF ReceiveSecond, sender, Sent
<1>6. net' \subseteq net /\ net' \subseteq Half /\ copies' \in 0 .. MaxCopies
  BY SMTT(30), FragmentAssumption DEF ReceiveSecond, Taken, FInv, TypeOK
<1>7. /\ table' \in [Layers -> [Slot -> Entry]]
      /\ \A k \in Layers, s \in Slot : table'[k][s] = table[k][s] \/ ~table'[k][s].valid
  <2>1. Dropped(e) \in Entry /\ ~Dropped(e).valid
    BY <1>4 DEF Dropped, Entry
  <2>2. \/ table' = [table EXCEPT ![l][z] = Dropped(e)]
        \/ table' = table
    BY DEF ReceiveSecond
  <2> HIDE DEF l, z, e
  <2> QED
    BY <1>1, <1>2, <1>3, <2>1, <2>2
<1>8. CASE Matches(e, id) /\ ~Expired(e, now)
  <2>1. e.valid /\ EntryInv(l, z)
    BY <1>1, <1>2, <1>8 DEF FInv, TableInv, Matches
  <2>2. delivered' = [delivered EXCEPT ![e.data] = delivered[e.data] + 1]
    BY <1>8 DEF ReceiveSecond
  <2>3. last' = <<e.data, f.pkt>>
    BY <1>8 DEF ReceiveSecond
  <2>4. ~table'[l][z].valid
    <3>1. table' = [table EXCEPT ![l][z] = Dropped(e)] /\ ~Dropped(e).valid
      BY <1>4, <1>8 DEF ReceiveSecond, Dropped, Entry
    <3> HIDE DEF l, z, e
    <3> QED
      BY <1>1, <1>2, <1>3, <3>1
  <2>5. \A q \in Packet : q # e.data => delivered'[q] = delivered[q]
    BY <1>3, <1>4, <2>2
  <2>6. delivered'[e.data] <= arrived[e.data] /\ delivered' \in [Packet -> Nat]
    <3>1. delivered[e.data] < arrived[e.data]
      BY <2>1 DEF EntryInv
    <3> HIDE DEF e
    <3> QED
      BY <1>3, <1>4, <2>2, <3>1
  <2>7. TypeOK'
    <3>1. last' \in Packet \X Packet
      BY <1>1, <1>4, <2>3
    <3> HIDE DEF e, l, z
    <3> QED
      BY <1>5, <1>6, <1>7, <2>6, <3>1 DEF FInv, TypeOK
  <2>8. NoExtraDelivery'
    <3> SUFFICES ASSUME NEW q \in Packet PROVE delivered'[q] <= arrived[q]
      BY <1>5 DEF NoExtraDelivery
    <3> HIDE DEF e
    <3>1. CASE q = e.data
      BY <2>6, <3>1
    <3>2. CASE q # e.data
      BY <2>5, <3>2 DEF FInv, NoExtraDelivery
    <3> QED
      BY <3>1, <3>2
  <2>9. TableInv'
    <3> SUFFICES ASSUME NEW k \in Layers, NEW s \in Slot, table'[k][s].valid
                 PROVE  EntryInv(k, s)'
      BY DEF TableInv, EntryInv
    <3>1. table'[k][s] = table[k][s] /\ EntryInv(k, s)
      BY <1>7 DEF FInv, TableInv
    <3>2. table[k][s].data # e.data
      BY <2>1, <2>4, <3>1 DEF EntryInv
    <3>3. table[k][s].data \in Packet
      BY <1>3 DEF Entry
    <3> HIDE DEF e, l, z
    <3> QED
      BY <1>5, <2>5, <3>1, <3>2, <3>3 DEF EntryInv, IdOf
  <2> QED
    BY <1>5, <1>6, <2>7, <2>8, <2>9, ReceiverStep DEF FInv
<1>9. CASE ~(Matches(e, id) /\ ~Expired(e, now))
  <2>1. UNCHANGED <<delivered, last>>
    BY <1>9 DEF ReceiveSecond
  <2>2. TypeOK'
    <3> HIDE DEF e, l, z, id
    <3> QED
      BY <1>5, <1>6, <1>7, <2>1 DEF FInv, TypeOK
  <2> QED
    BY <1>5, <1>6, <1>7, <2>1, <2>2, DroppedFInv
<1> QED
  BY <1>8, <1>9

\* frag_table_gc under the mutex.
LEMMA CollectFInv ==
  ASSUME FInv, NEW l \in Layers, Collect(l)
  PROVE  FInv'
<1> DEFINE row == [s \in Slot |-> IF Fresh(table[l][s], now) THEN table[l][s]
                                  ELSE Dropped(table[l][s])]
<1>1. table \in [Layers -> [Slot -> Entry]]
  BY DEF FInv, TypeOK
<1>2. \A s \in Slot : table[l][s] \in Entry
  BY <1>1
<1>3. \A s \in Slot : Dropped(table[l][s]) \in Entry /\ ~Dropped(table[l][s]).valid
  BY <1>2 DEF Dropped, Entry
<1>4. row \in [Slot -> Entry]
  BY <1>2, <1>3
<1>5. \A s \in Slot : row[s] = table[l][s] \/ ~row[s].valid
  BY <1>3
<1>6. table' = [table EXCEPT ![l] = row]
  BY DEF Collect
<1>7. UNCHANGED <<now, sender, sent, burst, net, copies, arrived, delivered, last, gc>>
  BY DEF Collect, sender
<1> HIDE DEF row
<1>8. table' \in [Layers -> [Slot -> Entry]]
  BY <1>1, <1>4, <1>6
<1>9. \A k \in Layers, s \in Slot : table'[k][s] = table[k][s] \/ ~table'[k][s].valid
  BY <1>1, <1>5, <1>6
<1>10. TypeOK'
  BY <1>7, <1>8 DEF FInv, TypeOK
<1> QED
  BY <1>7, <1>9, <1>10, DroppedFInv

\* gc_thread clears the entry it decided on, whichever is there now.
LEMMA GcFInv ==
  ASSUME FInv, (\E l \in Layers : GcStart(l)) \/ GcReadValid \/ GcReadTime \/ GcClear
  PROVE  FInv'
<1> DEFINE Where == [at : {"idle", "valid", "time", "clear"}, layer : Layers,
                     now : 0 .. MaxTime, slot : Slot]
<1>1. /\ gc \in Where /\ gc.layer \in Layers /\ gc.slot \in Slot
      /\ table \in [Layers -> [Slot -> Entry]] /\ now \in 0 .. MaxTime
  BY DEF FInv, TypeOK
<1>2. UNCHANGED <<now, sender, sent, burst, net, copies, arrived, delivered, last>>
  BY DEF GcStart, GcReadValid, GcReadTime, GcClear, GcGoes, sender
<1>3. 0 \in Slot /\ NoGc \in Where
  BY FragmentAssumption DEF Slot, NoGc
<1>4. NextSlot \in Where
  BY <1>1, <1>3 DEF NextSlot
<1>5. gc' \in Where
  <2>1. CASE \E l \in Layers : GcStart(l)
    BY <1>1, <1>3, <2>1 DEF GcStart, GcGoes
  <2>2. CASE GcReadValid
    BY <1>1, <1>4, <2>2 DEF GcReadValid, GcGoes
  <2>3. CASE GcReadTime
    BY <1>1, <1>4, <2>3 DEF GcReadTime, GcGoes
  <2>4. CASE GcClear
    BY <1>4, <2>4 DEF GcClear, GcGoes
  <2> QED
    BY <2>1, <2>2, <2>3, <2>4
<1>6. /\ table' \in [Layers -> [Slot -> Entry]]
      /\ \A k \in Layers, s \in Slot : table'[k][s] = table[k][s] \/ ~table'[k][s].valid
  <2>1. CASE GcClear
    <3> DEFINE d == Dropped(table[gc.layer][gc.slot])
    <3>1. d \in Entry /\ ~d.valid
      <4>1. table[gc.layer][gc.slot] \in Entry
        BY <1>1
      <4> QED
        BY <4>1 DEF Dropped, Entry
    <3>2. table' = [table EXCEPT ![gc.layer][gc.slot] = d]
      BY <2>1 DEF GcClear
    <3> HIDE DEF d
    <3> QED
      BY <1>1, <3>1, <3>2
  <2>2. CASE ~GcClear
    BY <1>1, <2>2 DEF GcStart, GcReadValid, GcReadTime
  <2> QED
    BY <2>1, <2>2
<1>7. TypeOK'
  BY <1>2, <1>5, <1>6 DEF FInv, TypeOK
<1> QED
  BY <1>2, <1>6, <1>7, DroppedFInv

\* Every step keeps FInv.
THEOREM StepFInv == FInv /\ [Next]_vars => FInv'
<1> SUFFICES ASSUME FInv, [Next]_vars PROVE FInv'
  OBVIOUS
<1>1. CASE UNCHANGED vars
  <2>1. UNCHANGED <<now, sender, sent, burst, net, copies, table, arrived, delivered, last, gc>>
    BY <1>1 DEF vars, sender, receiver
  <2>2. TypeOK'
    BY <2>1 DEF FInv, TypeOK
  <2> QED
    BY <2>1, <2>2, DroppedFInv
<1>2. CASE \E l \in Layers, fits \in BOOLEAN : Split(l, fits)
  BY <1>2, SplitFInv
<1>3. CASE Tick
  BY <1>3, TickFInv
<1>4. CASE \E f \in net : ReceiveFirst(f) \/ ReceiveSecond(f)
  BY <1>4, ReceiveFirstFInv, ReceiveSecondFInv
<1>5. CASE \E l \in Layers : Collect(l)
  BY <1>5, CollectFInv
<1>6. CASE (\E l \in Layers : GcStart(l)) \/ GcReadValid \/ GcReadTime \/ GcClear
  BY <1>6, GcFInv
<1> QED
  BY <1>1, <1>2, <1>3, <1>4, <1>5, <1>6 DEF Next

\* The state of the fragment tables, of the network and of gc_thread is
\* well-formed in every instance.
THEOREM FragmentTypeCorrect == Spec => []TypeOK
<1>1. Spec => []FInv
  BY InitFInv, StepFInv, PTL DEF Spec
<1>2. FInv => TypeOK
  BY DEF FInv
<1> QED
  BY <1>1, <1>2, PTL

\* No first half is used twice by frag_try_reassemble, whatever the network
\* duplicates and gc_thread clears.
THEOREM NoExtraDeliveryCorrect == Spec => []NoExtraDelivery
<1>1. Spec => []FInv
  BY InitFInv, StepFInv, PTL DEF Spec
<1>2. FInv => NoExtraDelivery
  BY DEF FInv
<1> QED
  BY <1>1, <1>2, PTL

\* A pending half and a half that arrives were split within Timeout + MaxDelay
\* ticks of each other: with the same id they are of the same packet.
LEMMA SameIdSamePacket ==
  ASSUME IdsSuffice, FInv, NEW f \in net, NEW l \in Layers, NEW s \in Slot,
         Matches(table[l][s], IdOf(f.pkt)), ~Expired(table[l][s], now)
  PROVE  table[l][s].data = f.pkt
<1> DEFINE e == table[l][s]
           p == e.data
           q == f.pkt
           W == Timeout + MaxDelay
<1>1. /\ p \in Sent /\ e.pkt_id = IdOf(p) /\ e.timestamp <= now
      /\ e.timestamp - sent[p].at <= MaxDelay
  BY DEF FInv, TableInv, EntryInv, Matches
<1>2. q \in Sent /\ now - sent[q].at <= MaxDelay
  BY DEF FInv, NetInv
<1>3. /\ p \in Nat \ {0} /\ q \in Nat \ {0}
      /\ sent[p].at \in Nat /\ sent[q].at \in Nat
  BY <1>1, <1>2, SentType DEF FInv
<1>4. now \in Int /\ e.timestamp \in Int
  BY FragmentAssumption DEF FInv, TypeOK, Entry
<1>5. sent[p].at <= now /\ sent[q].at <= now
  BY <1>1, <1>2 DEF FInv, ClockInv
<1>6. IdOf(p) = IdOf(q) /\ now - e.timestamp <= Timeout
  BY <1>1, <1>4, FragmentAssumption DEF Matches, Expired
<1>7. \A i, j \in Sent : i < j => j - i < Rate * (sent[j].at - sent[i].at + 1)
  BY DEF FInv, RateInv
<1> HIDE DEF e, p, q
<1>8. sent[q].at - sent[p].at + 1 <= W + 1 /\ sent[p].at - sent[q].at + 1 <= W + 1
  BY <1>1, <1>2, <1>3, <1>4, <1>5, <1>6, FragmentAssumption
<1>9. Rate * (W + 1) <= IdSpace
  BY DEF IdsSuffice
<1>10. ASSUME NEW i \in Sent, NEW j \in Sent, i < j, IdOf(i) = IdOf(j),
              sent[i].at \in Nat, sent[j].at \in Nat,
              i \in Nat \ {0}, j \in Nat \ {0},
              sent[j].at - sent[i].at + 1 <= W + 1
       PROVE  FALSE
  <2> DEFINE d == sent[j].at - sent[i].at + 1
             x == Rate * d
             y == Rate * (W + 1)
  <2>1. j - i >= IdSpace
    BY <1>10, SameId
  <2>2. d \in Int /\ W + 1 \in Int /\ d <= W + 1
    BY <1>10, FragmentAssumption
  <2>3. x <= y
    <3> HIDE DEF d, W
    <3> QED
      BY <2>2, RateMonotone
  <2>4. j - i < x
    BY <1>7, <1>10
  <2>5. y <= IdSpace
    BY <1>9
  <2>6. x \in Int /\ y \in Int
    <3> HIDE DEF d, W
    <3> QED
      BY <2>2, FragmentAssumption
  <2> HIDE DEF x, y
  <2> QED
    BY <1>10, <2>1, <2>3, <2>4, <2>5, <2>6, FragmentAssumption
<1>11. ~(p < q)
  BY <1>1, <1>2, <1>3, <1>6, <1>8, <1>10
<1>12. ~(q < p)
  BY <1>1, <1>2, <1>3, <1>6, <1>8, <1>10
<1>13. p = q
  BY <1>3, <1>11, <1>12
<1> QED
  BY <1>13 DEF p, q, e

\* With as many ids as packets in the window of a pending half, the two halves
\* that frag_try_reassemble joins are of one packet: the 16 bit id of
\* frag_next_pkt_id may wrap around, halves may be lost, late or duplicated.
THEOREM HalvesMatchCorrect ==
  ASSUME IdsSuffice
  PROVE  Spec => []HalvesMatch
<1>1. Init => HalvesMatch
  BY DEF Init, HalvesMatch
<1>2. FInv /\ HalvesMatch /\ [Next]_vars => HalvesMatch'
  <2> SUFFICES ASSUME FInv, HalvesMatch, [Next]_vars PROVE HalvesMatch'
    OBVIOUS
  <2>1. CASE \E f \in net : ReceiveSecond(f)
    <3>1. PICK f \in net : ReceiveSecond(f)
      BY <2>1
    <3> DEFINE l == sent[f.pkt].layer
               e == table[l][SlotOf(f)]
    <3>2. CASE Matches(e, IdOf(f.pkt)) /\ ~Expired(e, now)
      <4>1. f.pkt \in Nat \ {0} /\ l \in Layers
        BY SentType DEF FInv, NetInv
      <4>2. SlotOf(f) \in Slot
        BY <4>1, IdType DEF SlotOf
      <4>3. e.data = f.pkt
        BY <3>2, <4>1, <4>2, SameIdSamePacket
      <4>4. last' = <<e.data, f.pkt>>
        BY <3>1, <3>2 DEF ReceiveSecond
      <4> HIDE DEF e
      <4> QED
        BY <4>3, <4>4 DEF HalvesMatch
    <3>3. CASE ~(Matches(e, IdOf(f.pkt)) /\ ~Expired(e, now))
      <4>1. last' = last
        BY <3>1, <3>3 DEF ReceiveSecond
      <4> QED
        BY <4>1 DEF HalvesMatch
    <3> QED
      BY <3>2, <3>3
  <2>2. CASE ~\E f \in net : ReceiveSecond(f)
    <3>1. last' = last
      BY <2>2 DEF Next, vars, receiver, Split, Tick, ReceiveFirst, Collect, GcStart,
                  GcReadValid, GcReadTime, GcClear, GcGoes
    <3> QED
      BY <3>1 DEF HalvesMatch
  <2> QED
    BY <2>1, <2>2
<1>3. Spec => []FInv
  BY InitFInv, StepFInv, PTL DEF Spec
<1> QED
  BY <1>1, <1>2, <1>3, PTL DEF Spec

\* What FreshKept allows of a slot.
SlotKept(l, s) ==
  LET e == table[l][s]
  IN e.valid /\ now - e.timestamp <= Timeout /\ ~table'[l][s].valid =>
       \/ delivered'[e.data] > delivered[e.data]
       \/ gc.at = "clear" /\ gc.layer = l /\ gc.slot = s /\ gc' # gc

\* A second half that finds a fresh first half of its id is joined to it, and
\* leaves every other slot alone.
LEMMA ReceiveSecondKeeps ==
  ASSUME FInv, NEW f \in net, ReceiveSecond(f), NEW k \in Layers, NEW s \in Slot
  PROVE  SlotKept(k, s)
<1> DEFINE l == sent[f.pkt].layer
           e == table[l][SlotOf(f)]
<1>1. f.pkt \in Nat \ {0} /\ l \in Layers
  BY SentType DEF FInv, NetInv
<1>2. SlotOf(f) \in Slot
  BY <1>1, IdType DEF SlotOf
<1>3. /\ table \in [Layers -> [Slot -> Entry]] /\ delivered \in [Packet -> Nat]
      /\ now \in Nat /\ Timeout \in Nat
  BY FragmentAssumption DEF FInv, TypeOK
<1>4. e.data \in Packet /\ e.timestamp \in Nat
  BY <1>1, <1>2, <1>3, FragmentAssumption DEF Entry
<1>5. CASE table'[k][s] = table[k][s]
  BY <1>5 DEF SlotKept
<1>6. CASE table'[k][s] # table[k][s]
  <2>1. Matches(e, IdOf(f.pkt)) /\ table' = [table EXCEPT ![l][SlotOf(f)] = Dropped(e)]
    BY <1>6 DEF ReceiveSecond
  <2>2. k = l /\ s = SlotOf(f)
    <3> DEFINE d == Dropped(e)
    <3> HIDE DEF d, l, e
    <3> QED
      BY <1>1, <1>2, <1>3, <1>6, <2>1 DEF d
  <2>3. SUFFICES ASSUME now - e.timestamp <= Timeout
                 PROVE  delivered'[e.data] > delivered[e.data]
    BY <2>2 DEF SlotKept
  <2>4. ~Expired(e, now)
    BY <1>3, <1>4, <2>3 DEF Expired
  <2>5. delivered' = [delivered EXCEPT ![e.data] = @ + 1]
    BY <2>1, <2>4 DEF ReceiveSecond
  <2> HIDE DEF e
  <2> QED
    BY <1>3, <1>4, <2>5
<1> QED
  BY <1>5, <1>6

\* The first half of another packet fills the slot it takes.
LEMMA ReceiveFirstKeeps ==
  ASSUME FInv, NEW f \in net, ReceiveFirst(f), NEW k \in Layers, NEW s \in Slot
  PROVE  SlotKept(k, s)
<1> DEFINE l == sent[f.pkt].layer
           e == Stored(f.pkt)
<1>1. table \in [Layers -> [Slot -> Entry]] /\ e.valid
  BY DEF FInv, TypeOK, Stored
<1>2. table' = table \/ table' = [table EXCEPT ![l][SlotOf(f)] = e]
  BY DEF ReceiveFirst
<1> HIDE DEF e, l
<1>3. table'[k][s] = table[k][s] \/ table'[k][s] = e
  BY <1>1, <1>2
<1> QED
  BY <1>1, <1>3 DEF SlotKept

\* A first half that is not too old goes only into a packet, or gc_thread, which
\* read its entry before, takes it: frag_try_reassemble and the mutex that its
\* callers hold keep it from a WAN thread's own collection and from a second
\* half of another id.
THEOREM FreshKeptCorrect == Spec => FreshKept
<1>1. FInv /\ [Next]_vars => [\A l \in Layers, s \in Slot : SlotKept(l, s)]_vars
  <2> SUFFICES ASSUME FInv, [Next]_vars, NEW l \in Layers, NEW s \in Slot
               PROVE  SlotKept(l, s)
    OBVIOUS
  <2>1. CASE UNCHANGED table
    BY <2>1 DEF SlotKept
  <2>2. CASE \E f \in net : ReceiveFirst(f)
    BY <2>2, ReceiveFirstKeeps
  <2>3. CASE \E f \in net : ReceiveSecond(f)
    BY <2>3, ReceiveSecondKeeps
  <2>4. CASE \E k \in Layers : Collect(k)
    <3>1. PICK k \in Layers :
            table' = [table EXCEPT ![k] =
                       [r \in Slot |-> IF Fresh(table[k][r], now) THEN table[k][r]
                                       ELSE Dropped(table[k][r])]]
      BY <2>4 DEF Collect
    <3>2. table \in [Layers -> [Slot -> Entry]]
      BY DEF FInv, TypeOK
    <3>3. CASE Fresh(table[l][s], now)
      <4>1. table'[l][s] = table[l][s]
        BY <3>1, <3>2, <3>3
      <4> QED
        BY <4>1 DEF SlotKept
    <3>4. CASE ~Fresh(table[l][s], now)
      BY <3>4 DEF SlotKept, Fresh
    <3> QED
      BY <3>3, <3>4
  <2>5. CASE GcClear
    <3>1. gc' # gc
      <4>1. NoGc.at # "clear" /\ NextSlot.at # "clear"
        <5>1. NoGc.at = "idle"
          BY DEF NoGc
        <5>2. \A n \in Slot : [gc EXCEPT !.at = "valid", !.slot = n].at = "valid"
          BY DEF FInv, TypeOK
        <5>3. CASE gc.slot + 1 \in Slot
          <6>1. PICK g : g = [gc EXCEPT !.at = "valid", !.slot = gc.slot + 1]
            OBVIOUS
          <6>2. g.at = "valid"
            BY <5>2, <5>3, <6>1
          <6>3. NextSlot = g
            BY <5>3, <6>1 DEF NextSlot
          <6> QED
            BY <5>1, <6>2, <6>3
        <5>4. CASE gc.slot + 1 \notin Slot
          BY <5>1, <5>4 DEF NextSlot
        <5> QED
          BY <5>3, <5>4
      <4>2. gc.at = "clear" /\ gc' = NextSlot
        BY <2>5 DEF GcClear, GcGoes
      <4> QED
        BY <4>1, <4>2
    <3>2. table \in [Layers -> [Slot -> Entry]] /\ gc.layer \in Layers /\ gc.slot \in Slot
      BY DEF FInv, TypeOK
    <3>3. table'[l][s] = table[l][s] \/ (l = gc.layer /\ s = gc.slot)
      BY <2>5, <3>2 DEF GcClear
    <3> QED
      BY <2>5, <3>1, <3>3 DEF SlotKept, GcClear
  <2> QED
    BY <2>1, <2>2, <2>3, <2>4, <2>5 DEF Next, vars, receiver, Split, Tick, GcStart,
       GcReadValid, GcReadTime
<1>2. [\A l \in Layers, s \in Slot : SlotKept(l, s)]_vars
        => [\A l \in Layers, s \in Slot :
              LET e == table[l][s]
              IN e.valid /\ now - e.timestamp <= Timeout /\ ~table'[l][s].valid =>
                   \/ delivered'[e.data] > delivered[e.data]
                   \/ gc.at = "clear" /\ gc.layer = l /\ gc.slot = s /\ gc' # gc]_vars
  BY DEF SlotKept
<1>3. Spec => []FInv
  BY InitFInv, StepFInv, PTL DEF Spec
<1> QED
  BY <1>1, <1>2, <1>3, PTL DEF Spec, FreshKept

=============================================================================
