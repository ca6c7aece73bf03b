-------------------------------- MODULE XskTx --------------------------------
(***************************************************************************)
(* The transmit side of one AF_XDP queue, core/interface.c: the threads    *)
(* that forward packets copy each into the next frame of the UMEM's second *)
(* half, put a descriptor of it into the tx ring, and make the kernel look *)
(* at the ring by sendto: after so many packets, when the ring is full,    *)
(* and when their batch is done.                                           *)
(*                                                                         *)
(* The two ways to send differ.  To a WAN (interface_send_batch_queue) a   *)
(* full ring is kicked once, and only if packets were put since the last   *)
(* kick; to a LAN (interface_send_to_local_batch_queue) it is kicked until *)
(* there is room, LOCAL_TX_MAX_WAIT_LOOPS times at most.                   *)
(*                                                                         *)
(* In copy mode the kernel takes descriptors only during a sendto and      *)
(* copies the frames; it may leave some or all of them (its budget is used *)
(* up, there are no buffers, the link is down), and nobody looks at what   *)
(* sendto returns.                                                         *)
(*                                                                         *)
(* Data abstractions: a packet is a payload; the ring is a sequence, as    *)
(* all of its steps are taken under tx_lock; tx_slot is kept modulo the    *)
(* number of frames it is used with; the completion ring is left out, for  *)
(* what is in it is never read.                                            *)
(***************************************************************************)
EXTENDS Integers, Sequences

CONSTANTS
  Thread,       \* the threads that send through the queue
  Payload,
  TxRingSize,   \* ring_size: of the tx ring
  Half,         \* frame_count / 2
  KickAt,       \* pending packets that make the sender kick: 16 or 4
  MaxLoops,     \* LOCAL_TX_MAX_WAIT_LOOPS
  MaxBatch,     \* batch_size
  None

ASSUME XskTxAssumption ==
  /\ {TxRingSize, Half, KickAt, MaxBatch} \subseteq Nat \ {0}
  /\ TxRingSize <= Half         \* config_validate
  /\ MaxLoops \in Nat
  /\ None \notin Thread

VARIABLES
  toLocal,   \* whose queue it is: a LAN's or a WAN's
  tx_ring,   \* the tx ring: the frames its descriptors name
  frames,    \* what the frames of the second half hold
  tx_slot,
  pending,   \* pending_tx_count
  lock,      \* tx_lock: who has it, where in the call, kicks so far
  left,      \* packets each thread has still to send of its batch
  used,      \* wan_used, local_used_queues: the batch sent to this queue
  failed     \* ghost: the last sendto left descriptors in the ring

tx_vars == <<toLocal, tx_ring, frames, tx_slot, pending, lock, left, used, failed>>

Slot == 0 .. (Half - 1)
Unlocked == [by |-> None, at |-> "free", loops |-> 0]
InUse(t, at) == lock.by = t /\ lock.at = at

TxInit ==
  /\ toLocal \in BOOLEAN
  /\ tx_ring = <<>>
  /\ frames \in {[s \in Slot |-> p] : p \in Payload}
  /\ tx_slot = 0 /\ pending = 0 /\ lock = Unlocked
  /\ left = [t \in Thread |-> 0] /\ used = [t \in Thread |-> FALSE]
  /\ failed = FALSE

\* A batch of packets, some of which go to this queue.
Batch(t) ==
  /\ left[t] = 0 /\ ~used[t] /\ lock.by # t
  /\ \E n \in 1 .. MaxBatch : left' = [left EXCEPT ![t] = n]
  /\ UNCHANGED <<toLocal, tx_ring, frames, tx_slot, pending, lock, used, failed>>

Locked(t, at) == lock = Unlocked /\ lock' = [by |-> t, at |-> at, loops |-> 0]

SendBegins(t) ==
  /\ left[t] > 0 /\ Locked(t, "send")
  /\ UNCHANGED <<toLocal, tx_ring, frames, tx_slot, pending, left, used, failed>>

RingHasRoom == Len(tx_ring) < TxRingSize

\* Once enough packets are pending the call does not return without a kick.
KickOrUnlock(t) ==
  lock' = IF pending' >= KickAt THEN [by |-> t, at |-> "kick", loops |-> 0] ELSE Unlocked

\* Wrong variant, used by no action: the slot is not advanced.
SameSlot == tx_slot

NextSlot == (tx_slot + 1) % Half

Put(t) ==
  /\ InUse(t, "send") /\ RingHasRoom
  /\ \E p \in Payload : frames' = [frames EXCEPT ![tx_slot] = p]
  /\ tx_ring' = Append(tx_ring, tx_slot)
  /\ tx_slot' = NextSlot
  /\ pending' = pending + 1
  /\ KickOrUnlock(t)
  /\ left' = [left EXCEPT ![t] = @ - 1]
  /\ used' = [used EXCEPT ![t] = TRUE]
  /\ UNCHANGED <<toLocal, failed>>

\* sendto, and pending_tx_count = 0 whatever it did.
Kick ==
  \E n \in 0 .. Len(tx_ring) :
    /\ tx_ring' = SubSeq(tx_ring, n + 1, Len(tx_ring))
    /\ failed' = (n < Len(tx_ring))
    /\ pending' = 0

KickPending(t) ==
  /\ InUse(t, "kick") /\ Kick
  /\ lock' = Unlocked
  /\ UNCHANGED <<toLocal, frames, tx_slot, left, used>>

\* Wrong variant, used by no action: a full ring is kicked in any case.
KickFullAlways == lock.loops = 0

KicksFull == IF toLocal THEN lock.loops < MaxLoops ELSE lock.loops = 0 /\ pending > 0

FullKick(t) ==
  /\ InUse(t, "send") /\ ~RingHasRoom /\ KicksFull
  /\ Kick
  /\ lock' = [lock EXCEPT !.loops = @ + 1]
  /\ UNCHANGED <<toLocal, frames, tx_slot, left, used>>

\* The call returns -1 and the packet is dropped.
GiveUp(t) ==
  /\ InUse(t, "send") /\ ~RingHasRoom /\ ~KicksFull
  /\ lock' = Unlocked
  /\ left' = [left EXCEPT ![t] = @ - 1]
  /\ UNCHANGED <<toLocal, tx_ring, frames, tx_slot, pending, used, failed>>

\* Wrong variant, used by no action: the queue is not flushed after the batch.
NoFlush == FALSE

NeedsKick == pending > 0

\* interface_send_flush_queue, interface_send_to_local_flush_queue
Flush(t) ==
  /\ left[t] = 0 /\ used[t] /\ lock = Unlocked
  /\ IF NeedsKick THEN Kick ELSE UNCHANGED <<tx_ring, pending, failed>>
  /\ used' = [used EXCEPT ![t] = FALSE]
  /\ UNCHANGED <<toLocal, frames, tx_slot, lock, left>>

Sends(t) ==
  SendBegins(t) \/ Put(t) \/ KickPending(t) \/ FullKick(t) \/ GiveUp(t) \/ Flush(t)

TxNext == \E t \in Thread : Batch(t) \/ Sends(t)

TxSpec == TxInit /\ [][TxNext]_tx_vars

\* While some thread has packets to send, or a batch to end, one of them does:
\* only tx_lock makes a thread wait, and its holder never blocks.
TxFairSpec == TxSpec /\ WF_tx_vars(\E t \in Thread : Sends(t))

-----------------------------------------------------------------------------
TxTypeOK ==
  /\ toLocal \in BOOLEAN
  /\ tx_ring \in Seq(Slot) /\ Len(tx_ring) <= TxRingSize
  /\ frames \in [Slot -> Payload]
  /\ tx_slot \in Slot
  /\ pending \in 0 .. KickAt
  /\ lock \in [by : Thread \union {None}, at : {"free", "send", "kick"}, loops : Nat]
  /\ left \in [Thread -> 0 .. MaxBatch]
  /\ used \in [Thread -> BOOLEAN]
  /\ failed \in BOOLEAN

Waiting == [n \in 1 .. Len(tx_ring) |-> frames[tx_ring[n]]]

Fifo == INSTANCE TxFifo WITH waiting <- Waiting

(* Whatever sendto does, the packets a queue accepted leave in their order, *)
(* once each, and as they were given: no frame is written again while its   *)
(* descriptor waits in the tx ring.                                         *)
FifoSpec == Fifo!Spec

Jammed == ~toLocal /\ ~RingHasRoom /\ pending = 0

(* Once a WAN's ring is full and nothing is pending, which takes as many    *)
(* failed sendto calls as fill it, it stays so: no packet is accepted, and  *)
(* nothing kicks the kernel any more, even if it could send again           *)
(* (interface_send_batch_queue kicks a full ring only if packets are        *)
(* pending, and so does the flush).                                         *)
JammedForever == [][Jammed => Jammed']_tx_vars

(* Once every sendto takes what the ring holds, the ring is emptied again   *)
(* and again: the kick at enough packets, at a full ring and the flush      *)
(* after a batch leave no accepted packet to wait for a later one.          *)
Drained == <>[](~failed) => (tx_ring # <<>> ~> tx_ring = <<>>)

=============================================================================
