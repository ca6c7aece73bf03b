------------------------------ MODULE Xsk_proofs ------------------------------
(***************************************************************************)
(* Proofs about the two sides of an AF_XDP queue.                          *)
(*                                                                         *)
(* XskRx: the ring indices and the frame lists stay in their ranges; no    *)
(* unwritten entry is submitted before two releases overlap, and none do   *)
(* before a packet is dropped at the worker ring; and until then no frame  *)
(* is lost or held twice.                                                  *)
(*                                                                         *)
(* XskTx: a WAN's full ring that nothing is pending in stays so; and what  *)
(* the queue accepted leaves in order, once and intact.                    *)
(***************************************************************************)
EXTENDS XskRx, XskTx, SequenceTheorems, TLAPS

-----------------------------------------------------------------------------
(* The receive side *)

(* A ring index, reduced modulo Wrap as the compiler's unsigned 32 bit       *)
(* arithmetic does, written without a remainder.                             *)
Around(x, m) == IF x < 0 THEN x + m ELSE IF x < m THEN x ELSE x - m

LEMMA RemainderValue ==
  ASSUME NEW m \in Nat \ {0}, NEW x \in Int, -m <= x, x < 2 * m
  PROVE  x % m = Around(x, m) /\ Around(x, m) \in 0 .. (m - 1)
<1>1. ASSUME NEW q \in Int, NEW r \in Int, x = q * m + r, 0 <= r, r < m
      PROVE  x % m = r
  BY <1>1, Z3
<1>2. CASE x < 0
  <2>1. x = (-1) * m + (x + m)
    BY Z3
  <2> QED
    BY <1>1, <1>2, <2>1 DEF Around
<1>3. CASE 0 <= x /\ x < m
  <2>1. x = 0 * m + x
    BY Z3
  <2> QED
    BY <1>1, <1>3, <2>1 DEF Around
<1>4. CASE m <= x
  <2>1. x = 1 * m + (x - m)
    BY Z3
  <2> QED
    BY <1>1, <1>4, <2>1 DEF Around
<1> QED
  BY <1>2, <1>3, <1>4

(* A remainder is what is left of a multiple.                                *)
LEMMA Remainder ==
  ASSUME NEW m \in Nat \ {0}, NEW x \in Int
  PROVE  /\ x % m \in 0 .. (m - 1)
         /\ x \div m \in Int
         /\ x = m * (x \div m) + (x % m)
<1>1. x % m \in 0 .. (m - 1)
  OBVIOUS
<1>2. x \div m \in Int
  OBVIOUS
<1>3. x = m * (x \div m) + (x % m)
  BY Z3
<1> QED
  BY <1>1, <1>2, <1>3

(* The slot of an index does not change when the index wraps.                *)
LEMMA WrapsWithSlots ==
  ASSUME NEW x \in Int
  PROVE  (x + Wrap) % RingSize = x % RingSize
<1> DEFINE k == Wrap \div RingSize
           q == x \div RingSize
           r == x % RingSize
<1>1. k \in Int /\ Wrap = RingSize * k
  BY Remainder, XskRxAssumption
<1>2. q \in Int /\ r \in 0 .. (RingSize - 1) /\ x = RingSize * q + r
  BY Remainder, XskRxAssumption
<1> HIDE DEF k, q, r
<1>3. RingSize * (q + k) = RingSize * q + RingSize * k
  BY <1>1, <1>2, XskRxAssumption, Z3
<1>4. x + Wrap = RingSize * (q + k) + r
  BY <1>1, <1>2, <1>3, XskRxAssumption
<1>5. ASSUME NEW a \in Int, NEW b \in Int, NEW c \in Int, a = RingSize * b + c, 0 <= c, c < RingSize
      PROVE  a % RingSize = c
  BY <1>5, XskRxAssumption, Z3
<1>6. (x + Wrap) % RingSize = r
  BY <1>1, <1>2, <1>4, <1>5, XskRxAssumption
<1> QED
  BY <1>6 DEF r

(* Indices less than a ring apart have slots of their own.                   *)
LEMMA SlotsDiffer ==
  ASSUME NEW x \in Int, NEW y \in Int, x < y, y < x + RingSize
  PROVE  x % RingSize # y % RingSize
<1> SUFFICES ASSUME x % RingSize = y % RingSize PROVE FALSE
  OBVIOUS
<1> DEFINE p == x \div RingSize
           q == y \div RingSize
<1>1. p \in Int /\ q \in Int /\ y - x = RingSize * q - RingSize * p
  BY Remainder, XskRxAssumption
<1> HIDE DEF p, q
<1>2. y - x = RingSize * (q - p)
  BY <1>1, XskRxAssumption, Z3
<1>3. \A d \in Int : d >= 1 => RingSize * d >= RingSize
  BY XskRxAssumption, Z3
<1>4. \A d \in Int : d <= 0 => RingSize * d <= 0
  BY XskRxAssumption, Z3
<1> QED
  BY <1>1, <1>2, <1>3, <1>4, XskRxAssumption

-----------------------------------------------------------------------------
(* Type correctness.  TypeOK is inductive with the one fact about the queue  *)
(* thread that it begins every batch with nothing of the last.               *)
Begins == queue.at = "recv" => queue.addrs = <<>> /\ queue.i = 1

LEMMA InCounter ==
  ASSUME NEW x \in Int
  PROVE  x % Wrap \in Counter
<1>1. Wrap \in Nat \ {0}
  BY XskRxAssumption
<1> QED
  BY <1>1 DEF Counter

LEMMA InFrame ==
  ASSUME NEW x \in Int
  PROVE  x % RingSize \in Frame
  BY XskRxAssumption DEF Frame

LEMMA JobSlotInt == \A s \in JobSlot : s \in Int /\ s + 1 \in Int
  BY XskRxAssumption DEF JobSlot

LEMMA InJobSlot ==
  ASSUME NEW x \in Int
  PROVE  x % JobRingSize \in JobSlot
  BY XskRxAssumption DEF JobSlot

Position == [at : {"out", "reserve", "again", "bump", "write", "load", "store"},
             addr : Frame, idx : Counter]

LEMMA FrameZero == 0 \in Frame /\ 0 \in Counter /\ RingSize \in Counter /\ 0 \in JobSlot
  BY XskRxAssumption DEF Frame, Counter, JobSlot

(* What a thread does in the release leaves it at a position of the release. *)
LEMMA GoesTyped ==
  ASSUME TypeOK, NEW t \in Threads, NEW r \in Position, Goes(t, r)
  PROVE  rel' \in [Threads -> Position]
  BY DEF TypeOK, Goes, Position

LEMMA AdvancesTyped ==
  ASSUME TypeOK, NEW t \in Threads, NEW r \in Position, r.at \in DOMAIN After, Advances(t, r)
  PROVE  rel' \in [Threads -> Position]
<1>1. NoRelease \in Position
  BY FrameZero DEF NoRelease, Position
<1>2. r.at \in {"bump", "write", "load", "store"}
  BY DEF After
<1>3. After[r.at] # "out" => [r EXCEPT !.at = After[@]] \in Position
  BY <1>2 DEF After, Position
<1> QED
  BY <1>1, <1>3, GoesTyped DEF Advances

LEMMA AtTyped ==
  ASSUME TypeOK, NEW t \in Threads
  PROVE  rel[t] \in Position
  BY DEF TypeOK, Position

FillType == [entry : [Frame -> Frame], cached_prod : Counter,
             producer : Counter, consumer : Counter]

(* A step in the release writes the fill ring in range.                      *)
LEMMA ReleaseStepTyped ==
  ASSUME TypeOK, NEW t \in Threads, ReleaseStep(t)
  PROVE  TypeOK'
<1>1. rel[t] \in Position /\ fill \in FillType
  BY AtTyped DEF TypeOK, FillType
<1>2. fill' \in FillType /\ rel' \in [Threads -> Position] => TypeOK'
  BY DEF ReleaseStep, Reserve, Bump, WriteAddr, SubmitLoad, SubmitStore, ghosts, TypeOK, FillType, Position
<1>3. CASE Reserve(t)
  <2>1. [rel[t] EXCEPT !.at = "bump", !.idx = fill.cached_prod] \in Position
    BY <1>1 DEF Position, FillType
  <2>2. [rel[t] EXCEPT !.at = "again"] \in Position
    BY <1>1 DEF Position
  <2>3. NoRelease \in Position
    BY FrameZero DEF NoRelease, Position
  <2>4. rel' \in [Threads -> Position]
    BY <1>3, <2>1, <2>2, <2>3, GoesTyped DEF Reserve
  <2> QED
    BY <1>1, <1>2, <1>3, <2>4 DEF Reserve
<1>4. CASE Bump(t)
  <2>1. \A read \in {rel[t].idx, fill.cached_prod} : (read + 1) % Wrap \in Counter
    BY <1>1, InCounter DEF Position, FillType, Counter
  <2>2. fill' \in FillType
    BY <1>1, <1>4, <2>1 DEF Bump, FillType
  <2>3. rel' \in [Threads -> Position]
    BY <1>1, <1>4, AdvancesTyped DEF Bump, After
  <2> QED
    BY <1>2, <2>2, <2>3
<1>5. CASE WriteAddr(t)
  <2>1. rel[t].idx % RingSize \in Frame /\ rel[t].addr \in Frame
    BY <1>1, InFrame DEF Position, Counter
  <2>2. fill' \in FillType
    BY <1>1, <1>5, <2>1 DEF WriteAddr, FillType
  <2>3. rel' \in [Threads -> Position]
    BY <1>1, <1>5, AdvancesTyped DEF WriteAddr, After
  <2> QED
    BY <1>2, <2>2, <2>3
<1>6. CASE SubmitLoad(t)
  <2>1. PICK r : r = [rel[t] EXCEPT !.idx = fill.producer]
    OBVIOUS
  <2>2. r \in Position /\ r.at = "load"
    BY <1>1, <1>6, <2>1 DEF SubmitLoad, Position, FillType
  <2>3. Advances(t, r)
    BY <1>6, <2>1 DEF SubmitLoad
  <2>4. rel' \in [Threads -> Position]
    BY <2>2, <2>3, AdvancesTyped DEF After
  <2> QED
    BY <1>1, <1>2, <1>6, <2>4 DEF SubmitLoad
<1>7. CASE SubmitStore(t)
  <2>1. (rel[t].idx + 1) % Wrap \in Counter
    BY <1>1, InCounter DEF Position, Counter
  <2>2. fill' \in FillType
    BY <1>1, <1>7, <2>1 DEF SubmitStore, FillType
  <2>3. rel' \in [Threads -> Position]
    BY <1>1, <1>7, AdvancesTyped DEF SubmitStore, After
  <2> QED
    BY <1>2, <2>2, <2>3
<1> QED
  BY <1>3, <1>4, <1>5, <1>6, <1>7 DEF ReleaseStep

LEMMA InitTyped == Init => TypeOK
<1> SUFFICES ASSUME Init PROVE TypeOK
  OBVIOUS
<1>1. fill \in FillType
  BY FrameZero DEF Init, FillType, Frame
<1>2. rx \in Seq(Frame) /\ Len(rx) <= RingSize
  BY XskRxAssumption DEF Init
<1>3. /\ queue \in [kind : Kinds, at : {"recv", "handle", "release"}, addrs : Seq(Frame), i : Nat]
      /\ Len(queue.addrs) <= BatchSize /\ queue.i \in 1 .. (Len(queue.addrs) + 1)
  <2>1. <<>> \in Seq(Frame) /\ Len(<<>>) = 0
    BY EmptySeq
  <2>2. PICK s, k : s = <<>> /\ k \in Kinds /\ queue = [kind |-> k, at |-> "recv", addrs |-> s, i |-> 1]
    BY DEF Init
  <2>3. 0 <= BatchSize /\ 1 \in 1 .. (0 + 1)
    BY XskRxAssumption
  <2> QED
    BY <2>1, <2>2, <2>3
<1>4. ring \in [head : JobSlot, tail : JobSlot, jobs : [JobSlot -> Frame]]
  BY FrameZero DEF Init
<1>5. worker \in [at : {"idle", "job"}, job : Frame]
  BY FrameZero DEF Init
<1>6. rel \in [Threads -> Position]
  BY FrameZero DEF Init, NoRelease, Position
<1> QED
  BY <1>1, <1>2, <1>3, <1>4, <1>5, <1>6 DEF TypeOK, FillType, Position, Init

(* A call of the release begins with a frame.                                *)
LEMMA ReleaseTyped ==
  ASSUME TypeOK, NEW t \in Threads, NEW f \in Frame,
         Goes(t, [at |-> "reserve", addr |-> f, idx |-> 0])
  PROVE  rel' \in [Threads -> Position]
<1>1. [at |-> "reserve", addr |-> f, idx |-> 0] \in Position
  BY FrameZero DEF Position
<1> QED
  BY <1>1, GoesTyped

QueueType(q) ==
  /\ q \in [kind : Kinds, at : {"recv", "handle", "release"}, addrs : Seq(Frame), i : Nat]
  /\ Len(q.addrs) <= BatchSize /\ q.i \in 1 .. (Len(q.addrs) + 1)

(* The address the queue thread is at, and where the thread is after it.     *)
LEMMA AtAddress ==
  ASSUME TypeOK, queue.i <= Len(queue.addrs)
  PROVE  queue.addrs[queue.i] \in Frame /\ QueueType(Handled)
<1>1. queue.addrs \in Seq(Frame) /\ queue.i \in 1 .. Len(queue.addrs)
  BY DEF TypeOK
<1>2. queue.addrs[queue.i] \in Frame
  BY <1>1, ElementOfSeq
<1>3. QueueType(Handled)
  <2>1. Len(queue.addrs) \in Nat
    BY <1>1
  <2>2. PICK n \in Nat : n = queue.i + 1
    BY <1>1, <2>1
  <2>3. Handled = [kind |-> queue.kind, at |-> queue.at, addrs |-> queue.addrs, i |-> n]
    BY <2>2 DEF Handled, TypeOK
  <2>4. n \in 1 .. (Len(queue.addrs) + 1)
    BY <1>1, <2>1, <2>2
  <2> QED
    BY <2>2, <2>3, <2>4 DEF TypeOK, QueueType
<1> QED
  BY <1>2, <1>3

(* The queue thread after a frame, after a batch and before its release.     *)
LEMMA QueueValues ==
  ASSUME queue \in [kind : Kinds, at : {"recv", "handle", "release"}, addrs : Seq(Frame), i : Nat]
  PROVE  /\ Handled = [kind |-> queue.kind, at |-> queue.at, addrs |-> queue.addrs, i |-> queue.i + 1]
         /\ Again = [kind |-> queue.kind, at |-> "recv", addrs |-> <<>>, i |-> 1]
         /\ WholeBatch = [kind |-> queue.kind, at |-> "release", addrs |-> queue.addrs, i |-> 1]
<1>1. PICK h, q, w : h = Handled /\ q = Again /\ w = WholeBatch
  OBVIOUS
<1>2. h = [kind |-> queue.kind, at |-> queue.at, addrs |-> queue.addrs, i |-> queue.i + 1]
  BY <1>1 DEF Handled
<1>3. q = [kind |-> queue.kind, at |-> "recv", addrs |-> <<>>, i |-> 1]
  BY <1>1 DEF Again
<1>4. w = [kind |-> queue.kind, at |-> "release", addrs |-> queue.addrs, i |-> 1]
  BY <1>1 DEF WholeBatch
<1> QED
  BY <1>1, <1>2, <1>3, <1>4

LEMMA RestartTyped ==
  ASSUME TypeOK
  PROVE  QueueType(Again) /\ QueueType(WholeBatch)
<1>1. <<>> \in Seq(Frame) /\ Len(<<>>) = 0
  BY EmptySeq
<1>2. queue \in [kind : Kinds, at : {"recv", "handle", "release"}, addrs : Seq(Frame), i : Nat]
  BY DEF TypeOK
<1>3. QueueType(Again)
  <2>1. PICK s : s = <<>>
    OBVIOUS
  <2>2. Again = [kind |-> queue.kind, at |-> "recv", addrs |-> s, i |-> 1]
    BY <1>2, <2>1, QueueValues
  <2>3. s \in Seq(Frame) /\ Len(s) = 0
    BY <1>1, <2>1
  <2>4. 0 <= BatchSize /\ 1 \in 1 .. (0 + 1)
    BY XskRxAssumption
  <2> HIDE <2>1
  <2> QED
    BY <1>2, <2>2, <2>3, <2>4 DEF QueueType
<1>4. QueueType(WholeBatch)
  <2>1. Len(queue.addrs) \in Nat
    BY <1>2
  <2>2. 1 \in 1 .. (Len(queue.addrs) + 1)
    BY <2>1
  <2> QED
    BY <1>2, <2>2, QueueValues DEF TypeOK, QueueType
<1> QED
  BY <1>3, <1>4

(* What interface_recv_single_queue takes from the rx ring, and leaves.      *)
LEMMA ReceiveTaken ==
  ASSUME TypeOK, NEW n \in Nat, n <= Len(rx)
  PROVE  /\ SubSeq(rx, 1, n) \in Seq(Frame) /\ Len(SubSeq(rx, 1, n)) = n
         /\ \A k \in 1 .. n : SubSeq(rx, 1, n)[k] = rx[k]
         /\ SubSeq(rx, n + 1, Len(rx)) \in Seq(Frame)
         /\ Len(SubSeq(rx, n + 1, Len(rx))) = Len(rx) - n
         /\ \A k \in 1 .. (Len(rx) - n) : SubSeq(rx, n + 1, Len(rx))[k] = rx[n + k]
<1>1. rx \in Seq(Frame) /\ Len(rx) \in Nat
  BY DEF TypeOK
<1>2. \A k \in 1 .. Len(rx) : rx[k] \in Frame
  BY <1>1, ElementOfSeq
<1>3. /\ SubSeq(rx, 1, n) \in Seq(Frame)
      /\ Len(SubSeq(rx, 1, n)) = IF 1 <= n THEN n - 1 + 1 ELSE 0
      /\ \A k \in 1 .. (n - 1 + 1) : SubSeq(rx, 1, n)[k] = rx[1 + k - 1]
  <2>1. \A k \in 1 .. n : rx[k] \in Frame
    BY <1>1, <1>2
  <2> QED
    BY <2>1, SubSeqProperties
<1>4. PICK m \in Nat : m = Len(rx)
  BY <1>1
<1>5. /\ SubSeq(rx, n + 1, m) \in Seq(Frame)
      /\ Len(SubSeq(rx, n + 1, m)) = IF n + 1 <= m THEN m - (n + 1) + 1 ELSE 0
      /\ \A k \in 1 .. (m - (n + 1) + 1) : SubSeq(rx, n + 1, m)[k] = rx[n + 1 + k - 1]
  <2>1. \A k \in (n + 1) .. m : rx[k] \in Frame
    BY <1>2, <1>4
  <2> QED
    BY <2>1, SubSeqProperties
<1> QED
  BY <1>3, <1>4, <1>5

LEMMA GhostsTyped == TypeOK /\ [Next]_vars => {dropped', raced', twice'} \subseteq BOOLEAN
<1> SUFFICES ASSUME TypeOK, [Next]_vars PROVE {dropped', raced', twice'} \subseteq BOOLEAN
  OBVIOUS
<1>1. {dropped, raced, twice} \subseteq BOOLEAN
  BY DEF TypeOK
<1>2. \A t, f : Release(t, f) => raced' \in BOOLEAN
  BY <1>1 DEF Release
<1>3. CASE UNCHANGED ghosts
  BY <1>1, <1>3 DEF ghosts
<1>4. CASE EnqueueFull \/ ForwardMisses \/ ReleaseNext \/ ReleaseLocal
  BY <1>1, <1>2, <1>4 DEF EnqueueFull, DropFrame, ForwardMisses, ReleaseNext, ReleaseLocal
<1> QED
  BY <1>3, <1>4
     DEF Next, Queue, Worker, Deliver, Receive, Enqueue, Forward, BatchDone, Released, Dequeue, vars,
         ReleaseStep, Reserve, Bump, WriteAddr, SubmitLoad, SubmitStore

(* Every step keeps TypeOK.                                                  *)
LEMMA NextTyped == TypeOK /\ Begins /\ [Next]_vars => TypeOK'
<1> SUFFICES ASSUME TypeOK, Begins, [Next]_vars PROVE TypeOK'
  OBVIOUS
<1> DEFINE relOK == rel' \in [Threads -> Position]
<1>0. "queue" \in Threads /\ "worker" \in Threads
  BY DEF Threads
<1>g. {dropped', raced', twice'} \subseteq BOOLEAN
  BY GhostsTyped
<1>q. ASSUME QueueType(queue'), UNCHANGED <<fill, rx, ring, worker>>, relOK
      PROVE  TypeOK'
  BY <1>q, <1>g DEF TypeOK, QueueType, Position
<1>r. UNCHANGED rel => relOK
  BY DEF TypeOK, Position
<1>1. CASE UNCHANGED vars
  BY <1>1, <1>g DEF vars, TypeOK
<1>2. CASE Deliver
  <2>1. fill.consumer \in Int /\ fill.entry[fill.consumer % RingSize] \in Frame
    BY InFrame DEF TypeOK, Counter
  <2>2. fill' \in FillType
    <3>1. fill \in FillType /\ fill' = [fill EXCEPT !.consumer = (fill.consumer + 1) % Wrap]
      BY <1>2 DEF Deliver, TypeOK, FillType
    <3>2. (fill.consumer + 1) % Wrap \in Counter
      BY <2>1, InCounter
    <3> QED
      BY <3>1, <3>2 DEF FillType
  <2>3. rx' \in Seq(Frame) /\ Len(rx') = Len(rx) + 1
    BY <1>2, <2>1, AppendProperties DEF Deliver, TypeOK
  <2>4. Len(rx') <= RingSize
    BY <1>2, <2>3, XskRxAssumption DEF Deliver, TypeOK
  <2> QED
    BY <1>2, <1>g, <2>2, <2>3, <2>4 DEF Deliver, TypeOK, FillType
<1>3. ASSUME NEW n \in 1 .. BatchSize, Receive(n) PROVE TypeOK'
  <2>1. n \in Nat /\ n <= Len(rx) /\ n <= BatchSize
    BY <1>3, XskRxAssumption DEF Receive
  <2>2. rx' \in Seq(Frame) /\ Len(rx') = Len(rx) - n
    BY <1>3, <2>1, ReceiveTaken DEF Receive
  <2>3. Len(rx') <= RingSize
    BY <2>1, <2>2, XskRxAssumption DEF TypeOK
  <2>4. PICK s : s = SubSeq(rx, 1, n)
    OBVIOUS
  <2>5. s \in Seq(Frame) /\ Len(s) = n
    BY <2>1, <2>4, ReceiveTaken
  <2>6. queue' = [queue EXCEPT !.at = "handle", !.addrs = s]
    BY <1>3, <2>4 DEF Receive
  <2>7. queue.i = 1
    BY <1>3 DEF Receive, Begins
  <2>8. QueueType(queue')
    <3>1. queue' = [kind |-> queue.kind, at |-> "handle", addrs |-> s, i |-> 1]
      BY <2>6, <2>7 DEF TypeOK
    <3>2. 1 \in 1 .. (Len(s) + 1)
      BY <2>1, <2>5
    <3> QED
      BY <2>1, <2>5, <3>1, <3>2 DEF TypeOK, QueueType
  <2> QED
    BY <1>3, <1>g, <2>2, <2>3, <2>8 DEF Receive, TypeOK, QueueType
<1>4. CASE Enqueue
  <2>1. QueueType(queue') /\ queue.addrs[queue.i] \in Frame
    BY <1>4, AtAddress DEF Enqueue, AtPacket
  <2>2. next_tail \in JobSlot
    BY InJobSlot, JobSlotInt DEF next_tail, TypeOK
  <2>3. ring' \in [head : JobSlot, tail : JobSlot, jobs : [JobSlot -> Frame]]
    BY <1>4, <2>1, <2>2 DEF Enqueue, TypeOK
  <2> QED
    BY <1>4, <1>g, <2>1, <2>3 DEF Enqueue, TypeOK, QueueType
<1>5. CASE EnqueueFull
  BY <1>0, <1>5, <1>q, AtAddress, ReleaseTyped DEF EnqueueFull, AtPacket, DropFrame, Release
<1>6. CASE Forward
  BY <1>6, <1>q, <1>r, AtAddress DEF Forward, AtPacket
<1>7. CASE ForwardMisses
  BY <1>0, <1>7, <1>q, AtAddress, ReleaseTyped DEF ForwardMisses, AtPacket, Release
<1>8. CASE BatchDone
  BY <1>8, <1>q, <1>r, RestartTyped DEF BatchDone
<1>9. CASE ReleaseNext
  BY <1>0, <1>9, <1>q, AtAddress, ReleaseTyped DEF ReleaseNext, Release
<1>10. CASE Released
  BY <1>10, <1>q, <1>r, RestartTyped DEF Released
<1>11. CASE Dequeue
  <2>1. (ring.head + 1) % JobRingSize \in JobSlot /\ ring.jobs[ring.head] \in Frame
    BY InJobSlot, JobSlotInt DEF TypeOK
  <2>2. ring' \in [head : JobSlot, tail : JobSlot, jobs : [JobSlot -> Frame]]
    BY <1>11, <2>1 DEF Dequeue, TypeOK
  <2>3. worker' \in [at : {"idle", "job"}, job : Frame]
    BY <1>11, <2>1 DEF Dequeue
  <2> QED
    BY <1>11, <1>g, <2>2, <2>3 DEF Dequeue, TypeOK
<1>12. CASE ReleaseLocal
  <2>1. worker.job \in Frame /\ worker' \in [at : {"idle", "job"}, job : Frame]
    BY <1>12 DEF ReleaseLocal, TypeOK
  <2>2. relOK
    BY <1>0, <1>12, <2>1, ReleaseTyped DEF ReleaseLocal, Release
  <2> QED
    BY <1>12, <1>g, <2>1, <2>2 DEF ReleaseLocal, Release, TypeOK, Position
<1>13. CASE ReleaseStep("queue") \/ ReleaseStep("worker")
  BY <1>0, <1>13, ReleaseStepTyped
<1> QED
  BY <1>1, <1>2, <1>3, <1>4, <1>5, <1>6, <1>7, <1>8, <1>9, <1>10, <1>11, <1>12, <1>13
     DEF Next, Queue, Worker

(* No step but the end of a batch brings the queue thread to the next.       *)
LEMMA BeginsStep == TypeOK /\ Begins /\ [Next]_vars => Begins'
<1> SUFFICES ASSUME TypeOK, Begins, [Next]_vars PROVE Begins'
  OBVIOUS
<1>1. queue \in [kind : Kinds, at : {"recv", "handle", "release"}, addrs : Seq(Frame), i : Nat]
  BY DEF TypeOK
<1>2. CASE UNCHANGED queue
  BY <1>2 DEF Begins
<1>3. ASSUME NEW n \in 1 .. BatchSize, Receive(n) PROVE Begins'
  <2>1. queue'.at = "handle"
    BY <1>1, <1>3 DEF Receive
  <2> QED
    BY <2>1 DEF Begins
<1>4. CASE queue.at # "recv" /\ queue' = Handled
  BY <1>1, <1>4, QueueValues DEF Begins
<1>5. CASE queue' = WholeBatch
  BY <1>1, <1>5, QueueValues DEF Begins
<1>6. CASE queue' = Again
  BY <1>1, <1>6, QueueValues DEF Begins
<1>7. CASE Queue
  BY <1>2, <1>3, <1>4, <1>5, <1>6, <1>7
     DEF Queue, Enqueue, EnqueueFull, Forward, ForwardMisses, BatchDone, ReleaseNext, Released,
         AtPacket, ReleaseStep, Reserve, Bump, WriteAddr, SubmitLoad, SubmitStore
<1>8. CASE Deliver \/ Worker \/ UNCHANGED vars
  BY <1>2, <1>8
     DEF Deliver, Worker, Dequeue, ReleaseLocal, vars,
         ReleaseStep, Reserve, Bump, WriteAddr, SubmitLoad, SubmitStore
<1> QED
  BY <1>7, <1>8 DEF Next

(* The indices of the fill ring stay 32 bit values, its entries, the rx      *)
(* ring's, the worker ring's and the threads' addresses stay frames of the   *)
(* UMEM, and the rx ring never holds more of them than there are.            *)
THEOREM TypeCorrect == Spec => []TypeOK
<1>1. Init => Begins
  BY DEF Init, Begins
<1> QED
  BY <1>1, InitTyped, NextTyped, BeginsStep, PTL DEF Spec

LEMMA BeginsCorrect == Spec => []Begins
<1>1. Init => Begins
  BY DEF Init, Begins
<1> QED
  BY <1>1, InitTyped, NextTyped, BeginsStep, PTL DEF Spec

-----------------------------------------------------------------------------
(* The indices of the fill ring, as long as the releases do not overlap.     *)

NoOverlap == \E t \in Threads : Quiet(t)
Exclusive(t) == \A u \in Threads \ {t} : Quiet(u)

(* What the ring's indices are while one thread is at r in the release: the  *)
(* thread that reserved has a free entry until it has submitted it, and it   *)
(* is the one that producer is at.                                           *)
IndicesAt(r) ==
  /\ r.at \in {"out", "reserve", "again"} => fill.cached_prod = fill.producer
  /\ r.at = "bump" => r.idx = fill.producer /\ fill.cached_prod = fill.producer
  /\ r.at \in {"write", "store"} => r.idx = fill.producer
  /\ r.at \in {"write", "load", "store"} => fill.cached_prod = (fill.producer + 1) % Wrap
  /\ r.at \in {"bump", "write", "load", "store"} => Submitted < RingSize

IndexInv ==
  /\ Submitted <= RingSize
  /\ \A t \in Threads : Exclusive(t) => IndicesAt(rel[t])

(* Distances between indices, which wrap.                                    *)
LEMMA Distances ==
  ASSUME NEW p \in Counter, NEW c \in Counter, NEW d, d = (p - c) % Wrap
  PROVE  /\ d \in 0 .. (Wrap - 1)
         /\ d < RingSize => (((p + 1) % Wrap) - c) % Wrap = d + 1
         /\ d > 0 => (p - ((c + 1) % Wrap)) % Wrap = d - 1
         /\ d <= RingSize => (c + RingSize - p) % Wrap = RingSize - d
         /\ p = c + d \/ p + Wrap = c + d
<1> DEFINE W == Wrap
           R == RingSize
<1>0. W \in Nat \ {0} /\ R \in Nat \ {0} /\ R < W /\ p \in 0 .. (W - 1) /\ c \in 0 .. (W - 1)
  BY XskRxAssumption DEF Counter
<1>1. \A x \in Int : -W <= x /\ x < 2 * W => x % W = Around(x, W) /\ Around(x, W) \in 0 .. (W - 1)
  BY <1>0, RemainderValue
<1>2. d = Around(p - c, W) /\ d \in 0 .. (W - 1)
  <2>1. p - c \in Int /\ -W <= p - c /\ p - c < 2 * W
    BY <1>0
  <2>2. (p - c) % W = Around(p - c, W) /\ Around(p - c, W) \in 0 .. (W - 1)
    BY <1>1, <2>1
  <2> QED
    BY <2>2
<1>3. p = c + d \/ p + W = c + d
  BY <1>0, <1>2 DEF Around
<1>4. ASSUME d < R PROVE (((p + 1) % W) - c) % W = d + 1
  <2>1. PICK q : q = Around(p + 1, W)
    OBVIOUS
  <2>2. (p + 1) % W = q /\ q \in 0 .. (W - 1)
    BY <1>0, <1>1, <2>1
  <2>3. (q - c) % W = Around(q - c, W)
    BY <1>0, <1>1, <2>2
  <2>4. Around(q - c, W) = d + 1
    BY <1>0, <1>3, <1>2, <1>4, <2>1, <2>2 DEF Around
  <2> QED
    BY <2>2, <2>3, <2>4
<1>5. ASSUME d > 0 PROVE (p - ((c + 1) % W)) % W = d - 1
  <2>1. PICK q : q = Around(c + 1, W)
    OBVIOUS
  <2>2. (c + 1) % W = q /\ q \in 0 .. (W - 1)
    BY <1>0, <1>1, <2>1
  <2>3. (p - q) % W = Around(p - q, W)
    BY <1>0, <1>1, <2>2
  <2>4. Around(p - q, W) = d - 1
    BY <1>0, <1>3, <1>2, <1>5, <2>1, <2>2 DEF Around
  <2> QED
    BY <2>2, <2>3, <2>4
<1>6. ASSUME d <= R PROVE (c + R - p) % W = R - d
  <2>1. (c + R - p) % W = Around(c + R - p, W)
    BY <1>0, <1>1
  <2>2. Around(c + R - p, W) = R - d
    BY <1>0, <1>2, <1>3, <1>6 DEF Around
  <2> QED
    BY <2>1, <2>2
<1> QED
  BY <1>2, <1>3, <1>4, <1>5, <1>6

LEMMA IndicesTyped ==
  ASSUME TypeOK
  PROVE  /\ fill.producer \in Counter /\ fill.consumer \in Counter /\ fill.cached_prod \in Counter
         /\ Submitted \in 0 .. (Wrap - 1)
<1>1. fill.producer \in Counter /\ fill.consumer \in Counter /\ fill.cached_prod \in Counter
  BY DEF TypeOK
<1> QED
  BY <1>1, Distances DEF Submitted

(* The kernel's step is the same to every thread: it only takes an entry.    *)
LEMMA DeliverIndices ==
  ASSUME TypeOK, Deliver
  PROVE  /\ fill' = [fill EXCEPT !.consumer = (fill.consumer + 1) % Wrap]
         /\ fill'.producer = fill.producer /\ fill'.cached_prod = fill.cached_prod
         /\ fill'.entry = fill.entry /\ fill'.consumer = (fill.consumer + 1) % Wrap
         /\ Submitted > 0 /\ Submitted' = Submitted - 1
<1>1. /\ fill' = [fill EXCEPT !.consumer = (fill.consumer + 1) % Wrap]
      /\ fill'.producer = fill.producer /\ fill'.cached_prod = fill.cached_prod
      /\ fill'.entry = fill.entry /\ fill'.consumer = (fill.consumer + 1) % Wrap
      /\ Submitted > 0
  BY DEF Deliver, TypeOK
<1>2. (fill.producer - ((fill.consumer + 1) % Wrap)) % Wrap = Submitted - 1
  BY <1>1, IndicesTyped, Distances DEF Submitted
<1> QED
  BY <1>1, <1>2 DEF Submitted

(* What a step of the one releasing thread does to the indices.              *)
LEMMA ReleaseIndices ==
  ASSUME TypeOK, NEW t \in Threads, ReleaseStep(t), IndicesAt(rel[t]), Submitted <= RingSize
  PROVE  /\ IndicesAt(rel[t])' /\ Submitted' <= RingSize
         /\ Quiet(t)' => fill'.cached_prod = fill'.producer
         /\ \A u \in Threads \ {t} : rel'[u] = rel[u]
         /\ ~Quiet(t)
<1>1. rel[t] \in Position /\ fill \in FillType /\ rel \in [Threads -> Position]
  BY AtTyped DEF TypeOK, FillType, Position
<1>2. \A r \in Position : Goes(t, r) => rel'[t] = r /\ \A u \in Threads \ {t} : rel'[u] = rel[u]
  BY <1>1 DEF Goes
<1>3. NoRelease \in Position /\ NoRelease.at = "out"
  BY FrameZero DEF NoRelease, Position
<1>4. Submitted \in 0 .. (Wrap - 1) /\ Wrap \in Nat /\ RingSize \in Nat
  BY IndicesTyped, XskRxAssumption
<1>5. CASE Reserve(t)
  <2>1. fill' = fill /\ Submitted' = Submitted /\ rel[t].at \in {"reserve", "again"}
    BY <1>5 DEF Reserve, Submitted
  <2>2. fill.cached_prod = fill.producer
    BY <2>1 DEF IndicesAt
  <2>3. CASE Free > 0
    <3>1. Submitted < RingSize
      BY <1>4, <2>2, <2>3, IndicesTyped, Distances DEF Free, Submitted
    <3>2. PICK r : r = [rel[t] EXCEPT !.at = "bump", !.idx = fill.cached_prod]
      OBVIOUS
    <3>3. r \in Position /\ r.at = "bump" /\ r.idx = fill.cached_prod
      BY <1>1, <3>2 DEF Position, FillType
    <3>4. Goes(t, r)
      BY <1>5, <2>3, <3>2 DEF Reserve
    <3>5. rel'[t] = r /\ \A u \in Threads \ {t} : rel'[u] = rel[u]
      BY <1>2, <3>3, <3>4
    <3> QED
      BY <2>1, <2>2, <3>1, <3>3, <3>5 DEF IndicesAt, Quiet
  <2>4. CASE ~(Free > 0)
    <3>1. PICK r : r = IF rel[t].at = "reserve" THEN [rel[t] EXCEPT !.at = "again"] ELSE NoRelease
      OBVIOUS
    <3>2. r \in Position /\ r.at \in {"out", "again"}
      BY <1>1, <1>3, <3>1 DEF Position
    <3>3. Goes(t, r)
      BY <1>5, <2>4, <3>1 DEF Reserve
    <3>4. rel'[t] = r /\ \A u \in Threads \ {t} : rel'[u] = rel[u]
      BY <1>2, <3>2, <3>3
    <3> QED
      BY <2>1, <2>2, <3>2, <3>4 DEF IndicesAt, Quiet
  <2> QED
    BY <2>3, <2>4
<1>6. ASSUME NEW at, at \in {"bump", "write", "load", "store"}, NEW r \in Position, r.at = at,
             Advances(t, r)
      PROVE  /\ \A u \in Threads \ {t} : rel'[u] = rel[u]
             /\ at = "store" => rel'[t].at = "out"
             /\ at # "store" => /\ rel'[t].at = After[at]
                                /\ rel'[t].idx = r.idx
                                /\ rel'[t].addr = r.addr
  <2>1. at = "store" => After[at] = "out"
    BY DEF After
  <2>2. at # "store" => After[at] \in {"write", "load", "store"} /\ After[at] # "out"
    BY <1>6 DEF After
  <2>3. CASE at = "store"
    BY <1>2, <1>3, <1>6, <2>1, <2>3 DEF Advances
  <2>4. CASE at # "store"
    <3>1. PICK s : s = [r EXCEPT !.at = After[@]]
      OBVIOUS
    <3>2. s \in Position /\ s.at = After[at] /\ s.idx = r.idx /\ s.addr = r.addr
      BY <1>6, <2>2, <2>4, <3>1 DEF Position
    <3>3. Goes(t, s)
      BY <1>6, <2>2, <2>4, <3>1 DEF Advances
    <3> QED
      BY <1>2, <2>4, <3>2, <3>3
  <2> QED
    BY <2>3, <2>4
<1>7. After["bump"] = "write" /\ After["write"] = "load" /\ After["load"] = "store"
  BY DEF After
<1>8. CASE Bump(t)
  <2>1. rel[t].at = "bump" /\ Advances(t, rel[t])
    BY <1>8 DEF Bump
  <2>2. rel[t].idx = fill.producer /\ fill.cached_prod = fill.producer /\ Submitted < RingSize
    BY <2>1 DEF IndicesAt
  <2>3. fill' = [fill EXCEPT !.cached_prod = (fill.producer + 1) % Wrap]
    BY <1>8, <2>2 DEF Bump
  <2>4. /\ fill'.producer = fill.producer /\ fill'.consumer = fill.consumer
        /\ fill'.cached_prod = (fill.producer + 1) % Wrap
    BY <1>1, <2>3 DEF FillType
  <2>5. rel'[t].at = "write" /\ rel'[t].idx = fill.producer /\ \A u \in Threads \ {t} : rel'[u] = rel[u]
    BY <1>1, <1>6, <1>7, <2>1, <2>2
  <2>6. Submitted' = Submitted
    BY <2>4 DEF Submitted
  <2> QED
    BY <2>1, <2>2, <2>4, <2>5, <2>6 DEF IndicesAt, Quiet
<1>9. CASE WriteAddr(t)
  <2>1. rel[t].at = "write" /\ Advances(t, rel[t])
    BY <1>9 DEF WriteAddr
  <2>2. /\ fill'.producer = fill.producer /\ fill'.consumer = fill.consumer
        /\ fill'.cached_prod = fill.cached_prod
    BY <1>1, <1>9 DEF WriteAddr, FillType
  <2>3. rel'[t].at = "load" /\ \A u \in Threads \ {t} : rel'[u] = rel[u]
    BY <1>1, <1>6, <1>7, <2>1
  <2>4. Submitted' = Submitted
    BY <2>2 DEF Submitted
  <2> QED
    BY <2>1, <2>2, <2>3, <2>4 DEF IndicesAt, Quiet
<1>10. CASE SubmitLoad(t)
  <2>1. rel[t].at = "load" /\ fill' = fill
    BY <1>10 DEF SubmitLoad
  <2>2. PICK r : r = [rel[t] EXCEPT !.idx = fill.producer]
    OBVIOUS
  <2>3. r \in Position /\ r.at = "load" /\ r.idx = fill.producer /\ Advances(t, r)
    BY <1>1, <1>10, <2>1, <2>2 DEF SubmitLoad, Position, FillType
  <2>4. rel'[t].at = "store" /\ rel'[t].idx = fill.producer /\ \A u \in Threads \ {t} : rel'[u] = rel[u]
    BY <1>6, <1>7, <2>3
  <2>5. Submitted' = Submitted
    BY <2>1 DEF Submitted
  <2> QED
    BY <2>1, <2>4, <2>5 DEF IndicesAt, Quiet
<1>11. CASE SubmitStore(t)
  <2>1. rel[t].at = "store" /\ Advances(t, rel[t])
    BY <1>11 DEF SubmitStore
  <2>2. rel[t].idx = fill.producer /\ fill.cached_prod = (fill.producer + 1) % Wrap /\ Submitted < RingSize
    BY <2>1 DEF IndicesAt
  <2>3. /\ fill'.producer = (fill.producer + 1) % Wrap /\ fill'.consumer = fill.consumer
        /\ fill'.cached_prod = fill.cached_prod
    BY <1>1, <1>11, <2>2 DEF SubmitStore, FillType
  <2>4. rel'[t].at = "out" /\ \A u \in Threads \ {t} : rel'[u] = rel[u]
    BY <1>1, <1>6, <2>1
  <2>5. Submitted' = Submitted + 1
    BY <2>2, <2>3, IndicesTyped, Distances DEF Submitted
  <2>6. Submitted' <= RingSize
    BY <1>4, <2>2, <2>5
  <2> QED
    BY <2>1, <2>2, <2>3, <2>4, <2>6 DEF IndicesAt, Quiet
<1> QED
  BY <1>5, <1>8, <1>9, <1>10, <1>11 DEF ReleaseStep

LEMMA OneReleases ==
  ASSUME NEW t \in Threads, NoOverlap, ~Quiet(t)
  PROVE  Exclusive(t)
  BY DEF NoOverlap, Exclusive, Threads

(* The worker takes a job only when it is through with the last one.         *)
WorkerFree == worker.at = "job" => Quiet("worker")

LEMMA ReleaseKeepsOthers ==
  ASSUME TypeOK, NEW t \in Threads, ReleaseStep(t)
  PROVE  ~Quiet(t) /\ \A u \in Threads \ {t} : rel'[u] = rel[u]
<1>1. ASSUME NEW r, Goes(t, r) PROVE \A u \in Threads \ {t} : rel'[u] = rel[u]
  BY <1>1 DEF Goes, TypeOK
<1>2. ASSUME NEW r, Advances(t, r) PROVE \A u \in Threads \ {t} : rel'[u] = rel[u]
  BY <1>1, <1>2 DEF Advances
<1> QED
  BY <1>1, <1>2 DEF ReleaseStep, Reserve, Bump, WriteAddr, SubmitLoad, SubmitStore, Quiet

LEMMA WorkerFreeStep == TypeOK /\ WorkerFree /\ [Next]_vars => WorkerFree'
<1> SUFFICES ASSUME TypeOK, WorkerFree, [Next]_vars PROVE WorkerFree'
  OBVIOUS
<1>0. "queue" \in Threads /\ "worker" \in Threads \ {"queue"}
  BY DEF Threads
<1>1. CASE UNCHANGED <<worker, rel>>
  BY <1>1 DEF WorkerFree, Quiet
<1>2. ASSUME NEW f, Goes("queue", [at |-> "reserve", addr |-> f, idx |-> 0]), UNCHANGED worker
      PROVE  WorkerFree'
  <2>1. rel'["worker"] = rel["worker"]
    BY <1>0, <1>2 DEF Goes, TypeOK
  <2> QED
    BY <1>2, <2>1 DEF WorkerFree, Quiet
<1>3. CASE Dequeue
  BY <1>3 DEF Dequeue, WorkerFree, Quiet
<1>4. CASE ReleaseLocal
  <2>1. worker'.at = "idle"
    BY <1>4 DEF ReleaseLocal, TypeOK
  <2> QED
    BY <2>1 DEF WorkerFree
<1>5. CASE ReleaseStep("queue")
  <2>1. rel'["worker"] = rel["worker"]
    BY <1>0, <1>5, ReleaseKeepsOthers
  <2>2. worker' = worker
    BY <1>5 DEF ReleaseStep, Reserve, Bump, WriteAddr, SubmitLoad, SubmitStore
  <2> QED
    BY <2>1, <2>2 DEF WorkerFree, Quiet
<1>6. CASE ReleaseStep("worker")
  <2>1. ~Quiet("worker")
    BY <1>0, <1>6, ReleaseKeepsOthers
  <2>2. worker' = worker
    BY <1>6 DEF ReleaseStep, Reserve, Bump, WriteAddr, SubmitLoad, SubmitStore
  <2> QED
    BY <2>1, <2>2 DEF WorkerFree
<1>7. CASE Deliver \/ UNCHANGED vars \/ (\E n \in 1 .. BatchSize : Receive(n)) \/ Enqueue \/ Forward
           \/ BatchDone \/ Released
  BY <1>1, <1>7 DEF Deliver, vars, Receive, Enqueue, Forward, BatchDone, Released
<1>8. CASE EnqueueFull \/ ForwardMisses \/ ReleaseNext
  BY <1>2, <1>8 DEF EnqueueFull, DropFrame, ForwardMisses, ReleaseNext, Release
<1> QED
  BY <1>3, <1>4, <1>5, <1>6, <1>7, <1>8 DEF Next, Queue, Worker

LEMMA InitIndices == Init => IndexInv /\ WorkerFree
<1> SUFFICES ASSUME Init PROVE IndexInv /\ WorkerFree
  OBVIOUS
<1>1. fill.producer = RingSize /\ fill.consumer = 0 /\ fill.cached_prod = RingSize
  BY DEF Init
<1>2. Submitted = RingSize
  <2>1. RingSize - 0 = RingSize /\ -Wrap <= RingSize /\ RingSize < 2 * Wrap /\ Wrap \in Nat \ {0}
    BY XskRxAssumption
  <2>2. RingSize % Wrap = Around(RingSize, Wrap)
    BY <2>1, RemainderValue, XskRxAssumption
  <2> QED
    BY <1>1, <2>1, <2>2, XskRxAssumption DEF Submitted, Around
<1>3. \A t \in Threads : rel[t].at = "out"
  BY DEF Init, NoRelease
<1> QED
  BY <1>1, <1>2, <1>3, XskRxAssumption DEF IndexInv, IndicesAt, WorkerFree, Quiet, Init

(* Every step without an overlap keeps the indices in step.                  *)
LEMMA IndexStep ==
  ASSUME TypeOK, IndexInv, WorkerFree, NoOverlap, [Next]_vars
  PROVE  NoOverlap' => IndexInv'
<1>0. "queue" \in Threads /\ "worker" \in Threads
  BY DEF Threads
<1>1. CASE UNCHANGED <<fill, rel>>
  BY <1>1 DEF IndexInv, IndicesAt, Exclusive, Quiet, Submitted
<1>2. CASE Deliver
  <2>1. rel' = rel
    BY <1>2 DEF Deliver
  <2>2. \A r : IndicesAt(r) => IndicesAt(r)'
    BY <1>2, DeliverIndices, IndicesTyped, XskRxAssumption DEF IndicesAt
  <2>3. Submitted' <= RingSize
    BY <1>2, DeliverIndices, IndicesTyped, XskRxAssumption DEF IndexInv
  <2> QED
    BY <2>1, <2>2, <2>3 DEF IndexInv, Exclusive, Quiet, IndicesAt
<1>3. ASSUME NEW u \in Threads, NEW f, Goes(u, [at |-> "reserve", addr |-> f, idx |-> 0]),
             Quiet(u), UNCHANGED fill
      PROVE  IndexInv'
  <2>1. Submitted' = Submitted
    BY <1>3 DEF Submitted
  <2>2. rel'[u].at = "reserve" /\ \A t \in Threads \ {u} : rel'[t] = rel[t]
    BY <1>3 DEF Goes, TypeOK
  <2>3. ASSUME NEW t \in Threads, Exclusive(t)' PROVE t = u
    BY <2>2, <2>3 DEF Exclusive, Quiet
  <2>4. ASSUME Exclusive(u)' PROVE IndicesAt(rel[u])'
    <3>1. Exclusive(u)
      BY <2>2, <2>4 DEF Exclusive, Quiet
    <3>2. fill.cached_prod = fill.producer
      BY <1>3, <3>1 DEF IndexInv, IndicesAt, Quiet
    <3> QED
      BY <1>3, <2>2, <3>2 DEF IndicesAt
  <2> QED
    BY <2>1, <2>3, <2>4 DEF IndexInv
<1>4. ASSUME NEW u \in Threads, ReleaseStep(u) PROVE IndexInv'
  <2>1. Exclusive(u)
    BY <1>4, ReleaseKeepsOthers, OneReleases
  <2>2. IndicesAt(rel[u]) /\ Submitted <= RingSize
    BY <2>1 DEF IndexInv
  <2>3. /\ IndicesAt(rel[u])' /\ Submitted' <= RingSize
        /\ Quiet(u)' => fill'.cached_prod = fill'.producer
        /\ \A t \in Threads \ {u} : rel'[t] = rel[t]
    BY <1>4, <2>2, ReleaseIndices
  <2>4. ASSUME NEW t \in Threads, t # u, Exclusive(t)' PROVE IndicesAt(rel[t])'
    <3>1. rel'[t].at = "out"
      BY <2>1, <2>3, <2>4 DEF Exclusive, Quiet
    <3>2. fill'.cached_prod = fill'.producer
      BY <2>3, <2>4 DEF Exclusive
    <3> QED
      BY <3>1, <3>2 DEF IndicesAt
  <2> QED
    BY <2>3, <2>4 DEF IndexInv
<1>5. CASE UNCHANGED vars \/ (\E n \in 1 .. BatchSize : Receive(n)) \/ Enqueue \/ Forward
           \/ BatchDone \/ Released \/ Dequeue
  BY <1>1, <1>5 DEF vars, Receive, Enqueue, Forward, BatchDone, Released, Dequeue
<1>6. CASE EnqueueFull \/ ForwardMisses \/ ReleaseNext
  BY <1>0, <1>3, <1>6 DEF EnqueueFull, AtPacket, DropFrame, ForwardMisses, ReleaseNext, Release
<1>7. CASE ReleaseLocal
  BY <1>0, <1>3, <1>7 DEF ReleaseLocal, Release, WorkerFree
<1> QED
  BY <1>0, <1>2, <1>4, <1>5, <1>6, <1>7 DEF Next, Queue, Worker

(* The entry that is being written is the one after those submitted.         *)
LEMMA IndicesImplyWritten == TypeOK /\ NoOverlap /\ IndexInv => Written
<1> SUFFICES ASSUME TypeOK, NoOverlap, IndexInv, NEW t \in Threads, rel[t].at \in {"bump", "write"}
             PROVE  (rel[t].idx - fill.consumer) % Wrap >= Submitted
  BY DEF Written
<1>1. Exclusive(t)
  BY OneReleases DEF Quiet
<1>2. rel[t].idx = fill.producer
  BY <1>1 DEF IndexInv, IndicesAt
<1>3. (rel[t].idx - fill.consumer) % Wrap = Submitted
  BY <1>2 DEF Submitted
<1>4. Submitted \in Nat
  BY IndicesTyped, XskRxAssumption
<1> QED
  BY <1>3, <1>4

(* While no release began during another, none does, and at most one thread  *)
(* is in the release.                                                        *)
LEMMA RaceStep ==
  ASSUME TypeOK, ~raced => NoOverlap, [Next]_vars, ~raced'
  PROVE  ~raced /\ NoOverlap /\ NoOverlap'
<1>0. "queue" \in Threads /\ "worker" \in Threads
  BY DEF Threads
<1>1. CASE UNCHANGED <<rel, raced>>
  BY <1>1 DEF NoOverlap, Quiet
<1>2. ASSUME NEW t \in Threads, NEW f, Release(t, f) PROVE ~raced /\ NoOverlap'
  <2>1. ~raced /\ \A u \in Threads : Quiet(u)
    BY <1>2 DEF Release
  <2>2. \A u \in Threads \ {t} : rel'[u] = rel[u]
    BY <1>2 DEF Release, Goes, TypeOK
  <2>3. \E u \in Threads : u # t
    BY DEF Threads
  <2> QED
    BY <2>1, <2>2, <2>3 DEF NoOverlap, Quiet
<1>3. ASSUME NEW t \in Threads, ReleaseStep(t) PROVE ~raced /\ NoOverlap'
  <2>1. raced' = raced
    BY <1>3 DEF ReleaseStep, Reserve, Bump, WriteAddr, SubmitLoad, SubmitStore, ghosts
  <2>2. ~Quiet(t) /\ \A u \in Threads \ {t} : rel'[u] = rel[u]
    BY <1>3, ReleaseKeepsOthers
  <2>3. NoOverlap
    BY <2>1
  <2> QED
    BY <2>1, <2>2, <2>3 DEF NoOverlap, Quiet
<1>4. CASE UNCHANGED vars \/ Deliver \/ (\E n \in 1 .. BatchSize : Receive(n)) \/ Enqueue \/ Forward
           \/ BatchDone \/ Released \/ Dequeue
  BY <1>1, <1>4 DEF vars, ghosts, Deliver, Receive, Enqueue, Forward, BatchDone, Released, Dequeue
<1>5. CASE EnqueueFull \/ ForwardMisses \/ ReleaseNext \/ ReleaseLocal
  BY <1>0, <1>2, <1>5 DEF EnqueueFull, DropFrame, ForwardMisses, ReleaseNext, ReleaseLocal
<1>6. ~raced /\ NoOverlap'
  BY <1>0, <1>3, <1>4, <1>5 DEF Next, Queue, Worker
<1> QED
  BY <1>6

(* Until the first overlap the indices are in step.                          *)
RaceInv == ~raced => NoOverlap /\ IndexInv

LEMMA RaceInvStep == TypeOK /\ WorkerFree /\ RaceInv /\ [Next]_vars => RaceInv'
<1> SUFFICES ASSUME TypeOK, WorkerFree, RaceInv, [Next]_vars, ~raced'
             PROVE  NoOverlap' /\ IndexInv'
  BY DEF RaceInv
<1>1. ~raced /\ NoOverlap /\ NoOverlap'
  BY RaceStep DEF RaceInv
<1> QED
  BY <1>1, IndexStep DEF RaceInv

LEMMA InitRace == Init => RaceInv
<1>1. Init => NoOverlap
  BY DEF Init, NoOverlap, Quiet, NoRelease, Threads
<1> QED
  BY <1>1, InitIndices DEF RaceInv

LEMMA RaceInvCorrect == Spec => [](TypeOK /\ WorkerFree /\ RaceInv)
<1>1. Spec => []TypeOK
  BY TypeCorrect
<1> QED
  BY <1>1, InitIndices, InitRace, WorkerFreeStep, RaceInvStep, PTL DEF Spec

(* Where no queue has a worker there is nothing to overlap with.             *)
NoWorker ==
  /\ ~Queued
  /\ ring.head = ring.tail
  /\ worker.at = "idle"
  /\ Quiet("worker")

LEMMA NoWorkerStep == TypeOK /\ NoWorker /\ [Next]_vars => NoWorker'
<1> SUFFICES ASSUME TypeOK, NoWorker, [Next]_vars PROVE NoWorker'
  OBVIOUS
<1>0. "queue" \in Threads /\ "worker" \in Threads \ {"queue"}
  BY DEF Threads
<1>q. queue \in [kind : Kinds, at : {"recv", "handle", "release"}, addrs : Seq(Frame), i : Nat]
  BY DEF TypeOK
<1>1. CASE UNCHANGED <<ring, worker>> /\ rel'["worker"] = rel["worker"] /\ queue'.kind = queue.kind
  BY <1>1 DEF NoWorker, Queued, Quiet
<1>2. ASSUME NEW f, Goes("queue", [at |-> "reserve", addr |-> f, idx |-> 0])
      PROVE  rel'["worker"] = rel["worker"]
  BY <1>0, <1>2 DEF Goes, TypeOK
<1>3. /\ queue' = Handled => queue'.kind = queue.kind
      /\ queue' = Again => queue'.kind = queue.kind
      /\ queue' = WholeBatch => queue'.kind = queue.kind
  BY <1>q, QueueValues
<1>4. CASE UNCHANGED vars \/ Deliver
  BY <1>1, <1>4 DEF vars, Deliver
<1>5. ASSUME NEW n \in 1 .. BatchSize, Receive(n) PROVE NoWorker'
  <2>1. queue'.kind = queue.kind
    BY <1>5, <1>q DEF Receive
  <2> QED
    BY <1>1, <1>5, <2>1 DEF Receive
<1>6. CASE Forward \/ BatchDone \/ Released
  BY <1>1, <1>3, <1>6 DEF Forward, BatchDone, Released
<1>7. CASE ForwardMisses \/ ReleaseNext
  BY <1>1, <1>2, <1>3, <1>7 DEF ForwardMisses, ReleaseNext, Release
<1>8. ~Enqueue /\ ~EnqueueFull /\ ~Dequeue /\ ~ReleaseLocal
  BY DEF NoWorker, Enqueue, EnqueueFull, Dequeue, ReleaseLocal
<1>9. CASE ReleaseStep("queue")
  <2>1. rel'["worker"] = rel["worker"]
    BY <1>0, <1>9, ReleaseKeepsOthers
  <2>2. UNCHANGED <<queue, ring, worker>>
    BY <1>9 DEF ReleaseStep, Reserve, Bump, WriteAddr, SubmitLoad, SubmitStore
  <2> QED
    BY <1>1, <2>1, <2>2
<1>10. ~ReleaseStep("worker")
  BY <1>0, ReleaseKeepsOthers DEF NoWorker
<1> QED
  BY <1>4, <1>5, <1>6, <1>7, <1>8, <1>9, <1>10 DEF Next, Queue, Worker

(* What an overlap takes: only a queue thread with a worker can meet another *)
(* thread, it never releases a batch, and it is not in the release before it *)
(* has dropped a packet.                                                     *)
CauseInv ==
  /\ ~Queued => NoWorker
  /\ Queued => queue.at # "release"
  /\ Queued /\ ~dropped => Quiet("queue")
  /\ raced => Queued /\ dropped

LEMMA KindStays == TypeOK /\ [Next]_vars => queue'.kind = queue.kind
<1> SUFFICES ASSUME TypeOK, [Next]_vars PROVE queue'.kind = queue.kind
  OBVIOUS
<1>1. queue \in [kind : Kinds, at : {"recv", "handle", "release"}, addrs : Seq(Frame), i : Nat]
  BY DEF TypeOK
<1>2. queue' = Handled \/ queue' = Again \/ queue' = WholeBatch => queue'.kind = queue.kind
  BY <1>1, QueueValues
<1>3. ASSUME NEW n \in 1 .. BatchSize, Receive(n) PROVE queue'.kind = queue.kind
  BY <1>1, <1>3 DEF Receive
<1>4. CASE UNCHANGED queue
  BY <1>4
<1> QED
  BY <1>2, <1>3, <1>4
     DEF Next, Queue, Worker, Deliver, Enqueue, EnqueueFull, Forward, ForwardMisses, BatchDone,
         ReleaseNext, Released, Dequeue, ReleaseLocal, vars,
         ReleaseStep, Reserve, Bump, WriteAddr, SubmitLoad, SubmitStore

LEMMA CauseStep == TypeOK /\ WorkerFree /\ CauseInv /\ [Next]_vars => CauseInv'
<1> SUFFICES ASSUME TypeOK, WorkerFree, CauseInv, [Next]_vars PROVE CauseInv'
  OBVIOUS
<1>0. "queue" \in Threads /\ "worker" \in Threads /\ Threads = {"queue", "worker"}
  BY DEF Threads
<1>k. Queued' = Queued
  BY KindStays DEF Queued
<1>q. queue \in [kind : Kinds, at : {"recv", "handle", "release"}, addrs : Seq(Frame), i : Nat]
  BY DEF TypeOK
<1>1. ~Queued => NoWorker'
  BY NoWorkerStep DEF CauseInv
<1>2. Queued => queue'.at # "release"
  <2> SUFFICES ASSUME Queued PROVE queue'.at # "release"
    OBVIOUS
  <2>1. queue.at # "release" /\ ~ReleaseNext /\ ~Released /\ ~ForwardMisses /\ ~Forward
    BY DEF CauseInv, ReleaseNext, Released, ForwardMisses, Forward, MayMiss, Queued
  <2>2. CASE UNCHANGED queue
    BY <2>1, <2>2
  <2>3. CASE queue' = Handled \/ queue' = Again
    BY <1>q, <2>1, <2>3, QueueValues
  <2>4. ASSUME NEW n \in 1 .. BatchSize, Receive(n) PROVE queue'.at # "release"
    BY <1>q, <2>4 DEF Receive
  <2> QED
    BY <2>1, <2>2, <2>3, <2>4
       DEF Next, Queue, Worker, Deliver, Enqueue, EnqueueFull, BatchDone, Dequeue, ReleaseLocal,
           vars, ReleaseStep, Reserve, Bump, WriteAddr, SubmitLoad, SubmitStore
<1>3. CASE UNCHANGED <<rel, dropped, raced>>
  BY <1>1, <1>2, <1>3, <1>k DEF CauseInv, Quiet
<1>4. CASE EnqueueFull
  BY <1>1, <1>2, <1>4, <1>k DEF CauseInv, EnqueueFull
<1>5. CASE ForwardMisses \/ ReleaseNext
  <2>1. ~Queued /\ Quiet("queue") /\ Quiet("worker") /\ ~raced
    BY <1>5 DEF CauseInv, NoWorker, ForwardMisses, ReleaseNext, AtPacket, MayMiss, Queued
  <2>2. ~raced'
    BY <1>0, <1>5, <2>1 DEF ForwardMisses, ReleaseNext, Release
  <2> QED
    BY <1>1, <1>2, <1>k, <2>1, <2>2 DEF CauseInv
<1>6. CASE ReleaseLocal
  <2>1. Queued /\ Quiet("worker")
    BY <1>6 DEF CauseInv, NoWorker, ReleaseLocal, WorkerFree
  <2>2. rel'["queue"] = rel["queue"] /\ dropped' = dropped
    BY <1>0, <1>6 DEF ReleaseLocal, Release, Goes, TypeOK
  <2>3. raced' => dropped
    BY <1>0, <1>6, <2>1 DEF ReleaseLocal, Release, CauseInv
  <2> QED
    BY <1>1, <1>2, <1>k, <2>1, <2>2, <2>3 DEF CauseInv, Quiet
<1>7. ASSUME NEW t \in Threads, ReleaseStep(t) PROVE CauseInv'
  <2>1. dropped' = dropped /\ raced' = raced
    BY <1>7 DEF ReleaseStep, Reserve, Bump, WriteAddr, SubmitLoad, SubmitStore, ghosts
  <2>2. ~Quiet(t) /\ \A u \in Threads \ {t} : rel'[u] = rel[u]
    BY <1>7, ReleaseKeepsOthers
  <2>3. Queued /\ ~dropped => rel'["queue"] = rel["queue"]
    BY <1>0, <2>2 DEF CauseInv
  <2> QED
    BY <1>1, <1>2, <1>k, <2>1, <2>3 DEF CauseInv, Quiet
<1>8. CASE UNCHANGED vars \/ Deliver \/ (\E n \in 1 .. BatchSize : Receive(n)) \/ Enqueue \/ Forward
           \/ BatchDone \/ Released \/ Dequeue
  BY <1>3, <1>8 DEF vars, ghosts, Deliver, Receive, Enqueue, Forward, BatchDone, Released, Dequeue
<1> QED
  BY <1>0, <1>4, <1>5, <1>6, <1>7, <1>8 DEF Next, Queue, Worker

LEMMA CauseCorrect == Spec => [](TypeOK /\ CauseInv)
<1>1. Init => CauseInv
  BY DEF Init, CauseInv, NoWorker, Queued, Quiet, NoRelease, Threads
<1>2. Spec => [](TypeOK /\ WorkerFree)
  BY RaceInvCorrect, PTL
<1> QED
  BY <1>1, <1>2, CauseStep, PTL DEF Spec

(* "everything has been written to the ring before indicating this to the    *)
(* kernel" holds of the fill ring until interface_recv_release_single_queue  *)
(* is in two threads at once, whatever the sizes of the rings and however    *)
(* often the indices wrap; and that it never is before                       *)
(* local_queue_thread_l3l4 has dropped a packet for want of room in the      *)
(* worker ring.                                                              *)
THEOREM WrittenCorrect == Spec => []WrittenUntilRace
<1>1. TypeOK /\ RaceInv /\ CauseInv => WrittenUntilRace
  BY IndicesImplyWritten DEF RaceInv, CauseInv, WrittenUntilRace
<1> QED
  BY <1>1, RaceInvCorrect, CauseCorrect, PTL

(* A WAN's queue, or a local one without crypto, never submits an entry that *)
(* is not written: only its own thread releases frames there, also when it   *)
(* releases the frames of unanswered ARP requests twice.                     *)
THEOREM WrittenWithoutWorker ==
  ASSUME "queued" \notin Kinds
  PROVE  Spec => []~raced /\ []Written
<1>1. Init => NoWorker
  BY DEF Init, NoWorker, Queued, Quiet, NoRelease, Threads
<1>2. TypeOK => ~Queued
  BY DEF TypeOK, Queued
<1>3. Spec => [](TypeOK /\ CauseInv)
  BY CauseCorrect
<1>4. TypeOK /\ CauseInv => ~raced
  BY <1>2 DEF CauseInv
<1>5. TypeOK /\ RaceInv /\ ~raced => Written
  BY IndicesImplyWritten DEF RaceInv
<1> QED
  BY <1>3, <1>4, <1>5, RaceInvCorrect, PTL

-----------------------------------------------------------------------------
(* Where the frames are.  OneHolder speaks of one list, which no step leaves *)
(* in order; the invariant says of each place what it holds and how many,    *)
(* that all frames are in some place, and that the places hold RingSize in   *)
(* all.  It needs the indices (a releasing thread finds a free entry, writes *)
(* one that is not submitted and submits the one it wrote).                  *)

HeldFrom == IF queue.at = "handle" /\ ~Queued THEN 1 ELSE queue.i
JobCount == (ring.tail - ring.head) % JobRingSize
FillSlot(n) == (fill.consumer + n - 1) % RingSize
JobPlace(n) == (ring.head + n - 1) % JobRingSize

FillHas(f) == \E n \in 1 .. Submitted : fill.entry[FillSlot(n)] = f
RxHas(f) == \E n \in 1 .. Len(rx) : rx[n] = f
QueueHas(f) == \E n \in HeldFrom .. Len(queue.addrs) : queue.addrs[n] = f
JobsHave(f) == \E n \in 1 .. JobCount : ring.jobs[JobPlace(n)] = f
WorkerHas(f) == worker.at = "job" /\ worker.job = f
ReleaseHas(t, f) == ~Quiet(t) /\ rel[t].addr = f

QueueCount == Len(queue.addrs) - HeldFrom + 1
WorkerCount == IF worker.at = "job" THEN 1 ELSE 0
ReleaseCount(t) == IF Quiet(t) THEN 0 ELSE 1

SomePlaceHas(f) ==
  \/ FillHas(f) \/ RxHas(f) \/ QueueHas(f) \/ JobsHave(f) \/ WorkerHas(f)
  \/ ReleaseHas("queue", f) \/ ReleaseHas("worker", f)

HeldCount ==
  Submitted + Len(rx) + QueueCount + JobCount + WorkerCount
    + ReleaseCount("queue") + ReleaseCount("worker")

\* The entry that is about to be submitted holds the frame that is released.
EntryWritten(t) ==
  rel[t].at \in {"load", "store"} => fill.entry[fill.producer % RingSize] = rel[t].addr

PlacesInv ==
  /\ \A t \in Threads : EntryWritten(t)
  /\ HeldCount = RingSize
  /\ \A f \in Frame : SomePlaceHas(f)

HolderInv == clean => PlacesInv

(* The places of a ring of jobs between its head h and its tail.             *)
LEMMA JobPlaces ==
  ASSUME NEW t \in JobSlot, NEW h \in JobSlot, NEW d, d = (t - h) % JobRingSize
  PROVE  /\ d \in 0 .. (JobRingSize - 1)
         /\ h # t <=> d > 0
         /\ (h + d) % JobRingSize = t
         /\ \A n \in 1 .. d : (h + n - 1) % JobRingSize \in JobSlot \ {t}
         /\ (t + 1) % JobRingSize # h => (((t + 1) % JobRingSize) - h) % JobRingSize = d + 1
         /\ d > 0 => (t - ((h + 1) % JobRingSize)) % JobRingSize = d - 1
         /\ \A n \in 1 .. (d - 1) : (((h + 1) % JobRingSize) + n - 1) % JobRingSize = (h + n) % JobRingSize
<1> DEFINE J == JobRingSize
<1>0. J \in Nat \ {0} /\ h \in 0 .. (J - 1) /\ t \in 0 .. (J - 1)
  BY XskRxAssumption DEF JobSlot
<1>1. ASSUME NEW x \in Int, -J <= x, x < 2 * J
      PROVE  x % J = Around(x, J) /\ Around(x, J) \in 0 .. (J - 1)
  BY <1>0, <1>1, RemainderValue
<1>2. d = Around(t - h, J) /\ d \in 0 .. (J - 1)
  <2>1. t - h \in Int /\ -J <= t - h /\ t - h < 2 * J
    BY <1>0
  <2> QED
    BY <1>1, <2>1
<1>3. t = h + d \/ t + J = h + d
  BY <1>0, <1>2 DEF Around
<1>4. h # t <=> d > 0
  BY <1>0, <1>2 DEF Around
<1>5. (h + d) % J = t
  <2>1. h + d \in Int /\ -J <= h + d /\ h + d < 2 * J
    BY <1>0, <1>2
  <2>2. (h + d) % J = Around(h + d, J)
    BY <1>1, <2>1
  <2> QED
    BY <1>0, <1>2, <1>3, <2>2 DEF Around
<1>6. ASSUME NEW n \in 1 .. d PROVE (h + n - 1) % J \in JobSlot \ {t}
  <2>1. h + n - 1 \in Int /\ -J <= h + n - 1 /\ h + n - 1 < 2 * J
    BY <1>0, <1>2
  <2>2. (h + n - 1) % J = Around(h + n - 1, J) /\ Around(h + n - 1, J) \in 0 .. (J - 1)
    BY <1>1, <2>1
  <2>3. Around(h + n - 1, J) # t
    BY <1>0, <1>2, <1>3 DEF Around
  <2> QED
    BY <2>2, <2>3 DEF JobSlot
<1>7. ASSUME (t + 1) % J # h PROVE (((t + 1) % J) - h) % J = d + 1
  <2>1. PICK q : q = (t + 1) % J
    OBVIOUS
  <2>2. q = Around(t + 1, J) /\ q \in 0 .. (J - 1)
    <3>1. t + 1 \in Int /\ -J <= t + 1 /\ t + 1 < 2 * J
      BY <1>0
    <3> QED
      BY <1>1, <2>1, <3>1
  <2>3. (q - h) % J = Around(q - h, J)
    <3>1. q - h \in Int /\ -J <= q - h /\ q - h < 2 * J
      BY <1>0, <2>2
    <3> QED
      BY <1>1, <3>1
  <2>4. Around(q - h, J) = d + 1
    BY <1>0, <1>2, <1>3, <1>7, <2>1, <2>2 DEF Around
  <2> QED
    BY <2>1, <2>3, <2>4
<1>8. /\ (h + 1) % J = Around(h + 1, J) /\ (h + 1) % J \in 0 .. (J - 1)
  <2>1. h + 1 \in Int /\ -J <= h + 1 /\ h + 1 < 2 * J
    BY <1>0
  <2> QED
    BY <1>1, <2>1
<1>9. PICK g : g = (h + 1) % J
  OBVIOUS
<1>10. ASSUME d > 0 PROVE (t - g) % J = d - 1
  <2>1. t - g \in Int /\ -J <= t - g /\ t - g < 2 * J
    BY <1>0, <1>8, <1>9
  <2>2. (t - g) % J = Around(t - g, J)
    BY <1>1, <2>1
  <2>3. Around(t - g, J) = d - 1
    BY <1>0, <1>2, <1>3, <1>8, <1>9, <1>10 DEF Around
  <2> QED
    BY <2>2, <2>3
<1>11. ASSUME NEW n \in 1 .. (d - 1) PROVE (g + n - 1) % J = (h + n) % J
  <2>1. /\ g + n - 1 \in Int /\ -J <= g + n - 1 /\ g + n - 1 < 2 * J
        /\ h + n \in Int /\ -J <= h + n /\ h + n < 2 * J
    BY <1>0, <1>2, <1>8, <1>9
  <2>2. (g + n - 1) % J = Around(g + n - 1, J) /\ (h + n) % J = Around(h + n, J)
    BY <1>1, <2>1
  <2>3. Around(g + n - 1, J) = Around(h + n, J)
    BY <1>0, <1>2, <1>8, <1>9 DEF Around
  <2> QED
    BY <2>2, <2>3
<1> QED
  BY <1>2, <1>4, <1>5, <1>6, <1>7, <1>9, <1>10, <1>11

(* The slots of the fill ring between the kernel's index c and producer.     *)
LEMMA FillSlots ==
  ASSUME NEW p \in Counter, NEW c \in Counter, NEW d, d = (p - c) % Wrap
  PROVE  /\ (c + d) % RingSize = p % RingSize
         /\ d < RingSize => \A n \in 1 .. d : (c + n - 1) % RingSize # p % RingSize
         /\ \A n \in Nat : (((c + 1) % Wrap) + n - 1) % RingSize = (c + n) % RingSize
<1>0. Wrap \in Nat \ {0} /\ RingSize \in Nat \ {0} /\ p \in 0 .. (Wrap - 1) /\ c \in 0 .. (Wrap - 1)
  BY XskRxAssumption DEF Counter
<1>1. d \in 0 .. (Wrap - 1) /\ (p = c + d \/ p + Wrap = c + d)
  BY Distances
<1>2. (c + d) % RingSize = p % RingSize
  <2>1. p \in Int /\ (p + Wrap) % RingSize = p % RingSize
    BY <1>0, WrapsWithSlots
  <2> QED
    BY <1>1, <2>1
<1>3. ASSUME d < RingSize, NEW n \in 1 .. d PROVE (c + n - 1) % RingSize # p % RingSize
  <2>1. c + n - 1 \in Int /\ c + d \in Int /\ c + n - 1 < c + d /\ c + d < c + n - 1 + RingSize
    BY <1>0, <1>1, <1>3
  <2> QED
    BY <1>2, <2>1, SlotsDiffer
<1>4. ASSUME NEW n \in Nat PROVE (((c + 1) % Wrap) + n - 1) % RingSize = (c + n) % RingSize
  <2>1. PICK g : g = (c + 1) % Wrap
    OBVIOUS
  <2>2. g = Around(c + 1, Wrap) /\ g \in 0 .. (Wrap - 1)
    <3>1. c + 1 \in Int /\ -Wrap <= c + 1 /\ c + 1 < 2 * Wrap
      BY <1>0
    <3> QED
      BY <1>0, <2>1, <3>1, RemainderValue
  <2>3. g = c + 1 \/ g = c + 1 - Wrap
    BY <1>0, <2>2 DEF Around
  <2>4. CASE g = c + 1
    <3>1. g + n - 1 = c + n
      BY <1>0, <2>4
    <3> QED
      BY <2>1, <3>1
  <2>5. CASE g = c + 1 - Wrap
    <3>1. g + n - 1 \in Int /\ c + n = g + n - 1 + Wrap
      BY <1>0, <2>5
    <3> QED
      BY <2>1, <3>1, WrapsWithSlots
  <2> QED
    BY <2>3, <2>4, <2>5
<1> QED
  BY <1>2, <1>3, <1>4

(* A step that leaves a place alone leaves in it what it held.               *)
LEMMA SameFill ==
  ASSUME UNCHANGED fill
  PROVE  Submitted' = Submitted /\ \A f : FillHas(f) => FillHas(f)'
  BY DEF Submitted, FillHas, FillSlot

LEMMA SameRx ==
  ASSUME UNCHANGED rx
  PROVE  Len(rx)' = Len(rx) /\ \A f : RxHas(f) => RxHas(f)'
  BY DEF RxHas

LEMMA SameQueue ==
  ASSUME UNCHANGED queue
  PROVE  QueueCount' = QueueCount /\ \A f : QueueHas(f) => QueueHas(f)'
  BY DEF QueueCount, QueueHas, HeldFrom, Queued

LEMMA SameJobs ==
  ASSUME UNCHANGED ring
  PROVE  JobCount' = JobCount /\ \A f : JobsHave(f) => JobsHave(f)'
  BY DEF JobCount, JobsHave, JobPlace

LEMMA SameWorker ==
  ASSUME UNCHANGED worker
  PROVE  WorkerCount' = WorkerCount /\ \A f : WorkerHas(f) => WorkerHas(f)'
  BY DEF WorkerCount, WorkerHas

LEMMA SameRelease ==
  ASSUME NEW t, rel'[t] = rel[t]
  PROVE  ReleaseCount(t)' = ReleaseCount(t) /\ \A f : ReleaseHas(t, f) => ReleaseHas(t, f)'
  BY DEF ReleaseCount, ReleaseHas, Quiet

LEMMA CountsTyped ==
  ASSUME TypeOK
  PROVE  /\ Submitted \in Nat /\ Len(rx) \in Nat /\ QueueCount \in Nat /\ JobCount \in Nat
         /\ WorkerCount \in {0, 1} /\ \A t \in Threads : ReleaseCount(t) \in {0, 1}
         /\ RingSize \in Nat /\ HeldFrom \in Nat \ {0} /\ Len(queue.addrs) \in Nat
<1>1. Submitted \in Nat /\ RingSize \in Nat
  BY IndicesTyped, XskRxAssumption
<1>2. /\ Len(rx) \in Nat /\ Len(queue.addrs) \in Nat
      /\ queue.i \in 1 .. (Len(queue.addrs) + 1)
  BY DEF TypeOK
<1>3. QueueCount \in Nat /\ HeldFrom \in Nat \ {0}
  BY <1>2 DEF QueueCount, HeldFrom
<1>4. JobCount \in Nat
  <2>1. ring.tail \in JobSlot /\ ring.head \in JobSlot
    BY DEF TypeOK
  <2> QED
    BY <2>1, JobPlaces, XskRxAssumption DEF JobCount
<1>5. WorkerCount \in {0, 1} /\ \A t \in Threads : ReleaseCount(t) \in {0, 1}
  BY DEF WorkerCount, ReleaseCount
<1> QED
  BY <1>1, <1>2, <1>3, <1>4, <1>5

CountsInRange ==
  /\ Submitted \in Nat /\ Len(rx) \in Nat /\ QueueCount \in Nat /\ JobCount \in Nat
  /\ WorkerCount \in {0, 1} /\ \A t \in Threads : ReleaseCount(t) \in {0, 1}

LEMMA CountsAfter == TypeOK' => CountsInRange'
<1>1. TypeOK => CountsInRange
  BY CountsTyped DEF CountsInRange
<1> QED
  BY <1>1, PTL

(* The kernel takes the oldest entry and puts its frame into the rx ring.    *)
LEMMA DeliverMoves ==
  ASSUME TypeOK, Deliver
  PROVE  /\ Submitted' = Submitted - 1 /\ Len(rx)' = Len(rx) + 1
         /\ \A f : FillHas(f) \/ RxHas(f) => FillHas(f)' \/ RxHas(f)'
<1> DEFINE g == fill.entry[fill.consumer % RingSize]
<1>1. fill.consumer \in Int /\ g \in Frame
  BY InFrame DEF TypeOK, Counter
<1>2. rx' = Append(rx, g) /\ rx \in Seq(Frame) /\ Len(rx) \in Nat
  BY DEF Deliver, TypeOK
<1>3. /\ Len(rx') = Len(rx) + 1 /\ rx'[Len(rx) + 1] = g
      /\ \A n \in 1 .. Len(rx) : rx'[n] = rx[n]
  BY <1>1, <1>2, AppendProperties
<1>4. Submitted > 0 /\ Submitted \in Nat /\ Submitted' = Submitted - 1
  BY DeliverIndices, CountsTyped
<1>5. ASSUME NEW f, FillHas(f) PROVE FillHas(f)' \/ RxHas(f)'
  <2>1. PICK n \in 1 .. Submitted : fill.entry[FillSlot(n)] = f
    BY <1>5 DEF FillHas
  <2>2. CASE n = 1
    <3>1. fill.consumer + n - 1 = fill.consumer
      BY <1>1, <2>2
    <3>2. g = f
      BY <2>1, <3>1 DEF FillSlot
    <3>3. Len(rx) + 1 \in 1 .. Len(rx')
      BY <1>2, <1>3
    <3> QED
      BY <1>3, <3>2, <3>3 DEF RxHas
  <2>3. CASE n # 1
    <3>1. PICK m \in Nat : m = n - 1 /\ m \in 1 .. Submitted'
      BY <1>4, <2>1, <2>3
    <3>2. fill'.consumer = (fill.consumer + 1) % Wrap /\ fill'.entry = fill.entry
      BY DeliverIndices
    <3>3. (fill'.consumer + m - 1) % RingSize = (fill.consumer + m) % RingSize
      BY <3>2, IndicesTyped, FillSlots
    <3>4. fill.consumer + m = fill.consumer + n - 1
      BY <1>1, <3>1, <1>4, <2>1
    <3>5. FillSlot(m)' = FillSlot(n)
      BY <3>3, <3>4 DEF FillSlot
    <3>6. fill'.entry[FillSlot(m)'] = f
      BY <2>1, <3>2, <3>5
    <3> QED
      BY <3>1, <3>6 DEF FillHas
  <2> QED
    BY <2>2, <2>3
<1>6. ASSUME NEW f, RxHas(f) PROVE RxHas(f)'
  <2>1. PICK n \in 1 .. Len(rx) : rx[n] = f
    BY <1>6 DEF RxHas
  <2>2. n \in 1 .. Len(rx') /\ rx'[n] = f
    BY <1>2, <1>3, <2>1
  <2> QED
    BY <2>2 DEF RxHas
<1> QED
  BY <1>3, <1>4, <1>5, <1>6

(* The queue thread takes the first n of the rx ring, and has none itself.   *)
LEMMA ReceiveMoves ==
  ASSUME TypeOK, Begins, NEW n \in 1 .. BatchSize, Receive(n)
  PROVE  /\ Len(rx)' + QueueCount' = Len(rx) + QueueCount
         /\ \A f : RxHas(f) \/ QueueHas(f) => RxHas(f)' \/ QueueHas(f)'
<1>1. n \in Nat /\ n <= Len(rx) /\ Len(rx) \in Nat
  BY XskRxAssumption DEF Receive, TypeOK
<1>2. PICK s : s = SubSeq(rx, 1, n)
  OBVIOUS
<1>3. Len(s) = n /\ \A k \in 1 .. n : s[k] = rx[k]
  BY <1>1, <1>2, ReceiveTaken
<1>4. Len(rx') = Len(rx) - n /\ \A k \in 1 .. (Len(rx) - n) : rx'[k] = rx[n + k]
  BY <1>1, ReceiveTaken DEF Receive
<1>5. queue.i = 1 /\ Len(queue.addrs) = 0 /\ queue.at = "recv"
  BY EmptySeq DEF Receive, Begins
<1>6. queue'.i = 1 /\ queue'.addrs = s
  BY <1>2, <1>5 DEF Receive, TypeOK
<1>7. HeldFrom = 1 /\ HeldFrom' = 1
  BY <1>5, <1>6 DEF HeldFrom
<1>8. QueueCount = 0 /\ QueueCount' = n
  BY <1>1, <1>3, <1>5, <1>6, <1>7 DEF QueueCount
<1>9. ASSUME NEW f, RxHas(f) PROVE RxHas(f)' \/ QueueHas(f)'
  <2>1. PICK k \in 1 .. Len(rx) : rx[k] = f
    BY <1>9 DEF RxHas
  <2>2. CASE k <= n
    <3>1. k \in 1 .. n /\ k \in HeldFrom' .. Len(queue'.addrs) /\ queue'.addrs[k] = f
      BY <1>1, <1>3, <1>6, <1>7, <2>1, <2>2
    <3> QED
      BY <3>1 DEF QueueHas
  <2>3. CASE k > n
    <3>1. PICK m \in 1 .. (Len(rx) - n) : n + m = k
      <4>1. k - n \in 1 .. (Len(rx) - n) /\ n + (k - n) = k
        BY <1>1, <2>1, <2>3
      <4> QED
        BY <4>1
    <3>2. rx'[m] = f /\ m \in 1 .. Len(rx')
      BY <1>4, <2>1, <3>1
    <3> QED
      BY <3>2 DEF RxHas
  <2> QED
    BY <1>1, <2>1, <2>2, <2>3
<1>10. \A f : ~QueueHas(f)
  <2>1. 1 .. 0 = {}
    OBVIOUS
  <2> QED
    BY <1>5, <1>7, <2>1 DEF QueueHas
<1> QED
  BY <1>1, <1>4, <1>8, <1>9, <1>10

(* The queue thread goes past a frame that goes somewhere else ...           *)
LEMMA HandledMoves ==
  ASSUME TypeOK, queue' = Handled, queue.i <= Len(queue.addrs), queue.at = "release" \/ Queued
  PROVE  /\ QueueCount' = QueueCount - 1
         /\ \A f : QueueHas(f) => QueueHas(f)' \/ f = queue.addrs[queue.i]
<1>1. /\ queue'.i = queue.i + 1 /\ queue'.addrs = queue.addrs
      /\ queue'.at = queue.at /\ queue'.kind = queue.kind
  BY DEF Handled, TypeOK
<1>2. HeldFrom = queue.i /\ HeldFrom' = queue.i + 1
  BY <1>1 DEF HeldFrom, Queued
<1>3. queue.i \in Nat /\ Len(queue.addrs) \in Nat
  BY DEF TypeOK
<1>4. QueueCount' = QueueCount - 1
  BY <1>1, <1>2, <1>3 DEF QueueCount
<1>5. ASSUME NEW f, QueueHas(f) PROVE QueueHas(f)' \/ f = queue.addrs[queue.i]
  <2>1. PICK n \in queue.i .. Len(queue.addrs) : queue.addrs[n] = f
    BY <1>2, <1>5 DEF QueueHas
  <2>2. n = queue.i \/ n \in (queue.i + 1) .. Len(queue.addrs)
    BY <1>3, <2>1
  <2> QED
    BY <1>1, <1>2, <2>1, <2>2 DEF QueueHas
<1> QED
  BY <1>4, <1>5

(* ... or that stays with the batch, ...                                     *)
LEMMA ForwardMoves ==
  ASSUME TypeOK, Forward
  PROVE  QueueCount' = QueueCount /\ \A f : QueueHas(f) => QueueHas(f)'
<1>1. /\ queue'.addrs = queue.addrs /\ queue'.at = "handle" /\ queue.at = "handle"
      /\ queue'.kind = queue.kind /\ ~Queued
  BY DEF Forward, AtPacket, Handled, TypeOK
<1>2. HeldFrom = 1 /\ HeldFrom' = 1
  BY <1>1 DEF HeldFrom, Queued
<1> QED
  BY <1>1, <1>2 DEF QueueCount, QueueHas

(* ... turns from the batch to its release with all of it, and from what is  *)
(* passed on or released to the next batch with none.                        *)
LEMMA BatchMoves ==
  ASSUME TypeOK, BatchDone \/ Released
  PROVE  QueueCount' = QueueCount /\ \A f : QueueHas(f) => QueueHas(f)'
<1>1. queue \in [kind : Kinds, at : {"recv", "handle", "release"}, addrs : Seq(Frame), i : Nat]
  BY DEF TypeOK
<1>2. queue.i = Len(queue.addrs) + 1 /\ Len(queue.addrs) \in Nat
  BY DEF BatchDone, Released, TypeOK
<1>3. CASE queue' = WholeBatch /\ queue.at = "handle" /\ ~Queued
  <2>1. queue'.addrs = queue.addrs /\ queue'.at = "release" /\ queue'.i = 1
    BY <1>1, <1>3, QueueValues
  <2>2. HeldFrom = 1 /\ HeldFrom' = 1
    BY <1>3, <2>1 DEF HeldFrom
  <2> QED
    BY <2>1, <2>2 DEF QueueCount, QueueHas
<1>4. CASE queue' = Again /\ (Queued \/ queue.at = "release")
  <2>1. queue'.i = 1 /\ Len(queue'.addrs) = 0 /\ queue'.at = "recv"
    BY <1>1, <1>4, QueueValues, EmptySeq
  <2>2. HeldFrom = Len(queue.addrs) + 1 /\ HeldFrom' = 1
    BY <1>2, <1>4, <2>1 DEF HeldFrom
  <2>3. QueueCount = 0 /\ QueueCount' = 0
    BY <1>2, <2>1, <2>2 DEF QueueCount
  <2>4. \A f : ~QueueHas(f)
    <3>1. (Len(queue.addrs) + 1) .. Len(queue.addrs) = {}
      BY <1>2
    <3> QED
      BY <2>2, <3>1 DEF QueueHas
  <2> QED
    BY <2>3, <2>4
<1> QED
  BY <1>3, <1>4 DEF BatchDone, Released

(* local_queue_thread_l3l4 puts a frame behind the jobs that wait.           *)
LEMMA EnqueueMoves ==
  ASSUME TypeOK, Enqueue
  PROVE  /\ JobCount' = JobCount + 1
         /\ \A f : JobsHave(f) \/ f = queue.addrs[queue.i] => JobsHave(f)'
<1> DEFINE e == queue.addrs[queue.i]
<1>1. ring.head \in JobSlot /\ ring.tail \in JobSlot /\ ring.jobs \in [JobSlot -> Frame]
  BY DEF TypeOK
<1>2. /\ ring'.head = ring.head /\ ring'.tail = next_tail
      /\ ring'.jobs = [ring.jobs EXCEPT ![ring.tail] = e]
  BY DEF Enqueue, TypeOK
<1>3. next_tail # ring.head
  BY DEF Enqueue, HasRoom
<1>4. JobCount' = JobCount + 1 /\ JobCount \in Nat
  BY <1>1, <1>2, <1>3, JobPlaces, CountsTyped DEF JobCount, next_tail
<1>5. \A n : JobPlace(n)' = JobPlace(n)
  BY <1>2 DEF JobPlace
<1>6. ring.head \in Int
  BY <1>1, JobSlotInt
<1>7. ASSUME NEW f, JobsHave(f) PROVE JobsHave(f)'
  <2>1. PICK n \in 1 .. JobCount : ring.jobs[JobPlace(n)] = f
    BY <1>7 DEF JobsHave
  <2>2. JobPlace(n) \in JobSlot \ {ring.tail}
    BY <1>1, <2>1, JobPlaces DEF JobCount, JobPlace
  <2>3. ring'.jobs[JobPlace(n)'] = f
    BY <1>1, <1>2, <1>5, <2>1, <2>2
  <2>4. n \in 1 .. JobCount'
    BY <1>4, <2>1
  <2> QED
    BY <2>3, <2>4 DEF JobsHave
<1>8. ASSUME NEW f, f = e PROVE JobsHave(f)'
  <2>1. PICK n \in Nat : n = JobCount + 1
    BY <1>4
  <2>2. n \in 1 .. JobCount'
    BY <1>4, <2>1
  <2>3. JobPlace(n) = ring.tail
    <3>1. ring.head + n - 1 = ring.head + JobCount
      BY <1>4, <1>6, <2>1
    <3>2. (ring.head + JobCount) % JobRingSize = ring.tail
      BY <1>1, JobPlaces DEF JobCount
    <3> QED
      BY <3>1, <3>2 DEF JobPlace
  <2>4. ring'.jobs[JobPlace(n)'] = f
    BY <1>1, <1>2, <1>5, <1>8, <2>3
  <2> QED
    BY <2>2, <2>4 DEF JobsHave
<1> QED
  BY <1>4, <1>7, <1>8

(* The worker takes the job at head.                                         *)
LEMMA DequeueMoves ==
  ASSUME TypeOK, Dequeue
  PROVE  /\ JobCount' = JobCount - 1 /\ WorkerCount = 0 /\ WorkerCount' = 1
         /\ \A f : JobsHave(f) \/ WorkerHas(f) => JobsHave(f)' \/ WorkerHas(f)'
<1>1. ring.head \in JobSlot /\ ring.tail \in JobSlot /\ ring.jobs \in [JobSlot -> Frame]
  BY DEF TypeOK
<1>2. /\ ring'.head = (ring.head + 1) % JobRingSize /\ ring'.tail = ring.tail
      /\ ring'.jobs = ring.jobs /\ ring.head # ring.tail
  BY DEF Dequeue, TypeOK
<1>3. worker.at = "idle" /\ worker'.at = "job" /\ worker'.job = ring.jobs[ring.head]
  BY DEF Dequeue
<1>4. JobCount \in Nat /\ JobCount > 0 /\ JobCount' = JobCount - 1
  BY <1>1, <1>2, JobPlaces, CountsTyped DEF JobCount
<1>5. ring.head \in Int
  BY <1>1, JobSlotInt
<1>6. ASSUME NEW f, JobsHave(f) PROVE JobsHave(f)' \/ WorkerHas(f)'
  <2>1. PICK n \in 1 .. JobCount : ring.jobs[JobPlace(n)] = f
    BY <1>6 DEF JobsHave
  <2>2. CASE n = 1
    <3>1. ring.head + n - 1 = ring.head
      BY <1>5, <2>2
    <3>2. ring.head % JobRingSize = ring.head
      BY <1>1, XskRxAssumption DEF JobSlot
    <3> QED
      BY <1>3, <2>1, <3>1, <3>2 DEF JobPlace, WorkerHas
  <2>3. CASE n # 1
    <3>1. PICK m \in 1 .. (JobCount - 1) : m = n - 1
      BY <1>4, <2>1, <2>3
    <3>2. ring.head + m = ring.head + n - 1
      BY <1>4, <1>5, <2>1, <3>1
    <3>3. JobPlace(m)' = JobPlace(n)
      BY <1>1, <1>2, <3>1, <3>2, JobPlaces DEF JobCount, JobPlace
    <3> QED
      BY <1>2, <1>4, <2>1, <3>1, <3>3 DEF JobsHave
  <2> QED
    BY <2>2, <2>3
<1> QED
  BY <1>3, <1>4, <1>6 DEF WorkerHas, WorkerCount

(* A release begins with the frame.                                          *)
LEMMA ReleaseBegins ==
  ASSUME TypeOK, NEW t \in Threads, NEW g, Quiet(t),
         Goes(t, [at |-> "reserve", addr |-> g, idx |-> 0])
  PROVE  /\ ReleaseCount(t) = 0 /\ ReleaseCount(t)' = 1
         /\ \A f : ReleaseHas(t, f) \/ f = g => ReleaseHas(t, f)'
         /\ \A u \in Threads \ {t} : rel'[u] = rel[u]
         /\ rel'[t].at = "reserve"
<1>1. rel'[t] = [at |-> "reserve", addr |-> g, idx |-> 0] /\ \A u \in Threads \ {t} : rel'[u] = rel[u]
  BY DEF Goes, TypeOK
<1> QED
  BY <1>1 DEF ReleaseCount, ReleaseHas, Quiet

(* A step of the releasing thread keeps its frame, or submits it.            *)
LEMMA ReleaseMoves ==
  ASSUME TypeOK, NEW t \in Threads, ReleaseStep(t), IndicesAt(rel[t]), EntryWritten(t),
         Submitted < RingSize
  PROVE  /\ Submitted' + ReleaseCount(t)' = Submitted + ReleaseCount(t)
         /\ \A f : FillHas(f) \/ ReleaseHas(t, f) => FillHas(f)' \/ ReleaseHas(t, f)'
         /\ EntryWritten(t)'
<1>1. rel[t] \in Position /\ fill \in FillType /\ rel \in [Threads -> Position]
  BY AtTyped DEF TypeOK, FillType, Position
<1>2. \A r \in Position : Goes(t, r) => rel'[t] = r
  BY <1>1 DEF Goes
<1>3. ASSUME NEW r \in Position, r.addr = rel[t].addr, r.at # "out", Goes(t, r), ~Quiet(t)
      PROVE  /\ rel'[t] = r
             /\ ReleaseCount(t)' = ReleaseCount(t)
             /\ \A f : ReleaseHas(t, f) => ReleaseHas(t, f)'
  <2>1. rel'[t] = r
    BY <1>2, <1>3
  <2> QED
    BY <2>1, <1>3 DEF ReleaseCount, ReleaseHas, Quiet
<1>4. ASSUME NEW r \in Position, r.addr = rel[t].addr, r.at \in {"bump", "write", "load"},
             Advances(t, r), ~Quiet(t)
      PROVE  /\ rel'[t].at = After[r.at] /\ rel'[t].addr = rel[t].addr
             /\ ReleaseCount(t)' = ReleaseCount(t)
             /\ \A f : ReleaseHas(t, f) => ReleaseHas(t, f)'
  <2>1. After[r.at] \in {"write", "load", "store"} /\ After[r.at] # "out"
    BY <1>4 DEF After
  <2>2. PICK s : s = [r EXCEPT !.at = After[@]]
    OBVIOUS
  <2>3. s \in Position /\ s.at = After[r.at] /\ s.addr = r.addr
    BY <2>1, <2>2 DEF Position
  <2>4. Goes(t, s)
    BY <1>4, <2>1, <2>2 DEF Advances
  <2> QED
    BY <1>3, <1>4, <2>1, <2>3, <2>4
<1>5. After["bump"] = "write" /\ After["write"] = "load" /\ After["load"] = "store"
  BY DEF After
<1>6. ~Quiet(t)
  BY ReleaseKeepsOthers
<1>7. CASE Reserve(t)
  <2>1. rel[t].at \in {"reserve", "again"} /\ fill' = fill
    BY <1>7 DEF Reserve
  <2>2. fill.cached_prod = fill.producer
    BY <2>1 DEF IndicesAt
  <2>3. Free > 0
    <3>1. Free = RingSize - Submitted
      BY <2>2, IndicesTyped, CountsTyped, Distances DEF Free, Submitted
    <3> QED
      BY <3>1, CountsTyped
  <2>4. PICK r : r = [rel[t] EXCEPT !.at = "bump", !.idx = fill.cached_prod]
    OBVIOUS
  <2>5. r \in Position /\ r.at = "bump" /\ r.addr = rel[t].addr
    BY <1>1, <2>4 DEF Position, FillType
  <2>6. Goes(t, r)
    BY <1>7, <2>3, <2>4 DEF Reserve
  <2>7. rel'[t] = r /\ ReleaseCount(t)' = ReleaseCount(t) /\ \A f : ReleaseHas(t, f) => ReleaseHas(t, f)'
    BY <1>3, <1>6, <2>5, <2>6
  <2> QED
    BY <2>1, <2>5, <2>7, SameFill DEF EntryWritten
<1>8. CASE Bump(t)
  <2>1. rel[t].at = "bump" /\ Advances(t, rel[t])
    BY <1>8 DEF Bump
  <2>2. /\ fill'.producer = fill.producer /\ fill'.consumer = fill.consumer
        /\ fill'.entry = fill.entry
    BY <1>1, <1>8 DEF Bump, FillType
  <2>3. /\ rel'[t].at = "write" /\ ReleaseCount(t)' = ReleaseCount(t)
        /\ \A f : ReleaseHas(t, f) => ReleaseHas(t, f)'
    BY <1>1, <1>4, <1>5, <1>6, <2>1
  <2>4. Submitted' = Submitted /\ \A f : FillHas(f) => FillHas(f)'
    BY <2>2 DEF Submitted, FillHas, FillSlot
  <2> QED
    BY <2>3, <2>4 DEF EntryWritten
<1>9. CASE WriteAddr(t)
  <2>1. rel[t].at = "write" /\ Advances(t, rel[t]) /\ rel[t].idx = fill.producer
    BY <1>9 DEF WriteAddr, IndicesAt
  <2>2. fill' = [fill EXCEPT !.entry[fill.producer % RingSize] = rel[t].addr]
    BY <1>9, <2>1 DEF WriteAddr
  <2>3. /\ fill'.producer = fill.producer /\ fill'.consumer = fill.consumer
        /\ fill'.entry = [fill.entry EXCEPT ![fill.producer % RingSize] = rel[t].addr]
    BY <1>1, <2>2 DEF FillType
  <2>4. /\ rel'[t].at = "load" /\ rel'[t].addr = rel[t].addr
        /\ ReleaseCount(t)' = ReleaseCount(t)
        /\ \A f : ReleaseHas(t, f) => ReleaseHas(t, f)'
    BY <1>1, <1>4, <1>5, <1>6, <2>1
  <2>5. fill.producer % RingSize \in Frame /\ fill.consumer \in Counter /\ fill.producer \in Counter
    BY IndicesTyped, InFrame, XskRxAssumption DEF Counter
  <2>6. fill'.entry[fill'.producer % RingSize] = rel[t].addr
    BY <1>1, <2>3, <2>5 DEF FillType
  <2>7. Submitted' = Submitted
    BY <2>3 DEF Submitted
  <2>8. ASSUME NEW f, FillHas(f) PROVE FillHas(f)'
    <3>1. PICK n \in 1 .. Submitted : fill.entry[FillSlot(n)] = f
      BY <2>8 DEF FillHas
    <3>2. FillSlot(n) # fill.producer % RingSize
      BY <2>5, <3>1, FillSlots DEF FillSlot, Submitted
    <3>3. FillSlot(n)' = FillSlot(n)
      BY <2>3 DEF FillSlot
    <3>4. FillSlot(n) \in Frame
      <4>1. fill.consumer + n - 1 \in Int
        BY <2>5, <3>1, CountsTyped, XskRxAssumption DEF Counter
      <4> QED
        BY <4>1, InFrame DEF FillSlot
    <3>5. fill'.entry[FillSlot(n)'] = f
      BY <1>1, <2>3, <3>1, <3>2, <3>3, <3>4 DEF FillType
    <3> QED
      BY <2>7, <3>5 DEF FillHas
  <2> QED
    BY <2>4, <2>6, <2>7, <2>8 DEF EntryWritten
<1>10. CASE SubmitLoad(t)
  <2>1. rel[t].at = "load" /\ fill' = fill
    BY <1>10 DEF SubmitLoad
  <2>2. PICK r : r = [rel[t] EXCEPT !.idx = fill.producer]
    OBVIOUS
  <2>3. r \in Position /\ r.at = "load" /\ r.addr = rel[t].addr /\ Advances(t, r)
    BY <1>1, <1>10, <2>1, <2>2 DEF SubmitLoad, Position, FillType
  <2>4. /\ rel'[t].at = "store" /\ rel'[t].addr = rel[t].addr
        /\ ReleaseCount(t)' = ReleaseCount(t)
        /\ \A f : ReleaseHas(t, f) => ReleaseHas(t, f)'
    BY <1>4, <1>5, <1>6, <2>3
  <2> QED
    BY <2>1, <2>4, SameFill DEF EntryWritten
<1>11. CASE SubmitStore(t)
  <2>1. rel[t].at = "store" /\ Advances(t, rel[t]) /\ rel[t].idx = fill.producer
    BY <1>11 DEF SubmitStore, IndicesAt
  <2>2. fill' = [fill EXCEPT !.producer = (fill.producer + 1) % Wrap]
    BY <1>11, <2>1 DEF SubmitStore
  <2>3. /\ fill'.producer = (fill.producer + 1) % Wrap /\ fill'.consumer = fill.consumer
        /\ fill'.entry = fill.entry
    BY <1>1, <2>2 DEF FillType
  <2>4. rel'[t].at = "out"
    <3>1. NoRelease \in Position /\ NoRelease.at = "out" /\ After["store"] = "out"
      BY FrameZero DEF NoRelease, Position, After
    <3> QED
      BY <1>2, <2>1, <3>1 DEF Advances
  <2>5. fill.producer \in Counter /\ fill.consumer \in Counter /\ Submitted \in Nat
    BY IndicesTyped, CountsTyped
  <2>6. Submitted' = Submitted + 1
    BY <2>3, <2>5, Distances DEF Submitted
  <2>7. \A n : FillSlot(n)' = FillSlot(n)
    BY <2>3 DEF FillSlot
  <2>8. ASSUME NEW f, FillHas(f) PROVE FillHas(f)'
    <3>1. PICK n \in 1 .. Submitted : fill.entry[FillSlot(n)] = f
      BY <2>8 DEF FillHas
    <3>2. n \in 1 .. Submitted'
      BY <2>5, <2>6, <3>1
    <3> QED
      BY <2>3, <2>7, <3>1, <3>2 DEF FillHas
  <2>9. ASSUME NEW f, ReleaseHas(t, f) PROVE FillHas(f)'
    <3>1. fill.entry[fill.producer % RingSize] = f
      BY <2>1, <2>9 DEF EntryWritten, ReleaseHas
    <3>2. PICK n \in 1 .. Submitted' : n = Submitted + 1
      BY <2>5, <2>6
    <3>3. FillSlot(n) = fill.producer % RingSize
      <4>1. fill.consumer + n - 1 = fill.consumer + Submitted
        BY <2>5, <3>2, XskRxAssumption DEF Counter
      <4> QED
        BY <2>5, <4>1, FillSlots DEF FillSlot, Submitted
    <3> QED
      BY <2>3, <2>7, <3>1, <3>3 DEF FillHas
  <2> QED
    BY <1>6, <2>4, <2>5, <2>6, <2>8, <2>9 DEF EntryWritten, ReleaseCount, Quiet
<1> QED
  BY <1>7, <1>8, <1>9, <1>10, <1>11 DEF ReleaseStep

(* What has gone wrong stays so.                                             *)
LEMMA CleanStep ==
  ASSUME TypeOK, RaceInv, [Next]_vars, clean'
  PROVE  clean /\ NoOverlap /\ NoOverlap' /\ ~ForwardMisses
<1>1. ~raced /\ NoOverlap /\ NoOverlap'
  BY RaceStep DEF RaceInv, clean
<1>2. twice => twice'
  BY DEF Next, Queue, Worker, Deliver, Receive, Enqueue, EnqueueFull, Forward, ForwardMisses,
         BatchDone, ReleaseNext, Released, Dequeue, ReleaseLocal, vars, ghosts,
         ReleaseStep, Reserve, Bump, WriteAddr, SubmitLoad, SubmitStore
<1>3. ~ForwardMisses
  BY DEF ForwardMisses, clean
<1> QED
  BY <1>1, <1>2, <1>3 DEF clean

LEMMA InitPlaces == Init => PlacesInv
<1> SUFFICES ASSUME Init PROVE PlacesInv
  OBVIOUS
<1>0. TypeOK /\ RingSize \in Nat \ {0} /\ JobRingSize \in Nat \ {0}
  BY InitTyped, XskRxAssumption
<1>1. \A t \in Threads : EntryWritten(t) /\ ReleaseCount(t) = 0
  BY DEF Init, NoRelease, EntryWritten, ReleaseCount, Quiet
<1>2. Submitted = RingSize /\ fill.consumer = 0
  <2>1. RingSize \in Int /\ -Wrap <= RingSize /\ RingSize < 2 * Wrap /\ Wrap \in Nat \ {0}
    BY XskRxAssumption
  <2>2. RingSize % Wrap = Around(RingSize, Wrap)
    BY <2>1, RemainderValue
  <2>3. fill.producer = RingSize /\ fill.consumer = 0
    BY DEF Init
  <2> QED
    BY <2>1, <2>2, <2>3, XskRxAssumption DEF Submitted, Around
<1>3. Len(rx) = 0
  BY EmptySeq DEF Init
<1>4. QueueCount = 0
  <2>1. queue.at = "recv" /\ queue.i = 1 /\ Len(queue.addrs) = 0
    BY EmptySeq DEF Init
  <2> QED
    BY <2>1 DEF QueueCount, HeldFrom
<1>5. JobCount = 0
  <2>1. ring.head = 0 /\ ring.tail = 0
    BY DEF Init
  <2> QED
    BY <1>0, <2>1 DEF JobCount
<1>6. WorkerCount = 0
  BY DEF Init, WorkerCount
<1>7. HeldCount = RingSize
  BY <1>0, <1>1, <1>2, <1>3, <1>4, <1>5, <1>6 DEF HeldCount, Threads
<1>8. ASSUME NEW f \in Frame PROVE FillHas(f)
  <2>1. PICK n \in 1 .. RingSize : n = f + 1
    BY <1>0 DEF Frame
  <2>2. FillSlot(n) = f
    <3>1. fill.consumer + n - 1 = f /\ f \in 0 .. (RingSize - 1)
      BY <1>2, <2>1 DEF Frame
    <3>2. f % RingSize = f
      BY <1>0, <3>1
    <3> QED
      BY <3>1, <3>2 DEF FillSlot
  <2>3. fill.entry[f] = f
    BY <1>8 DEF Init
  <2> QED
    BY <1>2, <2>2, <2>3 DEF FillHas
<1> QED
  BY <1>1, <1>7, <1>8 DEF PlacesInv, SomePlaceHas

(* Every step moves a frame from one place to one other, or none.            *)
LEMMA PlacesStep ==
  ASSUME TypeOK, TypeOK', Begins, WorkerFree, NoOverlap, IndexInv, PlacesInv, ~ForwardMisses, [Next]_vars
  PROVE  PlacesInv'
<1>c. /\ Submitted' \in Nat /\ Len(rx)' \in Nat /\ QueueCount' \in Nat /\ JobCount' \in Nat
      /\ WorkerCount' \in {0, 1} /\ \A t \in Threads : ReleaseCount(t)' \in {0, 1}
  BY CountsAfter DEF CountsInRange
<1>d. /\ Submitted \in Nat /\ Len(rx) \in Nat /\ QueueCount \in Nat /\ JobCount \in Nat
      /\ WorkerCount \in {0, 1} /\ \A t \in Threads : ReleaseCount(t) \in {0, 1}
      /\ RingSize \in Nat
  BY CountsTyped
<1> USE <1>d
<1>0. "queue" \in Threads /\ "worker" \in Threads /\ \A t \in Threads : t = "queue" \/ t = "worker"
  BY DEF Threads
<1>f. UNCHANGED fill => Submitted' = Submitted /\ \A f : FillHas(f) => FillHas(f)'
  BY SameFill
<1>x. UNCHANGED rx => Len(rx)' = Len(rx) /\ \A f : RxHas(f) => RxHas(f)'
  BY SameRx
<1>u. UNCHANGED queue => QueueCount' = QueueCount /\ \A f : QueueHas(f) => QueueHas(f)'
  BY SameQueue
<1>j. UNCHANGED ring => JobCount' = JobCount /\ \A f : JobsHave(f) => JobsHave(f)'
  BY SameJobs
<1>w. UNCHANGED worker => WorkerCount' = WorkerCount /\ \A f : WorkerHas(f) => WorkerHas(f)'
  BY SameWorker
<1>r. \A t \in Threads : rel'[t] = rel[t] =>
        /\ ReleaseCount(t)' = ReleaseCount(t)
        /\ \A f : ReleaseHas(t, f) => ReleaseHas(t, f)'
  BY SameRelease
<1>e. ASSUME fill'.entry = fill.entry, fill'.producer = fill.producer, NEW t \in Threads, rel'[t] = rel[t]
      PROVE  EntryWritten(t)'
  BY <1>e DEF EntryWritten, PlacesInv
<1>h. ASSUME HeldCount' = HeldCount, \A f : SomePlaceHas(f) => SomePlaceHas(f)',
             \A t \in Threads : EntryWritten(t)'
      PROVE  PlacesInv'
  <2>1. HeldCount' = RingSize
    BY <1>h DEF PlacesInv
  <2> QED
    BY <1>h, <2>1 DEF PlacesInv
<1> USE DEF SomePlaceHas, HeldCount
<1>1. CASE UNCHANGED vars
  BY <1>0, <1>1, <1>f, <1>x, <1>u, <1>j, <1>w, <1>r, <1>e, <1>h DEF vars
<1>2. CASE Deliver
  <2>1. UNCHANGED <<queue, ring, worker, rel>>
    BY <1>2 DEF Deliver
  <2>2. fill'.entry = fill.entry /\ fill'.producer = fill.producer
    BY <1>2, DeliverIndices
  <2>3. /\ Submitted' = Submitted - 1 /\ Len(rx)' = Len(rx) + 1
        /\ \A f : FillHas(f) \/ RxHas(f) => FillHas(f)' \/ RxHas(f)'
    BY <1>2, DeliverMoves
  <2>4. HeldCount' = HeldCount
    BY <1>0, <2>1, <2>3, <1>u, <1>j, <1>w, <1>r
  <2>5. \A f : SomePlaceHas(f) => SomePlaceHas(f)'
    BY <1>0, <2>1, <2>3, <1>u, <1>j, <1>w, <1>r
  <2>6. \A t \in Threads : EntryWritten(t)'
    BY <2>1, <2>2, <1>e
  <2> QED
    BY <2>4, <2>5, <2>6, <1>h
<1>3. ASSUME NEW n \in 1 .. BatchSize, Receive(n) PROVE PlacesInv'
  <2>1. UNCHANGED <<fill, ring, worker, rel>>
    BY <1>3 DEF Receive
  <2>2. /\ Len(rx)' + QueueCount' = Len(rx) + QueueCount
        /\ \A f : RxHas(f) \/ QueueHas(f) => RxHas(f)' \/ QueueHas(f)'
    BY <1>3, ReceiveMoves
  <2>3. HeldCount' = HeldCount
    <3>1. /\ Submitted' = Submitted /\ JobCount' = JobCount /\ WorkerCount' = WorkerCount
          /\ ReleaseCount("queue")' = ReleaseCount("queue")
          /\ ReleaseCount("worker")' = ReleaseCount("worker")
      BY <1>0, <2>1, <1>f, <1>j, <1>w, <1>r
    <3>2. /\ Submitted \in Nat /\ Len(rx) \in Nat /\ QueueCount \in Nat /\ JobCount \in Nat
          /\ WorkerCount \in Nat /\ ReleaseCount("queue") \in Nat /\ ReleaseCount("worker") \in Nat
      BY <1>0
    <3>3. Submitted + Len(rx)' + QueueCount' = Submitted + Len(rx) + QueueCount
      BY SMTT(30), <1>c, <2>2, <3>2
    <3> QED
      BY <3>1, <3>3
  <2>4. \A f : SomePlaceHas(f) => SomePlaceHas(f)'
    BY <1>0, <2>1, <2>2, <1>f, <1>j, <1>w, <1>r
  <2>5. \A t \in Threads : EntryWritten(t)'
    BY <2>1, <1>e
  <2> QED
    BY <2>3, <2>4, <2>5, <1>h
<1>4. CASE Enqueue
  <2>1. UNCHANGED <<fill, rx, worker, rel>> /\ queue' = Handled /\ queue.i <= Len(queue.addrs) /\ Queued
    BY <1>4 DEF Enqueue, AtPacket
  <2>2. /\ QueueCount' = QueueCount - 1
        /\ \A f : QueueHas(f) => QueueHas(f)' \/ f = queue.addrs[queue.i]
    BY <2>1, HandledMoves
  <2> QED
    BY <1>0, <1>4, <2>1, <2>2, <1>f, <1>x, <1>w, <1>r, <1>e, <1>h, EnqueueMoves
<1>5. CASE EnqueueFull \/ ReleaseNext
  <2>1. /\ UNCHANGED <<fill, rx, ring, worker>> /\ queue' = Handled
        /\ queue.i <= Len(queue.addrs) /\ (queue.at = "release" \/ Queued)
        /\ Quiet("queue") /\ Goes("queue", [at |-> "reserve", addr |-> queue.addrs[queue.i], idx |-> 0])
    BY <1>5 DEF EnqueueFull, ReleaseNext, AtPacket, DropFrame, Release
  <2>2. /\ QueueCount' = QueueCount - 1
        /\ \A f : QueueHas(f) => QueueHas(f)' \/ f = queue.addrs[queue.i]
    BY <2>1, HandledMoves
  <2>3. /\ ReleaseCount("queue") = 0 /\ ReleaseCount("queue")' = 1
        /\ \A f : ReleaseHas("queue", f) \/ f = queue.addrs[queue.i] => ReleaseHas("queue", f)'
        /\ rel'["worker"] = rel["worker"] /\ rel'["queue"].at = "reserve"
    BY <1>0, <2>1, ReleaseBegins
  <2>4. \A t \in Threads : EntryWritten(t)'
    BY <1>0, <1>e, <2>1, <2>3 DEF EntryWritten
  <2> QED
    BY <1>0, <2>1, <2>2, <2>3, <2>4, <1>f, <1>x, <1>j, <1>w, <1>r, <1>h
<1>6. CASE Forward \/ BatchDone \/ Released
  <2>1. UNCHANGED <<fill, rx, ring, worker, rel>>
    BY <1>6 DEF Forward, BatchDone, Released
  <2>2. QueueCount' = QueueCount /\ \A f : QueueHas(f) => QueueHas(f)'
    BY <1>6, ForwardMoves, BatchMoves
  <2> QED
    BY <1>0, <2>1, <2>2, <1>f, <1>x, <1>j, <1>w, <1>r, <1>e, <1>h
<1>7. ~ForwardMisses
  OBVIOUS
<1>8. CASE Dequeue
  <2>1. UNCHANGED <<fill, rx, queue, rel>>
    BY <1>8 DEF Dequeue
  <2> QED
    BY <1>0, <1>8, <2>1, <1>f, <1>x, <1>u, <1>r, <1>e, <1>h, DequeueMoves
<1>9. CASE ReleaseLocal
  <2>1. /\ UNCHANGED <<fill, rx, queue, ring>> /\ worker.at = "job" /\ worker'.at = "idle"
        /\ Goes("worker", [at |-> "reserve", addr |-> worker.job, idx |-> 0])
    BY <1>9 DEF ReleaseLocal, Release, TypeOK
  <2>2. Quiet("worker")
    BY <2>1 DEF WorkerFree
  <2>3. /\ ReleaseCount("worker") = 0 /\ ReleaseCount("worker")' = 1
        /\ \A f : ReleaseHas("worker", f) \/ f = worker.job => ReleaseHas("worker", f)'
        /\ rel'["queue"] = rel["queue"] /\ rel'["worker"].at = "reserve"
    BY <1>0, <2>1, <2>2, ReleaseBegins
  <2>4. \A t \in Threads : EntryWritten(t)'
    BY <1>0, <1>e, <2>1, <2>3 DEF EntryWritten
  <2>5. WorkerCount = 1 /\ WorkerCount' = 0
    BY <2>1 DEF WorkerCount
  <2>6. \A f : WorkerHas(f) => ReleaseHas("worker", f)'
    BY <2>3 DEF WorkerHas
  <2> QED
    BY <1>0, <2>1, <2>3, <2>4, <2>5, <2>6, <1>f, <1>x, <1>u, <1>j, <1>r, <1>h
<1>10. ASSUME NEW t \in Threads, NEW o \in Threads, o # t, ReleaseStep(t)
       PROVE  PlacesInv'
  <2>1. UNCHANGED <<rx, queue, ring, worker>>
    BY <1>10 DEF ReleaseStep, Reserve, Bump, WriteAddr, SubmitLoad, SubmitStore
  <2>2. ~Quiet(t) /\ rel'[o] = rel[o]
    BY <1>10, ReleaseKeepsOthers
  <2>3. Exclusive(t) /\ Quiet(o)
    BY <1>10, <2>2, OneReleases DEF Exclusive
  <2>4. IndicesAt(rel[t]) /\ EntryWritten(t)
    BY <2>3 DEF IndexInv, PlacesInv
  <2>5. Submitted < RingSize
    <3>1. HeldCount = RingSize
      BY DEF PlacesInv
    <3>2. ReleaseCount(t) = 1
      BY <2>2 DEF ReleaseCount
    <3> QED
      BY <1>0, <1>10, <3>1, <3>2
  <2>6. /\ Submitted' + ReleaseCount(t)' = Submitted + ReleaseCount(t)
        /\ \A f : FillHas(f) \/ ReleaseHas(t, f) => FillHas(f)' \/ ReleaseHas(t, f)'
        /\ EntryWritten(t)'
    BY <1>10, <2>4, <2>5, ReleaseMoves
  <2>7. EntryWritten(o)'
    BY <2>2, <2>3 DEF EntryWritten, Quiet
  <2>8. ReleaseCount(o)' = ReleaseCount(o) /\ \A f : ReleaseHas(o, f) => ReleaseHas(o, f)'
    BY <2>2, <1>r
  <2>9. {t, o} = {"queue", "worker"}
    BY <1>0, <1>10
  <2>10. HeldCount' = HeldCount
    <3>1. /\ Len(rx)' = Len(rx) /\ QueueCount' = QueueCount /\ JobCount' = JobCount
          /\ WorkerCount' = WorkerCount
      BY <2>1, <1>x, <1>u, <1>j, <1>w
    <3>2. CASE t = "queue" /\ o = "worker"
      <4>1. /\ Submitted' + ReleaseCount("queue")' = Submitted + ReleaseCount("queue")
            /\ ReleaseCount("worker")' = ReleaseCount("worker")
        BY <2>6, <2>8, <3>2 DEF ReleaseCount, Quiet
      <4>2. PICK s, r, s2, r2, y : /\ s = Submitted /\ r = ReleaseCount("queue") /\ y = ReleaseCount("worker")
                                  /\ s2 = Submitted' /\ r2 = ReleaseCount("queue")'
        OBVIOUS
      <4>3. s \in Nat /\ r \in Nat /\ y \in Nat /\ s2 \in Nat /\ r2 \in Nat /\ s2 + r2 = s + r
        BY <1>0, <1>c, <4>1, <4>2
      <4>4. PICK x \in Nat : x = Len(rx) + QueueCount + JobCount + WorkerCount
        OBVIOUS
      <4>5. HeldCount = s + x + r + y
        BY <4>2, <4>3, <4>4
      <4>6. HeldCount' = s2 + x + r2 + y
        <5>1. PICK l, q, j, w : l = Len(rx) /\ q = QueueCount /\ j = JobCount /\ w = WorkerCount
          OBVIOUS
        <5>2. l \in Nat /\ q \in Nat /\ j \in Nat /\ w \in Nat
          BY <5>1
        <5>3. HeldCount' = s2 + l + q + j + w + r2 + y \/ HeldCount' = s2 + l + q + j + w + y + r2
          BY <3>1, <4>1, <4>2, <5>1, Zenon
        <5> QED
          BY <4>3, <4>4, <5>1, <5>2, <5>3
      <4> HIDE DEF HeldCount
      <4> QED
        BY <4>3, <4>5, <4>6
    <3>3. CASE t = "worker" /\ o = "queue"
      <4>1. /\ Submitted' + ReleaseCount("worker")' = Submitted + ReleaseCount("worker")
            /\ ReleaseCount("queue")' = ReleaseCount("queue")
        BY <2>6, <2>8, <3>3 DEF ReleaseCount, Quiet
      <4>2. PICK s, r, s2, r2, y : /\ s = Submitted /\ r = ReleaseCount("worker") /\ y = ReleaseCount("queue")
                                  /\ s2 = Submitted' /\ r2 = ReleaseCount("worker")'
        OBVIOUS
      <4>3. s \in Nat /\ r \in Nat /\ y \in Nat /\ s2 \in Nat /\ r2 \in Nat /\ s2 + r2 = s + r
        BY <1>0, <1>c, <4>1, <4>2
      <4>4. PICK x \in Nat : x = Len(rx) + QueueCount + JobCount + WorkerCount
        OBVIOUS
      <4>5. HeldCount = s + x + r + y
        BY <4>2, <4>3, <4>4
      <4>6. HeldCount' = s2 + x + r2 + y
        <5>1. PICK l, q, j, w : l = Len(rx) /\ q = QueueCount /\ j = JobCount /\ w = WorkerCount
          OBVIOUS
        <5>2. l \in Nat /\ q \in Nat /\ j \in Nat /\ w \in Nat
          BY <5>1
        <5>3. HeldCount' = s2 + l + q + j + w + r2 + y \/ HeldCount' = s2 + l + q + j + w + y + r2
          BY <3>1, <4>1, <4>2, <5>1, Zenon
        <5> QED
          BY <4>3, <4>4, <5>1, <5>2, <5>3
      <4> HIDE DEF HeldCount
      <4> QED
        BY <4>3, <4>5, <4>6
    <3> QED
      BY <1>0, <1>10, <3>2, <3>3
  <2>11. \A f : SomePlaceHas(f) => SomePlaceHas(f)'
    BY <2>1, <2>6, <2>8, <2>9, <1>x, <1>u, <1>j, <1>w
  <2>12. \A s \in Threads : EntryWritten(s)'
    BY <1>0, <1>10, <2>6, <2>7
  <2> QED
    BY <2>10, <2>11, <2>12, <1>h
<1> QED
  BY <1>0, <1>1, <1>2, <1>3, <1>4, <1>5, <1>6, <1>7, <1>8, <1>9, <1>10 DEF Next, Queue, Worker

(* A list made of two has what either has.                                   *)
LEMMA ListsTogether ==
  ASSUME NEW s \in Seq(Frame), NEW t \in Seq(Frame)
  PROVE  /\ s \o t \in Seq(Frame) /\ Len(s \o t) = Len(s) + Len(t)
         /\ \A f : \/ \E n \in 1 .. Len(s) : s[n] = f
                   \/ \E n \in 1 .. Len(t) : t[n] = f
                   => \E n \in 1 .. Len(s \o t) : (s \o t)[n] = f
<1>1. /\ s \o t \in Seq(Frame) /\ Len(s \o t) = Len(s) + Len(t)
      /\ \A i \in 1 .. (Len(s) + Len(t)) : (s \o t)[i] = IF i <= Len(s) THEN s[i] ELSE t[i - Len(s)]
  BY ConcatProperties
<1>2. Len(s) \in Nat /\ Len(t) \in Nat
  OBVIOUS
<1>3. ASSUME NEW n \in 1 .. Len(s) PROVE n \in 1 .. Len(s \o t) /\ (s \o t)[n] = s[n]
  BY <1>1, <1>2
<1>4. ASSUME NEW n \in 1 .. Len(t)
      PROVE  Len(s) + n \in 1 .. Len(s \o t) /\ (s \o t)[Len(s) + n] = t[n]
  <2>1. Len(s) + n \in 1 .. (Len(s) + Len(t)) /\ ~(Len(s) + n <= Len(s)) /\ Len(s) + n - Len(s) = n
    BY <1>2
  <2> QED
    BY <1>1, <2>1
<1> QED
  BY <1>1, <1>3, <1>4

ListHas(s, f) == \E n \in 1 .. Len(s) : s[n] = f

LEMMA ListsJoin ==
  ASSUME NEW s \in Seq(Frame), NEW t \in Seq(Frame)
  PROVE  /\ s \o t \in Seq(Frame) /\ Len(s \o t) = Len(s) + Len(t)
         /\ \A f : ListHas(s, f) \/ ListHas(t, f) => ListHas(s \o t, f)
  BY ListsTogether DEF ListHas

(* The parts of Held are the places of the invariant.                        *)
LEMMA HeldParts ==
  ASSUME TypeOK
  PROVE  /\ InFill \in Seq(Frame) /\ Len(InFill) = Submitted
         /\ \A f : FillHas(f) => ListHas(InFill, f)
         /\ rx \in Seq(Frame) /\ \A f : RxHas(f) => ListHas(rx, f)
         /\ WithQueue \in Seq(Frame) /\ Len(WithQueue) = QueueCount
         /\ \A f : QueueHas(f) => ListHas(WithQueue, f)
         /\ InJobs \in Seq(Frame) /\ Len(InJobs) = JobCount
         /\ \A f : JobsHave(f) => ListHas(InJobs, f)
         /\ WithWorker \in Seq(Frame) /\ Len(WithWorker) = WorkerCount
         /\ \A f : WorkerHas(f) => ListHas(WithWorker, f)
         /\ \A t \in Threads :
              /\ Releasing(t) \in Seq(Frame) /\ Len(Releasing(t)) = ReleaseCount(t)
              /\ \A f : ReleaseHas(t, f) => ListHas(Releasing(t), f)
<1>0. /\ Submitted \in Nat /\ JobCount \in Nat
  BY CountsTyped
<1>1. InFill \in Seq(Frame) /\ Len(InFill) = Submitted /\ \A f : FillHas(f) => ListHas(InFill, f)
  <2>1. fill.consumer \in Int /\ fill.entry \in [Frame -> Frame]
    BY DEF TypeOK, Counter
  <2>2. \A n \in 1 .. Submitted : FillSlot(n) \in Frame
    BY <1>0, <2>1, InFrame DEF FillSlot
  <2>3. InFill = [n \in 1 .. Submitted |-> fill.entry[FillSlot(n)]]
    BY DEF InFill, FillSlot
  <2>4. \A n \in 1 .. Submitted : fill.entry[FillSlot(n)] \in Frame
    BY <2>1, <2>2
  <2>5. InFill \in [1 .. Submitted -> Frame]
    BY <2>3, <2>4
  <2>6. InFill \in Seq(Frame) /\ Len(InFill) = Submitted
    BY <1>0, <2>5
  <2> QED
    BY <2>3, <2>6 DEF FillHas, ListHas
<1>2. rx \in Seq(Frame) /\ \A f : RxHas(f) => ListHas(rx, f)
  BY DEF TypeOK, RxHas, ListHas
<1>3. WithQueue \in Seq(Frame) /\ Len(WithQueue) = QueueCount /\ \A f : QueueHas(f) => ListHas(WithQueue, f)
  <2>1. queue.addrs \in Seq(Frame) /\ Len(queue.addrs) \in Nat /\ queue.i \in 1 .. (Len(queue.addrs) + 1)
    BY DEF TypeOK
  <2>2. CASE queue.at = "handle" /\ ~Queued
    <3>1. WithQueue = queue.addrs /\ HeldFrom = 1
      BY <2>2 DEF WithQueue, HeldFrom
    <3> QED
      BY <2>1, <3>1 DEF QueueCount, QueueHas, ListHas
  <2>3. CASE ~(queue.at = "handle" /\ ~Queued)
    <3>1. WithQueue = SubSeq(queue.addrs, queue.i, Len(queue.addrs)) /\ HeldFrom = queue.i
      BY <2>3 DEF WithQueue, HeldFrom
    <3>2. PICK i, m : i = queue.i /\ m = Len(queue.addrs)
      OBVIOUS
    <3>3. i \in Int /\ m \in Nat /\ i \in 1 .. (m + 1)
      BY <2>1, <3>2
    <3>4. \A k \in i .. m : queue.addrs[k] \in Frame
      <4>1. \A k \in i .. m : k \in 1 .. m
        BY <3>3
      <4> QED
        BY <2>1, <3>2, <4>1, ElementOfSeq
    <3>5. /\ SubSeq(queue.addrs, i, m) \in Seq(Frame)
          /\ Len(SubSeq(queue.addrs, i, m)) = IF i <= m THEN m - i + 1 ELSE 0
          /\ \A k \in 1 .. (m - i + 1) : SubSeq(queue.addrs, i, m)[k] = queue.addrs[i + k - 1]
      BY <3>3, <3>4, SubSeqProperties
    <3>6. Len(WithQueue) = m - i + 1 /\ WithQueue \in Seq(Frame)
      BY <3>1, <3>2, <3>3, <3>5
    <3>7. ASSUME NEW f, QueueHas(f) PROVE ListHas(WithQueue, f)
      <4>1. PICK k \in i .. m : queue.addrs[k] = f
        BY <3>1, <3>2, <3>7 DEF QueueHas
      <4>2. PICK n \in 1 .. (m - i + 1) : i + n - 1 = k
        <5>1. k - i + 1 \in 1 .. (m - i + 1) /\ i + (k - i + 1) - 1 = k
          BY <3>3, <4>1
        <5> QED
          BY <5>1
      <4> QED
        BY <3>1, <3>2, <3>5, <3>6, <4>1, <4>2 DEF ListHas
    <3> QED
      BY <3>1, <3>2, <3>6, <3>7 DEF QueueCount
  <2> QED
    BY <2>2, <2>3
<1>4. InJobs \in Seq(Frame) /\ Len(InJobs) = JobCount /\ \A f : JobsHave(f) => ListHas(InJobs, f)
  <2>1. ring.head \in Int /\ ring.jobs \in [JobSlot -> Frame]
    BY JobSlotInt DEF TypeOK
  <2>2. \A n \in 1 .. JobCount : JobPlace(n) \in JobSlot
    BY <1>0, <2>1, InJobSlot DEF JobPlace
  <2>3. InJobs = [n \in 1 .. JobCount |-> ring.jobs[JobPlace(n)]]
    BY DEF InJobs, JobPlace, JobCount
  <2>4. \A n \in 1 .. JobCount : ring.jobs[JobPlace(n)] \in Frame
    BY <2>1, <2>2
  <2>5. InJobs \in [1 .. JobCount -> Frame]
    BY <2>3, <2>4
  <2>6. InJobs \in Seq(Frame) /\ Len(InJobs) = JobCount
    BY <1>0, <2>5
  <2> QED
    BY <2>3, <2>6 DEF JobsHave, ListHas
<1>5. ASSUME NEW g \in Frame
      PROVE  <<g>> \in Seq(Frame) /\ Len(<<g>>) = 1 /\ ListHas(<<g>>, g)
  <2>1. <<g>> \in Seq(Frame) /\ Len(<<g>>) = 1 /\ <<g>>[1] = g
    OBVIOUS
  <2> QED
    BY <2>1 DEF ListHas
<1>6. <<>> \in Seq(Frame) /\ Len(<<>>) = 0
  BY EmptySeq
<1>7. WithWorker \in Seq(Frame) /\ Len(WithWorker) = WorkerCount
      /\ \A f : WorkerHas(f) => ListHas(WithWorker, f)
  <2>1. worker.job \in Frame
    BY DEF TypeOK
  <2> QED
    BY <1>5, <1>6, <2>1 DEF WithWorker, WorkerCount, WorkerHas
<1>8. ASSUME NEW t \in Threads
      PROVE  /\ Releasing(t) \in Seq(Frame) /\ Len(Releasing(t)) = ReleaseCount(t)
             /\ \A f : ReleaseHas(t, f) => ListHas(Releasing(t), f)
  <2>1. rel[t].addr \in Frame
    BY AtTyped DEF Position
  <2> QED
    BY <1>5, <1>6, <2>1 DEF Releasing, ReleaseCount, ReleaseHas
<1> QED
  BY <1>1, <1>2, <1>3, <1>4, <1>7, <1>8

LEMMA PlacesImplyOneHolder ==
  ASSUME TypeOK, PlacesInv
  PROVE  OneHolder
<1>0. "queue" \in Threads /\ "worker" \in Threads
  BY DEF Threads
<1>1. PICK a, b, c, d, e, g, h :
        /\ a = InFill /\ b = rx /\ c = WithQueue /\ d = InJobs /\ e = WithWorker
        /\ g = Releasing("queue") /\ h = Releasing("worker")
  OBVIOUS
<1>2. /\ a \in Seq(Frame) /\ b \in Seq(Frame) /\ c \in Seq(Frame) /\ d \in Seq(Frame)
      /\ e \in Seq(Frame) /\ g \in Seq(Frame) /\ h \in Seq(Frame)
  BY <1>0, <1>1, HeldParts
<1>3. Len(a) + Len(b) + Len(c) + Len(d) + Len(e) + Len(g) + Len(h) = RingSize
  BY <1>0, <1>1, HeldParts DEF PlacesInv, HeldCount
<1>4. ASSUME NEW f \in Frame
      PROVE  \/ ListHas(a, f) \/ ListHas(b, f) \/ ListHas(c, f) \/ ListHas(d, f)
             \/ ListHas(e, f) \/ ListHas(g, f) \/ ListHas(h, f)
  BY <1>0, <1>1, HeldParts DEF PlacesInv, SomePlaceHas
<1>5. Held = a \o b \o c \o d \o e \o g \o h
  BY <1>1 DEF Held
<1> HIDE <1>1
<1>6. PICK s : s = a \o b
  OBVIOUS
<1>7. PICK t : t = s \o c
  OBVIOUS
<1>8. PICK u : u = t \o d
  OBVIOUS
<1>9. PICK v : v = u \o e
  OBVIOUS
<1>10. PICK w : w = v \o g
  OBVIOUS
<1>11. PICK x : x = w \o h
  OBVIOUS
<1>12. s \in Seq(Frame) /\ Len(s) = Len(a) + Len(b) /\ \A f : ListHas(a, f) \/ ListHas(b, f) => ListHas(s, f)
  BY <1>2, <1>6, ListsJoin
<1>13. t \in Seq(Frame) /\ Len(t) = Len(s) + Len(c) /\ \A f : ListHas(s, f) \/ ListHas(c, f) => ListHas(t, f)
  BY <1>2, <1>7, <1>12, ListsJoin
<1>14. u \in Seq(Frame) /\ Len(u) = Len(t) + Len(d) /\ \A f : ListHas(t, f) \/ ListHas(d, f) => ListHas(u, f)
  BY <1>2, <1>8, <1>13, ListsJoin
<1>15. v \in Seq(Frame) /\ Len(v) = Len(u) + Len(e) /\ \A f : ListHas(u, f) \/ ListHas(e, f) => ListHas(v, f)
  BY <1>2, <1>9, <1>14, ListsJoin
<1>16. w \in Seq(Frame) /\ Len(w) = Len(v) + Len(g) /\ \A f : ListHas(v, f) \/ ListHas(g, f) => ListHas(w, f)
  BY <1>2, <1>10, <1>15, ListsJoin
<1>17. x \in Seq(Frame) /\ Len(x) = Len(w) + Len(h) /\ \A f : ListHas(w, f) \/ ListHas(h, f) => ListHas(x, f)
  BY <1>2, <1>11, <1>16, ListsJoin
<1>18. Held = x
  BY <1>5, <1>6, <1>7, <1>8, <1>9, <1>10, <1>11
<1>19. Len(x) = RingSize
  BY <1>3, <1>12, <1>13, <1>14, <1>15, <1>16, <1>17
<1>20. \A f \in Frame : ListHas(x, f)
  BY <1>4, <1>12, <1>13, <1>14, <1>15, <1>16, <1>17
<1> QED
  BY <1>18, <1>19, <1>20 DEF OneHolder, ListHas

LEMMA HolderStep ==
  TypeOK /\ TypeOK' /\ Begins /\ WorkerFree /\ RaceInv /\ HolderInv /\ [Next]_vars => HolderInv'
<1> SUFFICES ASSUME TypeOK, TypeOK', Begins, WorkerFree, RaceInv, HolderInv, [Next]_vars, clean'
             PROVE  PlacesInv'
  BY DEF HolderInv
<1>1. clean /\ NoOverlap /\ ~ForwardMisses
  BY CleanStep
<1>2. IndexInv /\ PlacesInv
  BY <1>1 DEF HolderInv, RaceInv, clean
<1> QED
  BY <1>1, <1>2, PlacesStep

(* Every frame interface_init_local gave to the fill ring stays in exactly   *)
(* one place, whatever the sizes of the rings, of the worker ring and of a   *)
(* batch, as long as no two releases overlap and none is done twice: the     *)
(* fill ring then always takes a frame that is released, so none leaks.      *)
THEOREM HolderCorrect == Spec => []OneHolder
<1>1. Init => HolderInv
  BY InitPlaces DEF HolderInv
<1>2. Spec => [](TypeOK /\ Begins /\ WorkerFree /\ RaceInv)
  BY RaceInvCorrect, BeginsCorrect, PTL
<1>3. TypeOK /\ HolderInv => OneHolder
  <2>1. ~clean => OneHolder
    BY DEF OneHolder
  <2> QED
    BY <2>1, PlacesImplyOneHolder DEF HolderInv
<1> QED
  BY <1>1, <1>2, <1>3, HolderStep, PTL DEF Spec

-----------------------------------------------------------------------------
(* The transmit side *)

\* A thread is at its kick only because packets are pending.
KickHasPending ==
  /\ pending \in Nat
  /\ lock.at = "kick" => pending > 0

(* Nobody is on the way to a kick when the queue is new. *)
LEMMA InitKick == TxInit => KickHasPending
  BY DEF TxInit, KickHasPending, Unlocked

\* sendto leaves nothing pending.
LEMMA KickClears == Kick => pending' = 0
  BY DEF Kick

(* Every step keeps it: only the thread that put a packet turns to the kick,*)
(* with the lock, and pending_tx_count is reset by nobody else meanwhile.   *)
LEMMA KickStep == KickHasPending /\ [TxNext]_tx_vars => KickHasPending'
<1> SUFFICES ASSUME KickHasPending, [TxNext]_tx_vars PROVE KickHasPending'
  OBVIOUS
<1> USE DEF KickHasPending
<1>1. CASE UNCHANGED tx_vars
  BY <1>1 DEF tx_vars
<1>2. ASSUME NEW t \in Thread, Batch(t) PROVE KickHasPending'
  BY <1>2 DEF Batch
<1>3. ASSUME NEW t \in Thread, SendBegins(t) PROVE KickHasPending'
  BY <1>3 DEF SendBegins, Locked
<1>4. ASSUME NEW t \in Thread, Put(t) PROVE KickHasPending'
  <2>1. pending' = pending + 1 /\ pending' \in Nat /\ pending' > 0
    BY <1>4 DEF Put
  <2> QED
    BY <2>1, <1>4 DEF Put, KickOrUnlock, Unlocked
<1>5. ASSUME NEW t \in Thread, KickPending(t) PROVE KickHasPending'
  BY <1>5, KickClears DEF KickPending, Unlocked
<1>6. ASSUME NEW t \in Thread, FullKick(t) PROVE KickHasPending'
  <2>1. lock.at = "send" /\ lock'.at = "send"
    <3>1. lock.at = "send" /\ lock' = [lock EXCEPT !.loops = @ + 1]
      BY <1>6 DEF FullKick, InUse
    <3> QED
      BY <3>1
  <2> QED
    BY <1>6, <2>1, KickClears DEF FullKick
<1>7. ASSUME NEW t \in Thread, GiveUp(t) PROVE KickHasPending'
  BY <1>7 DEF GiveUp, Unlocked
<1>8. ASSUME NEW t \in Thread, Flush(t) PROVE KickHasPending'
  <2>1. lock' = Unlocked
    BY <1>8 DEF Flush
  <2>2. pending' = 0 \/ pending' = pending
    BY <1>8, KickClears DEF Flush
  <2> QED
    BY <2>1, <2>2 DEF Unlocked
<1> QED
  BY <1>1, <1>2, <1>3, <1>4, <1>5, <1>6, <1>7, <1>8 DEF TxNext, Sends

(* No step ends a jam: what would is guarded by room or by a pending packet.*)
LEMMA JamStep == KickHasPending /\ [TxNext]_tx_vars => (Jammed => Jammed')
<1> SUFFICES ASSUME KickHasPending, [TxNext]_tx_vars, Jammed PROVE Jammed'
  OBVIOUS
<1> USE DEF KickHasPending, Jammed, RingHasRoom
<1>1. CASE UNCHANGED tx_vars
  BY <1>1 DEF tx_vars
<1>2. ASSUME NEW t \in Thread, Batch(t) PROVE Jammed'
  BY <1>2 DEF Batch
<1>3. ASSUME NEW t \in Thread, SendBegins(t) PROVE Jammed'
  BY <1>3 DEF SendBegins
<1>4. ASSUME NEW t \in Thread, Put(t) PROVE FALSE
  BY <1>4 DEF Put
<1>5. ASSUME NEW t \in Thread, KickPending(t) PROVE FALSE
  BY <1>5 DEF KickPending, InUse
<1>6. ASSUME NEW t \in Thread, FullKick(t) PROVE FALSE
  BY <1>6 DEF FullKick, KicksFull
<1>7. ASSUME NEW t \in Thread, GiveUp(t) PROVE Jammed'
  BY <1>7 DEF GiveUp
<1>8. ASSUME NEW t \in Thread, Flush(t) PROVE Jammed'
  BY <1>8 DEF Flush, NeedsKick
<1> QED
  BY <1>1, <1>2, <1>3, <1>4, <1>5, <1>6, <1>7, <1>8 DEF TxNext, Sends

(* Once a WAN's tx ring is full with nothing pending, no step of any thread *)
(* ends that, whatever the sizes and however many threads send: neither     *)
(* interface_send_batch_queue nor the flush calls sendto any more.          *)
THEOREM JamStays == TxSpec => JammedForever
<1>1. TxSpec => []KickHasPending
  BY InitKick, KickStep, PTL DEF TxSpec
<1>2. KickHasPending /\ [TxNext]_tx_vars => [Jammed => Jammed']_tx_vars
  BY JamStep
<1> QED
  BY <1>1, <1>2, PTL DEF TxSpec, JammedForever

-----------------------------------------------------------------------------
(* The ring as a FIFO.  The frames of the ring are the last ones before     *)
(* tx_slot, in the order of the ring: Steps(a, b) is how often a slot must  *)
(* be advanced from a to get to b, and never 0.                             *)
Steps(a, b) == IF b > a THEN b - a ELSE b - a + Half

RingInv ==
  /\ tx_ring \in Seq(Slot) /\ Len(tx_ring) <= TxRingSize
  /\ frames \in [Slot -> Payload]
  /\ tx_slot \in Slot
  /\ \A i \in 1 .. Len(tx_ring) : Steps(tx_ring[i], tx_slot) = Len(tx_ring) - i + 1

(* Advancing tx_slot wraps around at the last frame of the second half.     *)
LEMMA NextSlotValue ==
  ASSUME tx_slot \in Slot
  PROVE  NextSlot = IF tx_slot = Half - 1 THEN 0 ELSE tx_slot + 1
<1>1. Half \in Nat /\ Half > 0
  BY XskTxAssumption
<1>2. tx_slot \in Nat /\ tx_slot < Half
  BY <1>1 DEF Slot
<1>3. CASE tx_slot = Half - 1
  <2>1. tx_slot + 1 = Half
    BY <1>1, <1>2, <1>3
  <2>2. Half % Half = 0
    BY <1>1
  <2> QED
    BY <1>3, <2>1, <2>2 DEF NextSlot
<1>4. CASE tx_slot # Half - 1
  <2>1. tx_slot + 1 \in Nat /\ tx_slot + 1 < Half
    BY <1>1, <1>2, <1>4
  <2>2. (tx_slot + 1) % Half = tx_slot + 1
    BY <1>1, <2>1
  <2> QED
    BY <1>4, <2>2 DEF NextSlot
<1> QED
  BY <1>3, <1>4

(* Advancing tx_slot is one step more from every slot not Half steps away.  *)
LEMMA SlotAdvances ==
  ASSUME tx_slot \in Slot
  PROVE  /\ NextSlot \in Slot
         /\ Steps(tx_slot, NextSlot) = 1
         /\ \A s \in Slot : Steps(s, tx_slot) < Half => Steps(s, NextSlot) = Steps(s, tx_slot) + 1
<1>1. Half \in Nat /\ Half > 0
  BY XskTxAssumption
<1>2. Slot = 0 .. (Half - 1)
  BY DEF Slot
<1>3. NextSlot = IF tx_slot = Half - 1 THEN 0 ELSE tx_slot + 1
  BY NextSlotValue
<1>4. NextSlot \in Slot
  BY <1>1, <1>2, <1>3
<1>5. Steps(tx_slot, NextSlot) = 1
  BY <1>1, <1>2, <1>3 DEF Steps
<1>6. ASSUME NEW s \in Slot, Steps(s, tx_slot) < Half
      PROVE  Steps(s, NextSlot) = Steps(s, tx_slot) + 1
  BY <1>1, <1>2, <1>3, <1>6 DEF Steps
<1> QED
  BY <1>4, <1>5, <1>6

(* A sequence is the function of its elements: what Append builds for a     *)
(* packet that is put is compared with Waiting, which is built by index.    *)
LEMMA SeqIsFunction ==
  ASSUME NEW S, NEW s \in Seq(S)
  PROVE  s = [n \in 1 .. Len(s) |-> s[n]]
OBVIOUS

(* A put accepts one packet behind those that wait, and overwrites none of  *)
(* them: the frame it writes is not in the ring, as RingSize <= Half.       *)
LEMMA PutRing ==
  ASSUME RingInv, NEW t \in Thread, Put(t)
  PROVE  /\ RingInv'
         /\ \E p \in Payload : Waiting' = Append(Waiting, p)
<1>1. PICK p \in Payload : frames' = [frames EXCEPT ![tx_slot] = p]
  BY DEF Put
<1>2. /\ tx_ring' = Append(tx_ring, tx_slot) /\ tx_slot' = NextSlot /\ Len(tx_ring) < TxRingSize
  BY DEF Put, RingHasRoom
<1>3. /\ tx_ring \in Seq(Slot) /\ frames \in [Slot -> Payload] /\ tx_slot \in Slot
      /\ Len(tx_ring) \in Nat
  BY DEF RingInv
<1>4. /\ tx_ring' \in Seq(Slot) /\ Len(tx_ring') = Len(tx_ring) + 1
      /\ \A i \in 1 .. Len(tx_ring) : tx_ring'[i] = tx_ring[i]
      /\ tx_ring'[Len(tx_ring) + 1] = tx_slot
  BY <1>2, <1>3
<1>5. frames' \in [Slot -> Payload]
  BY <1>1, <1>3
<1>6. TxRingSize \in Nat /\ Half \in Nat /\ TxRingSize <= Half /\ Half > 0
  BY XskTxAssumption
<1>7. \A i \in 1 .. Len(tx_ring) :
        /\ tx_ring[i] \in Slot
        /\ Steps(tx_ring[i], tx_slot) = Len(tx_ring) - i + 1
        /\ Steps(tx_ring[i], tx_slot) < Half
  BY <1>2, <1>3, <1>6 DEF RingInv
<1>8. \A i \in 1 .. Len(tx_ring) : Steps(tx_ring[i], tx_slot') = Len(tx_ring) - i + 2
  BY <1>2, <1>3, <1>7, SlotAdvances
<1>9. Steps(tx_slot, tx_slot') = 1 /\ tx_slot' \in Slot
  BY <1>2, <1>3, SlotAdvances
<1>10. \A i \in 1 .. Len(tx_ring') : Steps(tx_ring'[i], tx_slot') = Len(tx_ring') - i + 1
  <2> TAKE i \in 1 .. Len(tx_ring')
  <2>1. CASE i = Len(tx_ring) + 1
    BY <1>3, <1>4, <1>9, <2>1
  <2>2. CASE i \in 1 .. Len(tx_ring)
    BY <1>3, <1>4, <1>8, <2>2
  <2> QED
    BY <1>3, <1>4, <2>1, <2>2
<1>10a. \A i \in 1 .. Len(tx_ring)' : Steps(tx_ring[i], tx_slot)' = Len(tx_ring)' - i + 1
  BY <1>10 DEF Steps
<1>11. RingInv'
  BY <1>2, <1>4, <1>5, <1>6, <1>9, <1>10a DEF RingInv
<1>12. \A i \in 1 .. Len(tx_ring) : tx_ring[i] # tx_slot
  <2> TAKE i \in 1 .. Len(tx_ring)
  <2>1. Steps(tx_slot, tx_slot) = Half
    BY <1>3, <1>6 DEF Steps, Slot
  <2> QED
    BY <1>7, <2>1, <1>6
<1>13. Waiting' = Append(Waiting, p)
  <2>1. Waiting' = [n \in 1 .. (Len(tx_ring) + 1) |-> frames'[tx_ring'[n]]]
    BY <1>4 DEF Waiting
  <2>2. Waiting \in Seq(Payload) /\ Len(Waiting) = Len(tx_ring)
    BY <1>3, <1>7 DEF Waiting
  <2>3. ASSUME NEW n \in 1 .. (Len(tx_ring) + 1)
        PROVE  frames'[tx_ring'[n]] = IF n <= Len(tx_ring) THEN Waiting[n] ELSE p
    <3>1. CASE n \in 1 .. Len(tx_ring)
      <4>1. tx_ring'[n] = tx_ring[n] /\ tx_ring[n] # tx_slot /\ tx_ring[n] \in Slot
        BY <1>4, <1>7, <1>12, <3>1
      <4>2. frames'[tx_ring[n]] = frames[tx_ring[n]]
        BY <1>1, <1>3, <4>1
      <4>3. Waiting[n] = frames[tx_ring[n]] /\ n <= Len(tx_ring)
        BY <1>3, <3>1 DEF Waiting
      <4> QED
        BY <4>1, <4>2, <4>3
    <3>2. CASE n = Len(tx_ring) + 1
      BY <1>1, <1>3, <1>4, <3>2
    <3> QED
      BY <1>3, <3>1, <3>2
  <2>4. Append(Waiting, p) =
          [n \in 1 .. (Len(tx_ring) + 1) |-> IF n <= Len(tx_ring) THEN Waiting[n] ELSE p]
    <3> DEFINE A == Append(Waiting, p)
    <3> HIDE DEF A
    <3>1. /\ A \in Seq(Payload) /\ Len(A) = Len(tx_ring) + 1
          /\ \A n \in 1 .. Len(tx_ring) : A[n] = Waiting[n]
          /\ A[Len(tx_ring) + 1] = p
      BY <1>1, <1>3, <2>2, AppendProperties DEF A
    <3>2. A = [n \in 1 .. Len(A) |-> A[n]]
      BY <3>1, SeqIsFunction
    <3>3. ASSUME NEW n \in 1 .. (Len(tx_ring) + 1)
          PROVE  A[n] = IF n <= Len(tx_ring) THEN Waiting[n] ELSE p
      BY <1>3, <3>1
    <3>4. A = [n \in 1 .. (Len(tx_ring) + 1) |-> IF n <= Len(tx_ring) THEN Waiting[n] ELSE p]
      BY <3>1, <3>2, <3>3
    <3> QED
      BY <3>4 DEF A
  <2> QED
    BY <2>1, <2>3, <2>4
<1> QED
  BY <1>1, <1>11, <1>13

(* A sendto lets the first packets that wait leave, or none.                *)
LEMMA KickRing ==
  ASSUME RingInv, Kick, UNCHANGED <<frames, tx_slot>>
  PROVE  /\ RingInv'
         /\ \/ UNCHANGED Waiting
            \/ \E n \in 1 .. Len(Waiting) : Waiting' = SubSeq(Waiting, n + 1, Len(Waiting))
<1>1. PICK n \in 0 .. Len(tx_ring) : tx_ring' = SubSeq(tx_ring, n + 1, Len(tx_ring))
  BY DEF Kick
<1>2. /\ tx_ring \in Seq(Slot) /\ frames \in [Slot -> Payload] /\ tx_slot \in Slot
      /\ Len(tx_ring) \in Nat /\ Len(tx_ring) <= TxRingSize
      /\ TxRingSize \in Nat
  BY XskTxAssumption DEF RingInv
<1>3. n \in 0 .. Len(tx_ring)
  BY <1>1, <1>2
<1>4. /\ tx_ring' \in Seq(Slot) /\ Len(tx_ring') = Len(tx_ring) - n
      /\ \A i \in 1 .. Len(tx_ring') : tx_ring'[i] = tx_ring[i + n] /\ i + n \in 1 .. Len(tx_ring)
  BY <1>1, <1>2, <1>3
<1>5. RingInv'
  <2>1. \A i \in 1 .. Len(tx_ring') : Steps(tx_ring'[i], tx_slot) = Len(tx_ring') - i + 1
    <3> TAKE i \in 1 .. Len(tx_ring')
    <3>1. Steps(tx_ring[i + n], tx_slot) = Len(tx_ring) - (i + n) + 1
      BY <1>4 DEF RingInv
    <3> QED
      BY <1>2, <1>3, <1>4, <3>1
  <2>2. \A i \in 1 .. Len(tx_ring)' : Steps(tx_ring[i], tx_slot)' = Len(tx_ring)' - i + 1
    BY <2>1 DEF Steps
  <2> QED
    BY <1>2, <1>3, <1>4, <2>2 DEF RingInv
<1>6. /\ Waiting \in Seq(Payload) /\ Len(Waiting) = Len(tx_ring)
      /\ \A i \in 1 .. Len(tx_ring) : Waiting[i] = frames[tx_ring[i]]
  BY <1>2 DEF Waiting
<1>7. Waiting' = [i \in 1 .. (Len(tx_ring) - n) |-> Waiting[i + n]]
  <2>1. Waiting' = [i \in 1 .. Len(tx_ring') |-> frames[tx_ring'[i]]]
    BY DEF Waiting
  <2> QED
    BY <1>4, <1>6, <2>1
<1>8. CASE n = 0
  <2>1. tx_ring' = tx_ring
    BY <1>1, <1>2, <1>8
  <2> QED
    BY <1>5, <2>1 DEF Waiting
<1>9. CASE n # 0
  <2>1. n \in 1 .. Len(Waiting)
    BY <1>3, <1>6, <1>9, <1>2
  <2>2. Waiting' = SubSeq(Waiting, n + 1, Len(Waiting))
    BY <1>2, <1>3, <1>6, <1>7
  <2> QED
    BY <1>5, <2>1, <2>2
<1> QED
  BY <1>8, <1>9

(* Every step keeps the ring's order of slots and is a step of the FIFO.    *)
LEMMA RingStep ==
  ASSUME RingInv, [TxNext]_tx_vars
  PROVE  RingInv' /\ [Fifo!Next]_Waiting
<1> USE DEF Fifo!Next, Fifo!Accept, Fifo!Leave
<1>1. CASE UNCHANGED <<tx_ring, frames, tx_slot>>
  BY <1>1 DEF RingInv, Waiting, Steps
<1>2. ASSUME NEW t \in Thread, Put(t) PROVE RingInv' /\ [Fifo!Next]_Waiting
  BY <1>2, PutRing
<1>3. CASE Kick /\ UNCHANGED <<frames, tx_slot>>
  BY <1>3, KickRing
<1>4. ASSUME NEW t \in Thread, KickPending(t) \/ FullKick(t) \/ Flush(t)
      PROVE  (Kick \/ UNCHANGED tx_ring) /\ UNCHANGED <<frames, tx_slot>>
  BY <1>4 DEF KickPending, FullKick, Flush
<1>5. ASSUME NEW t \in Thread, Batch(t) \/ SendBegins(t) \/ GiveUp(t)
      PROVE  UNCHANGED <<tx_ring, frames, tx_slot>>
  BY <1>5 DEF Batch, SendBegins, GiveUp
<1>6. UNCHANGED tx_vars => UNCHANGED <<tx_ring, frames, tx_slot>>
  BY DEF tx_vars
<1> QED
  BY <1>1, <1>2, <1>3, <1>4, <1>5, <1>6 DEF TxNext, Sends

(* The queue begins empty.                                                  *)
LEMMA RingInit == TxInit => RingInv /\ Fifo!Init
<1> SUFFICES ASSUME TxInit PROVE RingInv /\ Fifo!Init
  OBVIOUS
<1>1. tx_ring = <<>> /\ tx_slot = 0 /\ frames \in [Slot -> Payload]
  BY DEF TxInit
<1>2. 0 \in Slot /\ TxRingSize \in Nat
  BY XskTxAssumption DEF Slot
<1>3. Waiting = <<>>
  BY <1>1 DEF Waiting
<1> QED
  BY <1>1, <1>2, <1>3 DEF RingInv, Fifo!Init

(* For every size of the ring that the frames suffice for, every threshold  *)
(* and number of threads, and both ways to send: what a queue accepted      *)
(* leaves in order, once, and as it was given.                              *)
THEOREM FifoCorrect == TxSpec => FifoSpec
<1>1. TxSpec => []RingInv
  <2>1. RingInv /\ [TxNext]_tx_vars => RingInv'
    BY RingStep
  <2> QED
    BY <2>1, RingInit, PTL DEF TxSpec
<1>2. RingInv /\ [TxNext]_tx_vars => [Fifo!Next]_Waiting
  BY RingStep
<1> QED
  BY <1>1, <1>2, RingInit, PTL DEF TxSpec, FifoSpec, Fifo!Spec

=============================================================================
