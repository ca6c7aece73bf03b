-------------------------------- MODULE XskRx --------------------------------
(***************************************************************************)
(* The receive frames of one AF_XDP queue, core/interface.c and the        *)
(* threads of core/forwarder.c that use it.                                *)
(*                                                                         *)
(* interface_init_local gives the kernel ring_size frames of the UMEM      *)
(* through the fill ring.  The kernel hands them over one by one, each     *)
(* with a packet, through the rx ring; the queue thread takes a batch and  *)
(* either handles it and releases all of it (a WAN, or a local interface   *)
(* without crypto), or puts each frame into the worker ring, whence the    *)
(* worker takes, handles and releases it.  Releasing a frame is to produce *)
(* it in the fill ring, which libxdp's inline functions do without a lock. *)
(*                                                                         *)
(* Data abstractions: a frame is its number, a packet is the frame it came *)
(* in; packets are handled without looking at them; cached_cons is left    *)
(* out, as it only delays what the kernel's own index tells.               *)
(***************************************************************************)
EXTENDS Integers, Sequences

CONSTANTS
  RingSize,      \* ring_size: of the fill and rx rings, and the frames
  Wrap,          \* 2^32, the values of a ring index
  JobRingSize,   \* WORKER_RING_SIZE
  BatchSize,     \* batch_size
  Kinds          \* the queue threads looked at

ASSUME XskRxAssumption ==
  /\ RingSize \in Nat \ {0} /\ Wrap \in Nat
  /\ Wrap % RingSize = 0 /\ Wrap > RingSize
  /\ JobRingSize \in Nat \ {0} /\ BatchSize \in Nat \ {0}
  /\ Kinds \subseteq {"queued",     \* local_queue_thread_l3l4, which has a worker
                     "batch",      \* those that send what they receive
                     "arp"}        \* wan_queue_thread_no_crypto, ARP answers missing

VARIABLES
  fill,      \* the fill ring and its indices: the kernel's is consumer
  rx,        \* what the rx ring holds
  queue,     \* the queue thread: its kind, where it is, addrs and its index i
  ring,      \* g_worker_ring
  worker,    \* worker_thread: whether it has a job, and which
  rel,       \* interface_recv_release_single_queue as each thread executes it
  dropped,   \* ghost: a packet was dropped because the worker ring was full
  raced,     \* ghost: two releases overlapped
  twice      \* ghost: a frame was released twice

ghosts == <<dropped, raced, twice>>
vars == <<fill, rx, queue, ring, worker, rel, ghosts>>

Frame == 0 .. (RingSize - 1)
JobSlot == 0 .. (JobRingSize - 1)
Threads == {"queue", "worker"}
NoRelease == [at |-> "out", addr |-> 0, idx |-> 0]

Queued == queue.kind = "queued"
MayMiss == queue.kind = "arp"

Init ==
  /\ fill = [entry |-> [s \in Frame |-> s], cached_prod |-> RingSize,
             producer |-> RingSize, consumer |-> 0]
  /\ rx = <<>>
  /\ queue \in [kind : Kinds, at : {"recv"}, addrs : {<<>>}, i : {1}]
  /\ ring = [head |-> 0, tail |-> 0, jobs |-> [s \in JobSlot |-> 0]]
  /\ worker = [at |-> "idle", job |-> 0]
  /\ rel = [t \in Threads |-> NoRelease]
  /\ dropped = FALSE /\ raced = FALSE /\ twice = FALSE

-----------------------------------------------------------------------------
(* The kernel *)

Submitted == (fill.producer - fill.consumer) % Wrap

\* A packet arrives: it is copied into the next frame, unless there is none.
Deliver ==
  /\ Submitted > 0 /\ Len(rx) < RingSize
  /\ rx' = Append(rx, fill.entry[fill.consumer % RingSize])
  /\ fill' = [fill EXCEPT !.consumer = (@ + 1) % Wrap]
  /\ UNCHANGED <<queue, ring, worker, rel, ghosts>>

-----------------------------------------------------------------------------
(* interface_recv_release_single_queue, for one frame *)

\* A wrong variant: the entry is written after it was submitted.
SubmitBeforeWrite == [bump |-> "load", load |-> "store", store |-> "write", write |-> "out"]

\* What follows each access; then the call returns.
After == [bump |-> "write", write |-> "load", load |-> "store", store |-> "out"]
Free == (fill.consumer + RingSize - fill.cached_prod) % Wrap

Quiet(t) == rel[t].at = "out"
Goes(t, r) == rel' = [rel EXCEPT ![t] = r]
Advances(t, r) == Goes(t, IF After[r.at] = "out" THEN NoRelease
                                               ELSE [r EXCEPT !.at = After[@]])

\* The call.  Nothing keeps two threads from being in it at once.
Release(t, f) ==
  /\ Goes(t, [at |-> "reserve", addr |-> f, idx |-> 0])
  /\ raced' = (raced \/ \E u \in Threads : ~Quiet(u))

\* xsk_ring_prod__reserve reads cached_prod; when the ring is full the frame is
\* tried once more, after the completion ring was looked at, and then given up.
Reserve(t) ==
  /\ rel[t].at \in {"reserve", "again"}
  /\ IF Free > 0
     THEN Goes(t, [rel[t] EXCEPT !.at = "bump", !.idx = fill.cached_prod])
     ELSE Goes(t, IF rel[t].at = "reserve" THEN [rel[t] EXCEPT !.at = "again"]
                                           ELSE NoRelease)
  /\ UNCHANGED <<fill, rx, queue, ring, worker, ghosts>>

\* cached_prod += 1, which may read cached_prod again or not.
Bump(t) ==
  /\ rel[t].at = "bump"
  /\ \E read \in {rel[t].idx, fill.cached_prod} :
       fill' = [fill EXCEPT !.cached_prod = (read + 1) % Wrap]
  /\ Advances(t, rel[t])
  /\ UNCHANGED <<rx, queue, ring, worker, ghosts>>

\* *xsk_ring_prod__fill_addr = addr
WriteAddr(t) ==
  /\ rel[t].at = "write"
  /\ fill' = [fill EXCEPT !.entry[rel[t].idx % RingSize] = rel[t].addr]
  /\ Advances(t, rel[t])
  /\ UNCHANGED <<rx, queue, ring, worker, ghosts>>

\* xsk_ring_prod__submit: *producer is read, and stored one higher.
SubmitLoad(t) ==
  /\ rel[t].at = "load"
  /\ Advances(t, [rel[t] EXCEPT !.idx = fill.producer])
  /\ UNCHANGED <<fill, rx, queue, ring, worker, ghosts>>

SubmitStore(t) ==
  /\ rel[t].at = "store"
  /\ fill' = [fill EXCEPT !.producer = (rel[t].idx + 1) % Wrap]
  /\ Advances(t, rel[t])
  /\ UNCHANGED <<rx, queue, ring, worker, ghosts>>

ReleaseStep(t) ==
  Reserve(t) \/ Bump(t) \/ WriteAddr(t) \/ SubmitLoad(t) \/ SubmitStore(t)

-----------------------------------------------------------------------------
(* The queue thread *)

\* interface_recv_single_queue: what the rx ring holds, up to a batch.  Its
\* cached view of the ring may be older and hold less.
Receive(n) ==
  /\ queue.at = "recv" /\ n <= Len(rx)
  /\ queue' = [queue EXCEPT !.at = "handle", !.addrs = SubSeq(rx, 1, n)]
  /\ rx' = SubSeq(rx, n + 1, Len(rx))
  /\ UNCHANGED <<fill, ring, worker, rel, ghosts>>

AtPacket == queue.at = "handle" /\ Quiet("queue") /\ queue.i <= Len(queue.addrs)
Handled == [queue EXCEPT !.i = @ + 1]
Again == [queue EXCEPT !.at = "recv", !.addrs = <<>>, !.i = 1]

\* Wrong variants: the last entry is used too, the tail runs past the array, a
\* dropped packet's frame is forgotten.
EveryEntry == TRUE
TailPastEnd == ring.tail + 1
ForgetDropped(f) == UNCHANGED <<rel, raced>>

next_tail == (ring.tail + 1) % JobRingSize
HasRoom == next_tail # ring.head
DropFrame(f) == Release("queue", f)
WholeBatch == [queue EXCEPT !.at = "release", !.i = 1]

\* local_queue_thread_l3l4: into the worker ring, under its lock ...
Enqueue ==
  /\ Queued /\ AtPacket /\ HasRoom
  /\ ring' = [ring EXCEPT !.jobs[ring.tail] = queue.addrs[queue.i], !.tail = next_tail]
  /\ queue' = Handled
  /\ UNCHANGED <<fill, rx, worker, rel, ghosts>>

\* ... and when that is full the packet is dropped and the frame released here.
EnqueueFull ==
  /\ Queued /\ AtPacket /\ ~HasRoom
  /\ DropFrame(queue.addrs[queue.i])
  /\ dropped' = TRUE
  /\ queue' = Handled
  /\ UNCHANGED <<fill, rx, ring, worker, twice>>

\* The other queue threads send the packet or drop it, either way from or in
\* the frame, which stays theirs.
Forward ==
  /\ ~Queued /\ AtPacket
  /\ queue' = Handled
  /\ UNCHANGED <<fill, rx, ring, worker, rel, ghosts>>

\* set_local_l2_addrs failed in wan_queue_thread_no_crypto: the frame is released,
\* and will be again with the batch.
ForwardMisses ==
  /\ MayMiss /\ AtPacket
  /\ Release("queue", queue.addrs[queue.i])
  /\ twice' = TRUE
  /\ queue' = Handled
  /\ UNCHANGED <<fill, rx, ring, worker, dropped>>

BatchDone ==
  /\ queue.at = "handle" /\ Quiet("queue") /\ queue.i > Len(queue.addrs)
  /\ queue' = IF Queued THEN Again ELSE WholeBatch
  /\ UNCHANGED <<fill, rx, ring, worker, rel, ghosts>>

\* interface_recv_release_single_queue over the batch
ReleaseNext ==
  /\ queue.at = "release" /\ Quiet("queue") /\ queue.i <= Len(queue.addrs)
  /\ Release("queue", queue.addrs[queue.i])
  /\ queue' = Handled
  /\ UNCHANGED <<fill, rx, ring, worker, dropped, twice>>

Released ==
  /\ queue.at = "release" /\ Quiet("queue") /\ queue.i > Len(queue.addrs)
  /\ queue' = Again
  /\ UNCHANGED <<fill, rx, ring, worker, rel, ghosts>>

-----------------------------------------------------------------------------
(* worker_thread *)

Dequeue ==
  /\ worker.at = "idle" /\ Quiet("worker") /\ ring.head # ring.tail
  /\ worker' = [at |-> "job", job |-> ring.jobs[ring.head]]
  /\ ring' = [ring EXCEPT !.head = (@ + 1) % JobRingSize]
  /\ UNCHANGED <<fill, rx, queue, rel, ghosts>>

\* However the packet fared, every path ends at release_local.
ReleaseLocal ==
  /\ worker.at = "job"
  /\ Release("worker", worker.job)
  /\ worker' = [worker EXCEPT !.at = "idle"]
  /\ UNCHANGED <<fill, rx, queue, ring, dropped, twice>>

-----------------------------------------------------------------------------
Queue ==
  \/ \E n \in 1 .. BatchSize : Receive(n)
  \/ Enqueue \/ EnqueueFull \/ Forward \/ ForwardMisses \/ BatchDone
  \/ ReleaseNext \/ Released \/ ReleaseStep("queue")

Worker == Dequeue \/ ReleaseLocal \/ ReleaseStep("worker")

Next == Deliver \/ Queue \/ Worker

Spec == Init /\ [][Next]_vars

\* The threads run; packets need not come.
FairSpec == Spec /\ WF_vars(Queue) /\ WF_vars(Worker)

-----------------------------------------------------------------------------
(* Properties *)

Counter == 0 .. (Wrap - 1)

TypeOK ==
  /\ fill \in [entry : [Frame -> Frame], cached_prod : Counter,
               producer : Counter, consumer : Counter]
  /\ rx \in Seq(Frame) /\ Len(rx) <= RingSize
  /\ queue \in [kind : Kinds, at : {"recv", "handle", "release"}, addrs : Seq(Frame), i : Nat]
  /\ Len(queue.addrs) <= BatchSize /\ queue.i \in 1 .. (Len(queue.addrs) + 1)
  /\ ring \in [head : JobSlot, tail : JobSlot, jobs : [JobSlot -> Frame]]
  /\ worker \in [at : {"idle", "job"}, job : Frame]
  /\ rel \in [Threads -> [at : {"out", "reserve", "again", "bump", "write", "load", "store"},
                          addr : Frame, idx : Counter]]
  /\ {dropped, raced, twice} \subseteq BOOLEAN

\* Who has which frames: the fill ring, the rx ring, the queue thread, the worker
\* ring, the worker, and a thread that is releasing one.
InFill == [n \in 1 .. Submitted |-> fill.entry[(fill.consumer + n - 1) % RingSize]]
WithQueue ==
  IF queue.at = "handle" /\ ~Queued THEN queue.addrs
  ELSE SubSeq(queue.addrs, queue.i, Len(queue.addrs))
InJobs == [n \in 1 .. ((ring.tail - ring.head) % JobRingSize) |->
             ring.jobs[(ring.head + n - 1) % JobRingSize]]
WithWorker == IF worker.at = "job" THEN <<worker.job>> ELSE <<>>
Releasing(t) == IF Quiet(t) THEN <<>> ELSE <<rel[t].addr>>
Held == InFill \o rx \o WithQueue \o InJobs \o WithWorker
          \o Releasing("queue") \o Releasing("worker")

clean == ~raced /\ ~twice

\* As long as no release overlapped another and no frame was released twice,
\* every frame is in exactly one place: none leaks, which would in the end stop
\* the interface, and none is with the kernel while a thread still reads it.
OneHolder ==
  clean => /\ Len(Held) = RingSize
           /\ \A f \in Frame : \E n \in 1 .. Len(Held) : Held[n] = f

\* No entry that a thread has reserved and not written is submitted.
Written ==
  \A t \in Threads :
    rel[t].at \in {"bump", "write"} => (rel[t].idx - fill.consumer) % Wrap >= Submitted

\* "everything has been written to the ring before indicating this to the
\* kernel" (xsk.h:136, of xsk_ring_prod__submit) holds until two releases of
\* the fill ring overlap, and they do not overlap before local_queue_thread_l3l4
\* drops a packet because the worker ring is full: the release it does itself
\* there (forwarder.c:1425) is the only one beside another thread's.  After an
\* overlap the code does not keep that rule.
WrittenUntilRace ==
  /\ ~raced => Written
  /\ raced => Queued /\ dropped

\* A received frame gets back to the kernel, by whichever way it goes.
FramesReturn ==
  [](clean) => \A f \in Frame :
    (\E n \in 1 .. Len(rx) : rx[n] = f) ~> (\E n \in 1 .. Submitted : InFill[n] = f)

=============================================================================
