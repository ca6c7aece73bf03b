# Verification of the network encryptor in TLA+

The program is a Linux daemon. It takes packets from LAN interfaces through
AF_XDP sockets, encrypts those that a policy selects, and sends them to one of
several WANs; packets from the WANs go the other way. What it does is configured
by *profiles* in a PostgreSQL database, which are loaded, merged and replaced
while packets flow.

This directory holds TLA+ models of its parts, TLC configurations that check
them on small instances, and proofs, checked by TLAPS, of what matters most for
every value of the constants. `PROJECT.json` lists the runs, the mutants that
show what each property notices, the source lines of every definition, the
hazards of the code and the properties aimed at each.

    tlc -workers 2 -config HotReload.cfg MCHotReload    # one run
    tlapm HotReload_proofs.tla                          # the proofs of one module

## 1. The system and its parts

One process. Its threads are the main thread (`main.c`), the forwarder thread it
starts, and the packet threads that one starts: a queue thread per interface, a
worker, a garbage collector and an ARP thread. All pin themselves to core 0.
They share memory; the packet threads call no lock on their way to the
configuration and the contexts.

| Part | Source | State | Operations |
|---|---|---|---|
| Daemon life cycle | `main.c`, `forwarder.c` (init, run, stop) | active profile ids, two configuration slots, the forwarder thread, `running`, the stop flag | notify, load, unload, roll back, start, stop and join, signal |
| Hot reload, gate, crypto runtime | `forwarder.c` 60-600, 853-944, 1616-2501 | `fwd->cfg`, `g_reload_pause`, `g_inflight_packets`, contexts and their ready flags, wire id index, TCP pins | enter, leave, select, index, pin, send, decrypt; pause, drain, swap, rebuild, clear, reopen |
| Fragmentation | `fragment.c` | id counter, one table of pending first halves per layer | split, store, join, expire, collect |
| Receive rings | `interface.c` 384-865, 1302-1361; `forwarder.c` 751-758, 1048-1432 | fill ring, rx ring, worker ring | receive, enqueue, forward, release |
| Transmit | `interface.c` 1363-1557 | tx ring, frame counter, pending count, `tx_lock` | send to a WAN, send to a LAN, kick, flush |
| WAN selection | `flow_table.c`, `forwarder.c` 338-380, 622-669 | round robin counter, flow table, windows, rotation counter | pick per packet, look up, insert, rotate, collect |
| Loading and merge | `db/db_config.c`, `db/db_runtime.c` | the configuration being built, wire ids in use, index maps | eight queries, allocate, append, map |
| Policy selection | `db/config.c` | TCP pins | match in two directions, two passes, pin |
| Packet encryption | `crypto/*.c`, `forwarder.c` 853-1000, 1616-1990 | contexts, `g_encrypt_layer`, nonce counter | encrypt, recognise, decrypt, find the LAN, dispatch by layer |
| ARP cache | `wan_arp.c` | address table with open addressing, dirty flag, file | look up, ask, take in a reply, save, load |
| Bring-up, XDP programs, filter maps | `interface.c` 1-870, `forwarder.c` 2255-2501, `bpf/*.c` | sockets, umems and buffers, attached programs, `xsks_map`, filter maps and the table of them | init with every error path, attach, clean up, redirect, push filters |
| The rest | `db_env.c`, `main_diag.c`, `tools/`, `sh/`, SQL | none | settings, printing, test programs |

How they interact. The main thread merges the active profiles into the spare one
of two slots and either starts the forwarder thread with it or hands it to
`forwarder_reload_config`, which publishes it to the packet threads behind the
gate. A packet from a LAN goes from the rx ring through the worker ring to the
worker, which selects a policy, a WAN and a context, encrypts, perhaps splits,
and sends; its frame goes back to the fill ring. A packet from a WAN is decrypted
by the wire id it carries, perhaps joined with its other half, and sent to a LAN
with the MAC address the LAN's ARP cache has for it. What reaches the packet
threads at all is what the XDP programs redirect: those outlive the process, the
sockets behind them do not. The forwarder thread attaches and detaches them, and
main writes their filter maps at a reload.

What is hard here:

- *interleaving without locks*: the gate, the configuration pointers read twice,
  the garbage collector beside the WAN threads, two producers of one fill ring,
  one counter for all profiles, one layer variable for all threads, filter maps
  written by main and the forwarder thread;
- *stale state*: pointers and indices into a policy table that was replaced, pins,
  ids that wrap, clocks read before a lock;
- *partial failure*: a load or unload that fails half way, a context that cannot
  be initialised, a query whose failure is no error, a `sendto` nobody looks at,
  an interface that cannot be brought up after others were;
- *crash and restart*: programs that stay attached, a file cut while it is saved;
- *unreliable delivery*: halves that are lost, duplicated, delayed, reordered;
- *sequences*: stop and start again, a reload during the start, a profile without
  policies first;
- *limits*: full rings, full lists and tables, one byte ids, counters at their end.

## 2. Modules

| Module | What it is | Extends / instantiates |
|---|---|---|
| `ConfigGuard` | abstract: what the reload gate promises | |
| `HotReload` | the reload and the packet threads | implements `ConfigGuard` |
| `Daemon` | the main thread, the forwarder thread, the signal | |
| `Fragment` | both ends of the tunnel and the network between | |
| `XskRx` | the frames of one receive queue | |
| `TxFifo` | abstract: what a transmit queue promises | |
| `XskTx` | one transmit queue | implements `TxFifo` |
| `WanSelect` | round robin and the flow table | |
| `ConfigMerge` | loading and merging all profiles | |
| `Tunnel` | policy selection and the way of a packet through two gateways | |
| `Bringup` | the interfaces' resources, XDP programs and filter maps | |
| `ArpCache` | the table, its listener, its file | |
| `MC*` | instances for TLC | the module of that name |
| `*_proofs` | theorems and proofs | the module of that name; `Xsk_proofs`: `XskRx` and `XskTx`; `Profiles_proofs`: `WanSelect` and `ConfigMerge` |

Components meet at small interfaces. `Daemon` treats a reload as acceptance and
commit; `HotReload` opens these two steps up. What `ConfigMerge` shows of its
result (distinct wire ids that are not 0, valid indices, bounded lists) is what
`HotReload` and `Tunnel` assume of their configurations (`ConfigsAssumption`,
`TunnelAssumption`). `HotReload` shows that a packet gets the context of the policy
it was selected for; `Tunnel` says which policy that is and what the other side
makes of it; `Fragment` is what happens to its halves on the way. `Bringup` opens
up the bring-up that is one step which may fail in `Daemon`.

Definitions marked "Wrong variant, used by no action" are the mutants' forms:
they stand beside the definition they would replace, are reached by nothing,
and `PROJECT.json` names for each the property that notices it.

## 3. The models

### HotReload

The configuration slots, `fwd->cfg` (as the slot it points to), the gate's two
atomics, the contexts, ready flags, wire id index and pins are variables. A
packet thread has a program counter (`pc`) and its locals (`pkt`): a pointer into
a slot, an index, a context. Each shared read of the source is a step of its own:
`worker_thread` selects by `fwd->cfg`, turns the pointer into an index by
`fwd->cfg` read again, looks at the ready flag, pins, sends. The main thread
pauses, drains, swaps, clears, rebuilds policy by policy, clears pins, reopens.
A swap that finds nothing changed does not use the gate (`ReloadFast`).

*Abstractions.* A policy is its wire id, action, key and the flows it matches,
and a table's order stands for the two passes of `config_select_crypto_policy`. A
context is the policy it was made for. A batch is one packet, since the threads
read every shared variable again for each packet. `merge_one_config` always sets
`encrypt_layer` 3, so that `forwarder_run_l3` and its threads are the ones
modelled. The tables of the previous policies (the 60 s grace) stay empty: only a
`forwarder_init` after a first one would fill them, and it returns before that
(section 6); they are left out. A pin may expire at any time, as its age is
compared by unsigned subtraction with a clock read earlier. The id an inbound packet
is pinned by is read from bytes that were decrypted in place, and SSH is skipped:
`WanPin` pins any policy that a wire id names, or none. A packet from a LAN has headers
that parse (`Tunnel` has those that do not).

*The store buffer.* The pause flag is stored with release and the in-flight count
loaded with acquire order; on x86 the store may still be in the core's buffer when
the load is done. `pauseBuffered` models this. With `StoreLoadOrdered` the store
is visible first, which is so as long as all threads run on one core, as
`forwarder_pin_cpu` asks for without looking at the result. Exclusion and all
that rests on it is checked and proved under this assumption; the count and the
liveness properties are checked without it. Without it TLC shows a thread inside
during a rebuild.

*Properties.* `InflightCounts`, `ReloadExclusion`; `RuntimeOfConfig`: contexts,
flags and index are those of `fwd->cfg`, except during a rebuild
(`ContextsOfConfig`), and a pin still denotes the policy it was set for (`PinsCurrent`);
`PacketsByPolicy`: what becomes of a packet is what its policy says, through all
reads of the configuration (`EncryptedAsSelected`, `ClearOnlyByPolicy`,
`DecryptedByWireId`); `GuardSpec` (the refinement); `ReloadCompletes`,
`PacketEnters`. `PacketsByPolicy` leaves out threads that an ungated swap caught
inside (`overlap`): these hold a pointer into a slot that the next load may overwrite.

### Daemon

The main thread waits, reads notifications (a count: anyone may send any id),
asks whether the profile exists, and loads or unloads; the merge, the start, the
reload and the join are steps that may fail where the source has an error path.
The forwarder thread runs through `forwarder_init` (publish, build, bring up) and
`forwarder_run` (look at `running`, store it, start threads, loop). The signal
handler is two stores with anything between them. A merged configuration is the
set of profiles it was built from; their order matters only to `same_topology`,
which may then reject a reload. The answer to "does it exist" is free, which
covers a changed table as well as a failed query.

*Properties.* `ProfilesServed`: there is a thread exactly when profiles are active
(`ThreadIffProfiles`), and whatever loads and unloads failed, what is believed
active is served (`ActiveServed`). `ForwarderUndisturbed`: its configuration is
not written while it runs (`LiveConfigStable`), and it is the only one
(`OneForwarder`). `StopsEnd`: the join returns (`JoinReturns`) and a signal ends
the daemon (`StopEnd`). `JoinReturns` leaves out the window in `forwarder_run`
between the look at `running` and its store, in which a stop is lost.

### Fragment

Time is in ticks. A packet is the number of ids issued up to it; `IdOf` cuts that
to the id's width. The network takes, duplicates, loses and delays halves. The
receiver's table has an entry per slot; `gc_thread`'s sweep is four steps an
entry (start, read valid, read time, clear) without the mutex, beside the WAN
threads' sweep and their stores and joins, which are atomic under it.

*Abstractions.* The three layers' functions are one algorithm over three tables.
A half that fails to decrypt, that is refused, or that is dropped before the
table is one the network lost. One sender: two would number independently.

*Properties.* `HalvesMatch` (as long as `IdsSuffice`: packets split within the
timeout and the delay are no more than ids), `NoExtraDelivery`, `FreshKept`.

### XskRx

A frame is a number. The fill ring has its entries and three indices, of which the
consumer's is the kernel's. A release is split into libxdp's steps: reserve, bump of
the cached index, write of the address, load and store of the producer. `queue.kind`
tells the local queue thread with a worker, the threads that release their own
batch, and the WAN queue thread that may find no ARP answer. The gate, and
`cached_cons`, which only delays what the kernel's index tells, are left out.

*Properties.* The rule of `xsk.h:136`, that an entry is written before it is
submitted (`Written`), is *not* kept by this code: section 6 has the behaviour. What
holds is `WrittenUntilRace`: it is kept until two releases overlap (`raced`), and
they overlap only after a packet was dropped because the worker ring was full
(`dropped`), never on the other ways. `OneHolder` (every frame is in exactly one
place) and `FramesReturn` (a received frame gets back to the fill ring) are about
behaviours without an overlap and without a frame released twice after a missing
ARP answer (`twice`); after either nothing is said.

### XskTx and TxFifo

A packet is a payload. `tx_slot` chooses its frame in the UMEM's second half and
the ring holds the frames' numbers. `Kick` is `sendto`: the kernel takes any
number of descriptors, and `pending` is zeroed whatever it did.
The two ways to send differ in what they do when the ring is full (`KicksFull`).
The sockets are bound in copy mode, so that the kernel reads frames only during
the call. `lock` is `tx_lock`. The completion ring is left out.

*Properties.* `FifoSpec`: the queue implements `TxFifo`, packets leave in order,
once, and as they were given. `JammedForever`: a WAN's ring that is full with
nothing pending is never kicked again. `Drained`: once every `sendto` takes what
there is, no accepted packet waits for a later one.

### WanSelect

A flow is a pair of hosts. `PickOnly` and `PickNext` are the two ways
`select_wan_idx_for_packet` ends without the flow table; the latter advances
`g_pkt_wrr_seq`. A profile reaches the flow table when it has no usable WAN row,
which happens when its rows change between the two queries that load them or the
second one fails. `ReadClock` is before the bucket's lock, `Lookup` and `Insert`
are the two outcomes under it; `flow_table_gc` reads the clock once and then takes
bucket after bucket. Byte count, clock and rotation counter have their widths.

*Properties.* `WeightedShare`: a round of packets gives every WAN its weight.
`WindowsKept`: a flow leaves its WAN when, and not long after, its window is spent
(`WindowSpent`), where there is another WAN to go to. A WAN may be in several rows of
a profile: its weight is the sum over its usable rows (`Parts`), its window that of
the last row with a weight. `IdleForgotten`: only idle
flows are forgotten, or those seen after the collector had read its clock. The least
window is assumed to be more than 0 (the source has 512 KB): a window of 0 would
never count as spent.

### ConfigMerge

A load is a sequence of queries (`Verify`, `LoadLans`, `LoadWans`, `LoadProfile`,
`OwnLans`, `OwnWans`, `LoadPolicies`), each of which sees the tables as they are
then; `Edit` changes them between. A row's id is the table's primary key
(`PrimaryKey`, `schema.sql:47`), while a profile may name an interface twice. Wire ids are allocated row by row, shared by
key, and allocated again by the merge where they are taken or 0. The merge of a
profile is one step. A failed query ends the whole build, but for the two whose
failure is no error (`OwnQueryFails`).

*Properties.* `WireIdsAllocated` (different policies have different wire ids, and
rows of one key share theirs: `WireIdsUnique`, `LoadedIdsByKey`), `ProfilesFaithful`
(with unchanged tables every profile gets exactly its interfaces and policies, in
order), `RowIdsKept` (when every row encrypts with its own key, ids do not depend on the
order in which profiles became active), and `BuildTypeOK` (no index leaves its list).

### Tunnel

Two gateways run the same program. A worker takes a packet from a LAN, finds the
LAN's profile, makes two passes over the profile's list for a policy that matches
in either direction (`config_select_crypto_policy`), pins a TCP flow to it, and
writes a frame. A WAN thread of `near` takes any frame of the wire and goes on in
steps: which header the bytes show, which policy has that id, `g_encrypt_layer` set
and read again by `packet_decrypt` (`ApplyLayer2`), the join of halves, layers 3 and
4, the inbound pin, the LAN of the address. All WAN threads share that one variable.

*Abstractions.* Cryptography is symbolic: a frame remembers the policy that sealed
it, and a policy opens it that has the same key, mode and nonce size; counter mode
with another key gives a garbled packet rather than a failure. Recognition is not
symbolic. It looks at single bytes whose places depend on each policy's nonce size:
bytes that were written are seen as written, bytes of a nonce, cipher text or
payload may look like a header by chance (`looks`). `IsPacket` and `IsConfig` say which
packets and configurations the assumption admits. `CRYPTO_L3_TUNNEL_MAGIC`, which
no file of the repository defines, is a constant. `xdp_redirect_prog` reads the ports
alone, so that a packet may have a `shape` other than "whole": "short" if `parse_flow`
does not find the whole transport header (`SendUnparsed`), "odd" if the data offset of
TCP is wrong (`crypto_layer4_encrypt` then leaves the packet as it is, and no split
finds where to cut). A payload of no bytes (`crypto_layer4.c:130`) cannot occur: what
`parse_flow` accepts is longer than the ports.

*Properties.* `LeavesCovered`: a frame leaves sealed by a policy the packet is
entitled to, and in the clear only for the reasons that `Covered` lists, which are all
the code has: encryption is off, the packet is short, such a policy is a bypass or not
ready, is one of layer 4 and the packet is odd, or is one of layer 3 and the packet
looks like a fragment. Section 6 says which of these no text mentions. `Intact`: what
reaches a LAN reaches the host's own LAN, whole, or still wrapped where no policy
claims it, or where a half of layer 4 was taken for none, because its index was
read at another policy's nonce size. `Recovered`: when both sides have the policy, the
packet comes out as it went in, whatever the other threads do, but for the race on
`g_encrypt_layer`.
`PinsAgree`: the policy a flow is pinned to is of this configuration and matches it.
The exceptions written into them are those of section 6.

### Bringup

Three actors. The forwarder thread runs through `forwarder_init`: for every LAN and
WAN it allocates buffers, creates the umem and the socket, registers the filter
maps, opens and attaches the program, each step of which may fail, and each failure
takes the source's error path; it writes the filters, runs, and cleans up. Main may
reload at any time from the thread's creation on and writes filters then, map by
map, beside the first writer. The kernel keeps attached programs and their maps when
the process ends or is killed at any step (`Restart`), and loses sockets and memory.
The XDP programs are functions from an interface and a kind of packet to a verdict
(`XdpLan`, `XdpWan`), as they read the maps now.

*Abstractions.* One queue per interface; a detach succeeds; a filter map holds a
configuration, nothing, or parts of two. A reload of other interfaces is rejected
(`Daemon`). Ghosts: `twice` (what was deleted twice), `broken` (the LAN whose attach
failed), `spoiled` (a reload came before the first write, or an update failed),
`unset` (the WANs whose `wan_config_map` could not be written, which is only a
warning), `plain` (a reload took all policies away before all WANs were up). The
crypto state is set up in one step after the configuration is published (`Configure`),
with what is in the slot by then; for each WAN `forwarder_init` reads `crypto_enabled`
and the slot again (`MarkWanted`), and a reload may have changed both.

*Properties.* `NoDrops`: an attached program has its socket, in every order of the
steps, failures and clean-ups; what a killed process left drops packets only until
`forwarder_init` is called, or on interfaces not named any more. `Redirected`: while
packet threads run each interface hands over exactly the packets it should; those
marked as encrypted at layer 2 no LAN does, no WAN without a policy of that layer,
and every WAN with one, but for `unset` and `plain`.
`NothingLeft`: a bring-up that failed or was stopped anywhere leaves nothing, and
nothing is deleted twice but the queue of `broken`. `FiltersOfConfig`: between
reloads the filter maps are those of the policies in force.

### ArpCache

One cache with its hash table (open addressing, `Probe`), the packet threads' look
up and request, the listener thread that takes in replies and saves the table now
and then, the file, and `forwarder_init`, which clears the table, loads the file
line by line and asks for the hosts of the policies, some tries each. Replies that
nobody asked for come too, also from the address 0, which marks a free entry.
A process may end in order or be killed at any step, also in the middle of a save,
and the next one starts with what is in the file, or with a part of it, as the load
ends at the first line it cannot read. A save may fail too: the file that `fopen`
truncated gets any part of the lines, and the ghost `lost` keeps the others. The
listener may not be there, as nobody looks at what `pthread_create` returns.

*Abstractions.* A look up or an insert is one step, as each holds the mutex. The file
is a set of lines, each there or not: a line that a failed write cuts inside its MAC
address would be read back as another address. A save may be due after any reply. `ifname`, `ifindex`, the
interface's own addresses and `last_seen`, which nothing reads, are left out.

*Properties.* `AnswersLatest`: a look up answers what was heard last of an address,
through collisions, the wrap of the probe and the address 0, or the table is full.
`CleanIsSaved`: what counts as saved is in the file, but for the lines that the last
save failed to write. `Resolves`: an address that
packets keep being sent to is found out, and `forwarder_init` gets past silent hosts.

## 4. Runs, bounds and fairness

| Run | Instance and why it is enough | States |
|---|---|---|
| `hot_reload` | a worker, a WAN thread, a flow that is TCP, policies up to 2, six configurations: the same policies in another order, another key under the same id, a policy without key, another count, none, another topology. Two threads are needed for one to be inside while the other knocks; every kind of reload follows every other. | 1,279,612 |
| `hot_reload_live` | a worker and a local queue thread, three configurations, the store buffer | 26,402 |
| `daemon` | three profiles of which two encrypt and one has another interface; two may be active, two notifications at once, everything may fail | 878,748 |
| `daemon_restart` | the same; a violation, section 6 | |
| `fragment` | one layer, 3 ids, 2 slots, so that two ids share one; 4 packets, so that ids wrap; one packet a tick, timeout and delay of a tick each: the fewest ids that `IdsSuffice` allows; one duplicate | 1,275,962 |
| `xsk` | the three kinds of queue threads, 3 frames, a worker ring of 2 entries (1 usable: it gets full), batches of 2, ring indices modulo 6 | 1,166,441 |
| `wan` | two profiles, one of them with several WANs, weights 3:1, none, and a list with a weight of 0 and one WAN listed twice, ten picks: more than two rounds; one flow, two threads, the collector; windows of 3 and 5 bytes, packets of 1 and 2, the byte counter modulo 8, the rotation counter up to 1, three seconds with a timeout of 1 | 436,853 |
| `config_merge` | three profiles with 2, 3 and 2 contents in every order and subset, 3 interfaces, 6 policies, 7 wire ids, a key table of 2, one change of the tables at any point | 462,644 |
| `tx` | a WAN's and a LAN's queue, two threads, two payloads, 4 frames and a ring of 4 (the tightest that is allowed), kicks at 2 | 189,184 |
| `tunnel` | two gateways, two WAN threads (symmetric); six packets: TCP and UDP of two LANs, one that must be split, one with a wrong data offset and a header in its bytes, one cut short, one reply with FIN; five configurations: layers 2, 3 and 4, another list of the same policies, counter mode, a zero key, none; two packets a gateway, so that two frames are under way at once, and one reload, before, between or after them | 430,017 |
| `bringup` | three interfaces, two topologies, one interface a LAN in one and a WAN in the other; configurations that differ in policies, in lists only, and in layer 2, and one without policies; two reloads, so that one may come before and one after the first write, and one take all policies away while the WANs are brought up and one bring them back; two processes; every failure, stop and kill | 1,374,248 |
| `arp` | three addresses, a table of two: it collides, wraps and gets full; a claim of the address 0; two stray replies, two in the socket, two tries, two processes | 102,542 |

`CHECK_DEADLOCK FALSE` stands where the model really stops: a bound on time,
packets or edits is reached, the daemon has ended, the build is done. `HotReload` and
`XskTx` are checked for deadlock.

Two runs have a constraint. `xsk` follows behaviours through the first overlap of two
releases until one of them has ended (`MCFirstOverlap`): its properties are about what
comes before an overlap, and about its cause, which the overlap itself shows. The
proofs have no such bound. `wan` follows
round robin or the flow table, not their product (`MCOneHalf`), since they share
nothing that changes.

Fairness.

- `HotReload`: weak fairness of each packet thread, of the main thread's reload
  steps and of the store buffer. The threads are runnable under the Linux
  scheduler and wait only by `sched_yield`; a store buffer drains. Arrivals of
  packets and the begin of reloads have none. That a thread gets in is claimed
  only if reloads end (`<>[]`).
- `Daemon`: weak fairness of the main thread, of the forwarder thread and of the
  handler's second store. Notifications and signals have none.
- `XskRx`: weak fairness of the queue thread and the worker; the kernel has none.
- `XskTx`: weak fairness of "some thread that has packets to send or a batch to end
  takes a step". Only `tx_lock` makes one wait, and its holder does not block.
- `ArpCache`: weak fairness of `forwarder_init` and of the listener, whose calls are
  bounded or wait for packets; strong fairness, for each address packets are sent
  to, of "a miss is asked and answered": packets keep coming and the network does
  not lose every answer. Kills, stray replies and the stop have none.

## 5. What is proved

For every value of the constants, from the assumptions named in the modules:

| Theorem | Module | Says |
|---|---|---|
| `TypeCorrect`, `CountCorrect` | `HotReload_proofs` | `[]TypeOK`, `[]InflightCounts` |
| `ExclusionCorrect`, `GuardCorrect` | `HotReload_proofs` | `[]ReloadExclusion` and `GuardSpec`, if `StoreLoadOrdered` |
| `RuntimeCorrect`, `PacketsCorrect` | `HotReload_proofs` | `[]RuntimeOfConfig` and `[]PacketsByPolicy`, if `StoreLoadOrdered` |
| `DaemonTypeCorrect`, `ProfilesServedCorrect`, `SlotsAndThreadsCorrect` | `Daemon_proofs` | `[]TypeOK`, `[]ProfilesServed`, `ForwarderUndisturbed` |
| `FragmentTypeCorrect`, `NoExtraDeliveryCorrect`, `HalvesMatchCorrect` | `Fragment_proofs` | `[]TypeOK`, `[]NoExtraDelivery`, and `[]HalvesMatch` if `IdsSuffice` |
| `FreshKeptCorrect` | `Fragment_proofs` | `FreshKept` |
| `TypeCorrect`, `HolderCorrect`, `WrittenCorrect` | `Xsk_proofs` | `[]TypeOK`, `[]OneHolder` and `[]WrittenUntilRace` of `XskRx` |
| `WrittenWithoutWorker` | `Xsk_proofs` | `[]Written` and no overlap, if no queue has a worker |
| `JamStays`, `FifoCorrect` | `Xsk_proofs` | `JammedForever`, `FifoSpec` |
| `TunnelTypeCorrect`, `IntactCorrect`, `RecoveredCorrect`, `PinsAgreeCorrect`, `LeavesCoveredCorrect` | `Tunnel_proofs` | `[]TypeOK` and `[]` of each invariant of `Tunnel`, and `LeavesCovered` |
| `WanTypesCorrect`, `IdleForgottenCorrect` | `Profiles_proofs` | `[]TypeOK` of `WanSelect`, `IdleForgotten` |
| `WindowsKeptCorrect` | `Profiles_proofs` | `WindowsKept`, if `NWan > 1` |
| `WeightedShareCorrect` | `Profiles_proofs` | `[]WeightedShare`, if `OneSpread`: one profile at most ever has several usable WANs |
| `BuildTypesCorrect`, `WireIdsCorrect` | `Profiles_proofs` | `[]BuildTypeOK`, `[]WireIdsAllocated` of `ConfigMerge` |
| `ProfilesFaithfulCorrect`, `RowIdsKeptCorrect` | `Profiles_proofs` | `[]ProfilesFaithful`, `[]RowIdsKept` |
| `ArpTypeCorrect`, `AnswersLatestCorrect`, `CleanIsSavedCorrect` | `ArpCache_proofs` | `[]TypeOK`, `[]AnswersLatest`, `[]CleanIsSaved` |
| `BringupTypeCorrect`, `NoDropsCorrect`, `RedirectedCorrect`, `NothingLeftCorrect`, `FiltersOfConfigCorrect` | `Bringup_proofs` | `[]` of `TypeOK` and of each safety property of `Bringup` |

- **HotReload, types and count.** `IInv` adds to types and count that a WAN thread
  about to decrypt has a context (`DecryptUse`), without which the type of the packet
  it leaves is not preserved. The count needs cardinality: a thread that moves across
  the border of `Counted` changes it by one (`CountMoves`), so `Threads` must be finite.
- **The gate.** `ReloadExclusion` is not inductive. `GInv` adds what the main thread
  knows at each of its steps: the gate is shut from the pause to the reopening
  (`GateShut`), and which slot is running, which is next and that they have one
  topology (`SlotsInUse`). A thread can only become inside by a second look at a
  flag that is down; when the drain ends the count is 0, so by `CountCorrect` no
  thread is inside; and while the gate is shut none comes in. The refinement
  follows from the same facts: a step of a thread enters or leaves, the swap is
  an `Exchange` with nobody inside, the ungated swap one of equal policies.
- **The runtime and the packets.** `RInv` is `RuntimeInv /\ PinsCurrent /\ PacketInv`.
  `RuntimeInv` says, index by index, what the rebuild has done up to `fill`: below it
  contexts, flags and the wire id index are the new configuration's, above it they
  are cleared. The wire id index is settled by the first policy that has the id.
  `PacketInv` says of each thread, at each of its steps, how its pointer, index and
  context relate to the configuration: they do as long as it is inside, and by
  exclusion no rebuild comes between. `PacketsByPolicy` is its consequence where a
  packet leaves.
- **Daemon.** No property holds in the middle of a load. `DInv` says what does,
  by the profiles that are *settled*, that is active without the one under way:
  `ThreadInv` relates them to the thread, `SlotInv` to the slots (the forwarder's
  slot is the active one, it has every settled profile, and the next slot is
  filled before the reload looks at it).
- **Fragment.** `FInv` bounds how many packets are split within a time
  (`ClockInv`, `RateInv`), how old halves under way are (`NetInv`), and says of an
  entry that it is in its slot, came in time, and has a first half more than was
  delivered of it (`TableInv`), which gives `NoExtraDelivery`. `SameIdSamePacket`
  then shows that two packets of one id that can meet would be more apart than
  the rate allows.
  `FreshKept` follows from `FInv` too: a slot whose half is fresh can only be
  cleared by a join, by `gc_thread` at its last step, or by another half of its slot,
  and each of these is one of the cases that the property names.
- **XskRx.** Types need that a queue thread begins each batch with nothing of the last
  (`Begins`). `IndexInv` says, while no two releases overlap, how far the one under
  way has moved the three indices of the fill ring, as distances modulo `Wrap`
  (`Distances`), and that what was submitted fits the ring. With `WorkerFree` it
  gives `Written` until the first overlap (`RaceInv`). `CauseInv` says what must come
  before one: a queue thread with a worker is not in a release unless it has dropped a
  packet, and the others have no worker to meet. `OneHolder` counts: `PlacesInv` says that some place
  has every frame and that all places together hold `RingSize` of them, so that none
  holds two or shares one; each step moves one frame from a place to another. TLC
  agrees with `HolderInv`.
- **XskTx.** `JamStays` needs that a thread goes to its kick only with packets
  pending (`KickHasPending`). For the FIFO, `RingInv` says that the frames in the
  ring are the last ones before `tx_slot`, in order: entry `i` is
  `Len(tx_ring) - i + 1` steps of the counter away (`Steps`). As the ring is no longer
  than the second half has frames (`TxRingSize <= Half`, which `config_validate`
  ensures), the frame a put writes is in no waiting descriptor.
- **ArpCache.** `AInv` is `TypeOK /\ Sound(table) /\ AnswersLatest /\ FileInv`. `Sound`
  says that every address lies where its own probe ends: no free entry and no copy
  of it comes before. The lemmas about `Place` show that an insert keeps that for
  every address, because entries are only ever filled, and that it changes no other
  address's answer. `FileInv` says which lines of the table are in the file, or lost, at each
  step of a load and of a save.
- **Bringup.** `BInv` is `TypeOK /\ PhaseInv /\ UpInv /\ MarkInv /\ UndoInv /\ KernelInv
  /\ FilterInv`: in which phase what is possible; what the interfaces that are up have,
  and the one in hand by its stage; that with a policy of layer 2 the next WAN will be
  marked, as long as no reload took all policies away (`MarkInv`, by which `Load` keeps
  `MarkFits`); what is still to be cleaned up and that all else is gone;
  which programs and sockets the kernel has; who writes the filter maps, how far, and
  that of two writers the one that finishes last writes the policies in force. TLC
  agrees with `BInv` on the instance of the run. The four properties follow from it
  without another step.

- **Tunnel.** `IInv` is `TypeInv /\ FakeInv /\ PinsAgree /\ JobInv`. `FakeInv` says that
  the marker of layer 2 is set where a policy needs it. `JobInv` says of each WAN
  thread, at each step, what its frame still is of the one it took (`StepAt`), and,
  if `Recovered` expects the packet, how far it has come (`WayAt`); both speak of the
  thread alone, so that other threads, a reload and the shared layer cannot break
  them except by what the step reads. `Intact` and `Recovered` are what they say at
  the end; `LeavesCovered` follows from the choice of a policy in one step.
- **WanSelect.** The loops over a profile's rows are folds and a recursive function.
  What they compute for every list is proved by induction on the number of rows that
  the loop has gone through: the set of those for which it holds has 0 and with each
  number the next (`Induction`, from the library's well-founded order of `Nat`), and the
  table by which a fold is defined exists (`FoldTableExists`). So the WANs that are
  left are usable (`AllowedFacts`), the sums of the weights grow
  (`SharesGrow`), the pick is the WAN whose interval of the round the counter falls
  into (`PickIs`), and of any `Round` successive numbers each WAN gets `Share`
  (`RoundShares`, a bijection between the numbers and its `Parts` of the round). `PickInv` says that the
  remembered picks are those of the counter's last values, which `OneSpread` makes
  true: without it another profile takes numbers between. `StayInv` says what a
  flow's entry counts of the bytes it sent; `SeenInv` and `DelayInv` bound how far an
  entry's time is behind. TLC agrees with all four on the instance of `wan`.
- **ConfigMerge.** The loops over rows and names are folds, proved with the same
  induction. `MergeTypeInv` says which lists are read at each query, so that every
  index is into one that is there; the merge only appends (`Grown`), so that the
  indices of profiles merged earlier stay valid. For wire ids, `Marked` says of the loop
  that no more ids are marked than there are policies, so that one is free as long as
  `MaxPolicies < MaxWire` (100 and 255 in the source), and that the table of keys has the
  keys seen so far, unless it is full; `WireIdInv` keeps this for the loaded and the
  merged policies. `FaithfulInv` says, while the tables did not change and no query was
  passed over, what of the profile's rows has been read (`Progress`) and that every profile
  merged so far is that of its rows (`Whole`). `RowIdInv` is about tables in which every row
  has its own key: then the ids of different profiles' rows differ, by the primary key, so
  that none is taken when its row is merged.

Only model-checked: liveness (`ReloadCompletes`, `PacketEnters`, `StopsEnd`, `Drained`,
`FramesReturn`, `Resolves`), which this proof system cannot do.

## 6. Where the code and its texts disagree

One run ends in a violation on purpose, of a property that a comment states:
`daemon_restart` / `LoadedIsServed`. `main.c:285`: "0 = loaded". After the last
profile was unloaded `running` stays 0, and `forwarder_init` (`forwarder.c:2264`)
returns when it is: a later load returns 0, and nothing is forwarded.

Other things seen while modelling. No text promises otherwise; where a property
would not hold because of one, it names it as its exception.

*Start, stop and reload.*

- `forwarder_init` publishes `fwd->cfg` (`forwarder.c:2268`) before it builds contexts
  and filters. A reload accepted between is overwritten by the older ones (`spoiled`),
  and a second one overwrites the slot that `forwarder_init` still reads.
- Each WAN is marked by what `crypto_enabled` and the slot say when its turn comes
  (`forwarder.c:2399`), not by what the first was marked by: a reload without policies
  in between leaves the others unmarked, also when the policies come back later. A
  failed update of `wan_config_map`, or none in the object, is only a warning
  (`interface.c:731-735`). Such a WAN leaves what the peer encrypts at layer 2 to the kernel.
- The same order lets `forwarder_init` set `crypto_enabled` (`forwarder.c:2279`) after an
  early reload did, from a slot that reload did not fill.
- `forwarder_run` chooses once whether its threads encrypt (`forwarder.c:2814`). A
  reload from no policies to some leaves packets in the clear, and what arrives wrapped.
- A reload that changes only the profiles' lists of policies uses no gate, clears no
  pins and writes no filters (`forwarder.c:2464`). One that brings in the first policy
  of layer 2 does not set `wan_config_map`, and none recomputes the WANs' windows.
- After a reload the LANs' networks are 0 (only `forwarder_init` fills them in), and
  `config_find_local_for_ip` (`config.c:192`) takes the first LAN for every address;
  packets for the others are dropped, as that LAN's cache does not have them.
- A stop in the window of `forwarder_run` is lost. An unload that fails leaves the
  forwarder serving a profile that is not active.
- When the attach to a LAN fails its queue is deleted twice (`interface.c:568` and
  `forwarder.c:2361`).
- What a killed process leaves attached has an empty map: the WANs' program drops
  IPv4 until the next `forwarder_init`.

*Encryption.*

- `g_encrypt_layer` (`packet_crypto.c:15`) is one plain variable: a thread that sets it
  between another one's setting and `packet_decrypt` (`:465`) has that one's packet
  returned unchanged, and dropped.
- The writer of layer 3 puts the protocol where the reader wants
  `CRYPTO_L3_TUNNEL_MAGIC` (`crypto_dispatch.c:70`), which no header defines: such
  packets are delivered wrapped. A layer 3 packet with a byte that looks like a
  fragment's leaves unencrypted (`crypto_layer3.c:91`).
- The context of a fragment of layer 3 or 4 is looked for by the magic of an unsplit
  packet (`forwarder.c:853-945`), so that with policies loaded it is dropped.
- The wire id for an inbound pin is read from a buffer that was decrypted in place
  (`forwarder.c:1886`).
- A half of layer 4 is recognised by its index, read at the nonce size of the thread's
  own (last) policy. Where the frame's policy has another nonce size the half may be
  taken for none, and is delivered still wrapped; `Intact` excepts it.
- A TCP or UDP packet whose header does not fit leaves in the clear whatever the
  policies say (`forwarder.c:2046`), while `xdp_redirect_prog` hands it over as soon as
  it holds the ports. One with a wrong data offset, as a later fragment of IP has by
  chance, leaves in the clear under a policy of layer 4 (`crypto_layer4.c:125`), and is
  dropped when it must be split.
- A policy with a zero key counts as not ready, and its packets leave in the clear.

*Queues, flows and addresses.*

- With a full worker ring the local queue thread releases (`forwarder.c:1425`) beside
  the worker (`forwarder.c:2255`), without a lock, against the rule of `xsk.h:136` that
  all is written before it is submitted. TLC, asked for `Written`, shows it: two packets
  arrive, the first fills the worker ring, the second is dropped; the queue thread
  reserves an entry; the worker takes its job and reserves the same one, as
  `cached_prod` is not yet moved; the queue thread writes and submits, while the
  worker's address is not in the entry yet. From there an entry is overwritten, or
  one submitted that nobody wrote, and a frame is lost or with the kernel twice.
- A WAN's full ring with nothing pending is not kicked again.
- One round robin counter serves all profiles (`flow_table.c:225`): packets of two
  profiles with two WANs each that alternate all take one WAN. `WeightedShare` is
  checked and proved where one profile at most has several.
- `get_next_wan` returns a negative WAN after `INT_MAX` flows, which its callers take
  for WAN 0.
- A save cut short by a kill leaves a truncated file (`wan_arp.c:126`), and a full
  table takes in no new address. A save whose `fprintf` or `fclose` fails
  (`wan_arp.c:133`, `:140`) counts as complete: the lines it lost are not written again
  until a reply dirties the cache.

## 7. Not modelled

- **What OpenSSL computes**, checksums, and the nonce counter (`packet_crypto.c:114`),
  which is one for the process and begins again whenever a context is initialised.
  No property is about nonces: the symbolic ciphers of `Tunnel` do not look at them.
  A model would need the counter, each thread's salt and the contexts a reload keeps.
- **Two senders to one receiver.** Their ids are independent and the table is keyed
  by the id alone, so that `HalvesMatch` cannot hold.
- **More queues than one per interface**, and `interface_init_wan`, `interface_recv`,
  `interface_send` and their batch forms, which nothing calls.
- **The layer a first half of layer 3 is taken for** (`fragment.c:190` guesses TCP):
  such halves never get that far.
- **Settings, printing, the test tools, SQL scripts, the `--check` mode**, parsing of
  addresses, ports and keys: input and output.
- **Vendored headers** of libbpf and libxdp, but for the ring operations in `XskRx`.

## 8. Plan

Done, in this order: `HotReload`, `Daemon`, `Fragment`, `XskRx`, `XskTx`, `WanSelect`,
`ConfigMerge`, `Tunnel`, `Bringup`, `ArpCache`, with their runs, and the proofs of every
safety property they check.

Next, to model: nonces, as above; `FiltersOfConfig` and the reload's
rejection in one composition of `Bringup` and `Daemon`, with the slot that the second
early reload overwrites.
