------------------------------- MODULE ArpCache -------------------------------
(***************************************************************************)
(* The ARP cache of one interface, core/wan_arp.c: a table of fixed size   *)
(* with open addressing, the listener thread that fills it from replies    *)
(* and writes it to a file now and then, the packet threads that look      *)
(* addresses up and ask for those they miss, and forwarder_init, which     *)
(* empties it, loads the file, starts a listener and asks for the hosts    *)
(* that policies name.                                                     *)
(*                                                                         *)
(* A process initialises a cache once: forwarder_init can succeed only in   *)
(* the first forwarder thread, later ones find running already 0.  When it  *)
(* fails further down, the listener goes on beside a forwarder that is not  *)
(* there.                                                                   *)
(*                                                                         *)
(* Data abstractions: a lookup and an insert are one step, as each holds   *)
(* the mutex; the file is a set of lines (its order only decides where an  *)
(* entry lies in the table), a line is a unit that is there or not, also   *)
(* where a failed write cut it in two; a save may be due after any reply;  *)
(* ifname, ifindex and the interface's own addresses are left out.         *)
(***************************************************************************)
EXTENDS Integers, Sequences, FiniteSets

CONSTANTS
  Ips,          \* addresses of hosts
  Wanted,       \* those that packets are sent to
  Macs,
  Answers,      \* what hosts answer: pairs of an address and a Mac
  Strays,       \* replies nobody asked for: also of the address Zero
  Zero,         \* the address 0, which marks a free entry
  NoMac,
  Size,         \* ARP_CACHE_SIZE
  Hash,         \* arp_hash, cut to the table's size
  Peers,        \* the hosts forwarder_init asks for, in the order of the policies
  MaxTries,     \* tries for each of them: 10
  MaxQueue,     \* replies a socket holds
  MaxUnasked,   \* bound: replies nobody asked for
  MaxProcesses  \* bound: processes one after the other

ASSUME ArpCacheAssumption ==
  /\ Size \in Nat \ {0}
  /\ Wanted \subseteq Ips /\ Zero \notin Ips /\ NoMac \notin Macs
  /\ Hash \in [Ips \union {Zero} -> 0 .. (Size - 1)]
  /\ Answers \subseteq Ips \X Macs
  /\ Strays \subseteq (Ips \union {Zero}) \X Macs
  /\ Peers \in Seq(Ips)
  /\ {MaxTries, MaxQueue, MaxUnasked, MaxProcesses} \subseteq Nat

VARIABLES
  table,      \* entries: [ip, mac], free when ip is Zero
  dirty,      \* persist_dirty
  file,       \* arp_<ifname>.txt: a set of claims
  raw_fd,     \* whether there is a socket
  queue,      \* replies in the socket
  listener,   \* the listener thread: where it is, and what it saves
  init,       \* forwarder_init: where it is, lines still to load, peer, tries
  running,    \* *running_flag
  processes,  \* how many processes there were
  unasked,    \* how many replies came that nobody asked for
  latest,     \* ghost: the answer taken in last for each address
  lost        \* ghost: the lines that the last save of this process printed
              \* and the file did not get

vars == <<table, dirty, file, raw_fd, queue, listener, init, running,
          processes, unasked, latest, lost>>

Slots == 0 .. (Size - 1)
Free == [ip |-> Zero, mac |-> NoMac]
Empty == [s \in Slots |-> Free]

-----------------------------------------------------------------------------
(* The table. *)

\* (h + i) & (ARP_CACHE_SIZE - 1)
Probe(ip, i) == IF Hash[ip] + i < Size THEN Hash[ip] + i ELSE Hash[ip] + i - Size

\* Where a probe for ip ends: the address itself, or the first free entry.
Stops(t, ip) == {i \in Slots : t[Probe(ip, i)].ip \in {Zero, ip}}
First(S) == CHOOSE i \in S : \A j \in S : i <= j
Place(t, ip) == Probe(ip, First(Stops(t, ip)))

\* arp_cache_lookup
Lookup(t, ip) ==
  IF Stops(t, ip) # {} /\ t[Place(t, ip)].ip = ip THEN t[Place(t, ip)].mac ELSE NoMac

\* Wrong variant, used by no action: a known address keeps its first answer.
InsertOnce(t, ip, mac) ==
  IF Stops(t, ip) = {} \/ t[Place(t, ip)].ip = ip THEN t
  ELSE [t EXCEPT ![Place(t, ip)] = [ip |-> ip, mac |-> mac]]

\* arp_cache_insert: a full table drops the answer.
Insert(t, ip, mac) ==
  IF Stops(t, ip) = {} THEN t
  ELSE [t EXCEPT ![Place(t, ip)] = [ip |-> ip, mac |-> mac]]

Inserts(ip, mac) ==
  /\ table' = Insert(table, ip, mac)
  /\ latest' = IF ip = Zero THEN latest ELSE [latest EXCEPT ![ip] = mac]
  /\ dirty' = (dirty \/ Stops(table, ip) # {})

Lines(t) == {<<t[s].ip, t[s].mac>> : s \in {u \in Slots : t[u].ip # Zero}}

-----------------------------------------------------------------------------
Idle == [at |-> "none", lines |-> {}, last |-> FALSE]
NotBegun == [at |-> "off", load |-> {}, peer |-> 1, tries |-> 0]

Init ==
  /\ table = Empty /\ dirty = FALSE /\ file = {}
  /\ raw_fd = FALSE /\ queue = <<>> /\ listener = Idle
  /\ init = NotBegun /\ running = TRUE
  /\ processes = 1 /\ unasked = 0 /\ latest = [ip \in Ips |-> NoMac] /\ lost = {}

At(where) == listener.at = where

-----------------------------------------------------------------------------
(* forwarder_init. *)

\* memset of the cache.
Clear ==
  /\ init.at = "off" /\ running
  /\ table' = Empty /\ dirty' = FALSE /\ raw_fd' = FALSE
  /\ init' = [NotBegun EXCEPT !.at = "open"]
  /\ UNCHANGED <<file, queue, listener, running, processes, unasked, latest, lost>>

\* The packet threads start, or a later interface fails and they do not.
GoesOn == \E at \in {"up", "failed"} : init' = [NotBegun EXCEPT !.at = at]

\* No address on the interface, or no socket.
OpenFails ==
  /\ init.at = "open"
  /\ GoesOn
  /\ UNCHANGED <<table, dirty, file, raw_fd, queue, listener, running,
                 processes, unasked, latest, lost>>

\* arp_cache_load ends at the first line it cannot read.
Open ==
  /\ init.at = "open"
  /\ raw_fd' = TRUE
  /\ \E read \in SUBSET file : init' = [init EXCEPT !.at = "load", !.load = read]
  /\ UNCHANGED <<table, dirty, file, queue, listener, running,
                 processes, unasked, latest, lost>>

LoadLine ==
  /\ init.at = "load"
  /\ \E line \in init.load :
       /\ Inserts(line[1], line[2])
       /\ init' = [init EXCEPT !.load = @ \ {line}]
  /\ UNCHANGED <<file, raw_fd, queue, listener, running,
                 processes, unasked, lost>>

\* persist_dirty = 0, then the listener is created; nobody looks whether it is.
Loaded ==
  /\ init.at = "load" /\ init.load = {}
  /\ dirty' = FALSE
  /\ listener' \in {[Idle EXCEPT !.at = "recv"], Idle}
  /\ init' = [init EXCEPT !.at = "resolve"]
  /\ UNCHANGED <<table, file, raw_fd, queue, running,
                 processes, unasked, latest, lost>>

\* A socket that is full drops replies.
Receive(claim) ==
  queue' = IF raw_fd /\ Len(queue) < MaxQueue THEN Append(queue, claim) ELSE queue

\* arp_send_request: without a socket nothing is sent; a host may answer.
Ask(ip) ==
  \/ UNCHANGED queue
  \/ raw_fd /\ \E claim \in Answers : claim[1] = ip /\ Receive(claim)

NextPeer == [init EXCEPT !.peer = @ + 1, !.tries = 0]

\* Wrong variant, used by no action: a host is asked until it answers.
AskOn == init

AskAgain ==
  IF init.tries + 1 < MaxTries THEN [init EXCEPT !.tries = @ + 1] ELSE NextPeer

\* log_peer_arp_resolved, for each peer of lan_arp_resolve_policy_hosts
Resolve ==
  /\ init.at = "resolve" /\ running /\ init.peer \in DOMAIN Peers
  /\ LET ip == Peers[init.peer] IN
       IF Lookup(table, ip) # NoMac
       THEN init' = NextPeer /\ UNCHANGED queue
       ELSE init' = AskAgain /\ Ask(ip)
  /\ UNCHANGED <<table, dirty, file, raw_fd, listener, running,
                 processes, unasked, latest, lost>>

Resolved ==
  /\ init.at = "resolve" /\ (~running \/ init.peer \notin DOMAIN Peers)
  /\ GoesOn
  /\ UNCHANGED <<table, dirty, file, raw_fd, queue, listener, running,
                 processes, unasked, latest, lost>>

-----------------------------------------------------------------------------
(* The packet threads and the network. *)

\* wan_rewrite_dest_mac, local_rewrite_dest_mac: a packet whose address is not
\* known is dropped, and its address asked for.
Miss(ip) ==
  /\ init.at = "up" /\ running
  /\ Lookup(table, ip) = NoMac
  /\ Ask(ip)
  /\ UNCHANGED <<table, dirty, file, raw_fd, listener, init, running,
                 processes, unasked, latest, lost>>

\* A reply nobody asked for, or one that comes late.
Unasked ==
  /\ unasked < MaxUnasked /\ unasked' = unasked + 1
  /\ \E claim \in Strays : Receive(claim)
  /\ UNCHANGED <<table, dirty, file, raw_fd, listener, init, running,
                 processes, latest, lost>>

-----------------------------------------------------------------------------
(* arp_listener_thread. *)

\* The loop looks at running; when it ends the cache is saved once more.
Again ==
  [listener EXCEPT !.lines = {}, !.at = IF running THEN "recv" ELSE "save",
                   !.last = ~running]

\* After the insert the thread saves, if the last save is two seconds ago.
Reply ==
  /\ At("recv") /\ queue # <<>>
  /\ queue' = Tail(queue)
  /\ LET claim == Head(queue) IN Inserts(claim[1], claim[2])
  /\ listener' \in {Again, [listener EXCEPT !.at = "save"]}
  /\ UNCHANGED <<file, raw_fd, init, running, processes, unasked, lost>>

\* The end of arp_cache_save: once more around, or the end of the thread.
Saved == listener' = IF listener.last THEN [Idle EXCEPT !.at = "done"] ELSE Again

\* Wrong variant, used by no action: the flag is cleared before fopen.
SaveSkipsClean ==
  /\ At("save") /\ Saved
  /\ dirty' = FALSE
  /\ UNCHANGED <<table, file, raw_fd, queue, init, running, processes, unasked, latest, lost>>

\* Nothing to save, or the file cannot be opened.
SaveSkips ==
  /\ At("save") /\ Saved
  /\ UNCHANGED <<table, dirty, file, raw_fd, queue, init, running,
                 processes, unasked, latest, lost>>

\* fopen truncates the file.
SaveOpens ==
  /\ At("save") /\ dirty
  /\ file' = {}
  /\ listener' = [listener EXCEPT !.at = "write"]
  /\ UNCHANGED <<table, dirty, raw_fd, queue, init, running, processes, unasked, latest, lost>>

\* The lines are printed and the flag cleared under the mutex.
SaveWrites ==
  /\ At("write")
  /\ listener' = [listener EXCEPT !.at = "close", !.lines = Lines(table)]
  /\ dirty' = FALSE
  /\ UNCHANGED <<table, file, raw_fd, queue, init, running, processes, unasked, latest, lost>>

\* fclose.  What it and fprintf return is not looked at: on a full disk, or after
\* an error, only some of the lines are in the file, and persist_dirty stays 0.
SaveCloses ==
  /\ At("close") /\ Saved
  /\ file' \in SUBSET listener.lines
  /\ lost' = listener.lines \ file'
  /\ UNCHANGED <<table, dirty, raw_fd, queue, init, running, processes, unasked, latest>>

-----------------------------------------------------------------------------
\* forwarder_stop
Stop ==
  /\ running /\ running' = FALSE
  /\ UNCHANGED <<table, dirty, file, raw_fd, queue, listener, init,
                 processes, unasked, latest, lost>>

\* The process ends, after a stop or not, and another one begins.  Of lines
\* that were printed some may have reached the file.
Restart ==
  /\ processes < MaxProcesses /\ processes' = processes + 1
  /\ \E part \in SUBSET listener.lines : file' = file \union part
  /\ table' = Empty /\ dirty' = FALSE
  /\ raw_fd' = FALSE /\ queue' = <<>> /\ listener' = Idle
  /\ init' = NotBegun /\ running' = TRUE
  /\ latest' = [ip \in Ips |-> NoMac] /\ lost' = {}
  /\ UNCHANGED unasked

Initialise == Open \/ OpenFails \/ LoadLine \/ Loaded \/ Resolve \/ Resolved

Listen == Reply \/ SaveSkips \/ SaveOpens \/ SaveWrites \/ SaveCloses

Next ==
  \/ Clear \/ Initialise \/ Listen \/ Unasked \/ Stop \/ Restart
  \/ \E ip \in Wanted : Miss(ip)

Spec == Init /\ [][Next]_vars

Answered(ip) == Miss(ip) /\ queue' # queue

\* The initialisation and the listener run.  Packets keep coming for some
\* addresses, and the network does not lose every answer.
FairSpec ==
  /\ Spec /\ WF_vars(Initialise) /\ WF_vars(Listen)
  /\ \A ip \in Wanted : SF_vars(Answered(ip))

-----------------------------------------------------------------------------
TypeOK ==
  /\ table \in [Slots -> [ip : Ips \union {Zero}, mac : Macs \union {NoMac}]]
  /\ dirty \in BOOLEAN
  /\ file \subseteq Ips \X Macs
  /\ raw_fd \in BOOLEAN
  /\ queue \in Seq(Answers \union Strays) /\ Len(queue) <= MaxQueue
  /\ listener \in [at : {"none", "recv", "save", "write", "close", "done"},
                   lines : SUBSET (Ips \X Macs), last : BOOLEAN]
  /\ init \in [at : {"off", "open", "load", "resolve", "up", "failed"},
               load : SUBSET (Ips \X Macs), peer : 1 .. Len(Peers) + 1, tries : Nat]
  /\ running \in BOOLEAN
  /\ processes \in Nat /\ unasked \in 0 .. MaxUnasked
  /\ latest \in [Ips -> Macs \union {NoMac}]
  /\ lost \subseteq Ips \X Macs

Full == \A s \in Slots : table[s].ip # Zero

(* The table answers with what was heard last, and forgets nothing while it *)
(* is kept: collisions, the wrap at its end and a claim of the address 0 do *)
(* not show in what a lookup says.  Only a full table does, by ignoring     *)
(* addresses it does not have (arp_cache_lookup and arp_cache_insert probe  *)
(* the same way, and nothing is ever removed).                              *)
AnswersLatest ==
  \A ip \in Ips : Lookup(table, ip) = latest[ip] \/ (Lookup(table, ip) = NoMac /\ Full)

Saving == listener.at \in {"write", "close"}

(* When persist_dirty is 0 and no save is under way, a crash loses nothing *)
(* that is known but the lines whose printing failed in the last save: a    *)
(* file that cannot be opened leaves the cache dirty, a save that follows a *)
(* reply writes that reply as well, and what is loaded is in the file       *)
(* (arp_cache_save returns before it clears the flag; arp_cache_load clears *)
(* it after the load).  A failed fprintf or fclose leaves the cache clean   *)
(* over a file that fopen truncated, and the lost lines stay lost until a   *)
(* reply dirties it again.                                                  *)
CleanIsSaved ==
  init.at \notin {"open", "load"} /\ ~dirty /\ ~Saving =>
    Lines(table) \subseteq file \union lost

(* An address that packets keep being sent to is found out in the end,      *)
(* unless the table is full, the forwarder stopped, or there is no socket   *)
(* or no listener (a miss asks again and again, and every reply is taken    *)
(* in); and forwarder_init gets past hosts that do not answer.              *)
Resolves ==
  /\ init.at = "resolve" ~> init.at # "resolve"
  /\ \A ip \in Wanted :
       <>[](\/ Lookup(table, ip) # NoMac \/ Full
            \/ ~running \/ ~raw_fd \/ At("none") \/ init.at # "up")

=============================================================================
