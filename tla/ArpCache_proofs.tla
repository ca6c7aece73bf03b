---------------------------- MODULE ArpCache_proofs ----------------------------
(***************************************************************************)
(* Proofs about ArpCache, for every table size, hash, number of addresses  *)
(* and sequence of replies, crashes and restarts: the open addressing      *)
(* answers with what was heard last, and a cache that counts as clean is   *)
(* in the file, up to what a failed save lost.                             *)
(***************************************************************************)
EXTENDS ArpCache, NaturalsInduction, WellFoundedInduction, TLAPS

Keys == Ips \union {Zero}
Tables == [Slots -> [ip : Keys, mac : Macs \union {NoMac}]]

\* Every address lies where a probe for it ends, so that it lies there only.
Sound(t) ==
  \A s \in Slots : t[s].ip # Zero => Place(t, t[s].ip) = s /\ t[s].mac \in Macs

-----------------------------------------------------------------------------
(* Probing *)

\* A probe visits entries of the table, and all of them.
LEMMA ProbeCovers ==
  ASSUME NEW ip \in Keys
  PROVE  /\ \A i \in Slots : Probe(ip, i) \in Slots
         /\ \A s \in Slots : \E i \in Slots : Probe(ip, i) = s
<1>1. /\ Size \in Nat /\ Size >= 1 /\ Slots = 0 .. (Size - 1)
      /\ Hash[ip] \in 0 .. (Size - 1)
  BY ArpCacheAssumption DEF Keys, Slots
<1> DEFINE h == Hash[ip]
<1>2. h \in Int /\ 0 <= h /\ h < Size
  BY <1>1
<1> HIDE DEF h
<1>3. \A i : Probe(ip, i) = IF h + i < Size THEN h + i ELSE h + i - Size
  BY DEF Probe, h
<1>4. ASSUME NEW i \in Slots PROVE Probe(ip, i) \in Slots
  BY <1>1, <1>2, <1>3
<1>5. ASSUME NEW s \in Slots PROVE \E i \in Slots : Probe(ip, i) = s
  <2>1. CASE h <= s
    <3>1. s - h \in Slots /\ Probe(ip, s - h) = s
      BY <1>1, <1>2, <1>3, <2>1
    <3> QED
      BY <3>1
  <2>2. CASE s < h
    <3>1. s + Size - h \in Slots /\ Probe(ip, s + Size - h) = s
      BY <1>1, <1>2, <1>3, <2>2
    <3> QED
      BY <3>1
  <2> QED
    BY <1>1, <1>2, <2>1, <2>2
<1> QED
  BY <1>4, <1>5

\* First returns the least member of a set of steps.
LEMMA FirstLeast ==
  ASSUME NEW S \in SUBSET Slots, S # {}
  PROVE  First(S) \in S /\ \A j \in S : First(S) <= j
<1>1. S \in SUBSET Nat
  BY DEF Slots
<1>2. PICK i \in S : \A j \in S : <<j, i>> \notin OpToRel(<, Nat)
  BY <1>1, WFMin, NatLessThanWellFounded
<1>3. \A j \in S : ~(j < i)
  BY <1>1, <1>2, Zenon DEF OpToRel
<1>4. \E k \in S : \A j \in S : k <= j
  BY <1>1, <1>3
<1> QED
  BY <1>4 DEF First

\* There is no other one.
LEMMA FirstUnique ==
  ASSUME NEW S \in SUBSET Slots, NEW i \in S, \A j \in S : i <= j
  PROVE  First(S) = i
<1>1. First(S) \in S /\ First(S) <= i /\ i <= First(S)
  BY FirstLeast
<1>2. Slots \subseteq Int
  BY DEF Slots
<1>3. First(S) \in Int /\ i \in Int
  BY <1>1, <1>2
<1> QED
  BY <1>1, <1>3

\* Where a probe ends there is the address or a free entry, and before it neither.
LEMMA PlaceStops ==
  ASSUME NEW t \in Tables, NEW ip \in Keys, Stops(t, ip) # {}
  PROVE  /\ Place(t, ip) \in Slots /\ t[Place(t, ip)].ip \in {Zero, ip}
         /\ First(Stops(t, ip)) \in Stops(t, ip)
         /\ \A j \in Stops(t, ip) : First(Stops(t, ip)) <= j
<1>1. Stops(t, ip) \in SUBSET Slots
  BY DEF Stops
<1>2. /\ First(Stops(t, ip)) \in Stops(t, ip)
      /\ \A j \in Stops(t, ip) : First(Stops(t, ip)) <= j
  BY <1>1, FirstLeast
<1>3. Place(t, ip) \in Slots /\ t[Place(t, ip)].ip \in {Zero, ip}
  BY <1>1, <1>2, ProbeCovers DEF Stops, Place
<1> QED
  BY <1>2, <1>3

\* A probe that does not end has seen the whole table.
LEMMA NoStops ==
  ASSUME NEW t \in Tables, NEW ip \in Keys
  PROVE  Stops(t, ip) = {} <=> \A s \in Slots : t[s].ip \notin {Zero, ip}
<1>1. /\ \A i \in Slots : Probe(ip, i) \in Slots
      /\ \A s \in Slots : \E i \in Slots : Probe(ip, i) = s
  BY ProbeCovers
<1>2. Stops(t, ip) = {} <=> \A i \in Slots : t[Probe(ip, i)].ip \notin {Zero, ip}
  BY DEF Stops
<1> HIDE DEF Probe
<1>3. ASSUME \A i \in Slots : t[Probe(ip, i)].ip \notin {Zero, ip}, NEW s \in Slots
      PROVE  t[s].ip \notin {Zero, ip}
  <2>1. PICK i \in Slots : Probe(ip, i) = s
    BY <1>1
  <2> QED
    BY <1>3, <2>1
<1> QED
  BY <1>1, <1>2, <1>3

\* What arp_cache_lookup says of a table.
LEMMA LookupFinds ==
  ASSUME NEW t \in Tables, Sound(t), NEW ip \in Ips
  PROVE  /\ \A s \in Slots : t[s].ip = ip => Lookup(t, ip) = t[s].mac
         /\ (\A s \in Slots : t[s].ip # ip) => Lookup(t, ip) = NoMac
<1>1. ip # Zero /\ ip \in Keys
  BY ArpCacheAssumption DEF Keys
<1>2. ASSUME NEW s \in Slots, t[s].ip = ip
      PROVE  Lookup(t, ip) = t[s].mac
  <2>1. Place(t, ip) = s
    BY <1>1, <1>2 DEF Sound
  <2>2. Stops(t, ip) # {}
    BY <1>1, <1>2, NoStops
  <2> QED
    BY <1>2, <2>1, <2>2 DEF Lookup
<1>3. ASSUME \A s \in Slots : t[s].ip # ip
      PROVE  Lookup(t, ip) = NoMac
  <2>1. Stops(t, ip) # {} => Place(t, ip) \in Slots
    BY <1>1, PlaceStops
  <2> QED
    BY <1>3, <2>1 DEF Lookup
<1> QED
  BY <1>2, <1>3

-----------------------------------------------------------------------------
(* Inserting *)

\* arp_cache_insert keeps the table sound: an entry that becomes taken lies on
\* no probe before the address it was taken for, and others still end where they
\* ended.
LEMMA InsertSound ==
  ASSUME NEW t \in Tables, Sound(t), NEW ip \in Keys, NEW mac \in Macs,
         Stops(t, ip) # {}, NEW u, u = Insert(t, ip, mac)
  PROVE  /\ u \in Tables /\ Sound(u)
         /\ Place(t, ip) \in Slots /\ t[Place(t, ip)].ip \in {Zero, ip}
         /\ u = [t EXCEPT ![Place(t, ip)] = [ip |-> ip, mac |-> mac]]
<1> DEFINE p == Place(t, ip)
<1>1. p \in Slots /\ t[p].ip \in {Zero, ip} /\ u = [t EXCEPT ![p] = [ip |-> ip, mac |-> mac]]
  BY PlaceStops DEF Insert
<1> HIDE DEF p
<1>2. u \in Tables
  BY <1>1 DEF Tables
<1>3. \A s \in Slots : u[s] = IF s = p THEN [ip |-> ip, mac |-> mac] ELSE t[s]
  BY <1>1 DEF Tables
<1>4. ASSUME NEW s \in Slots, u[s].ip # Zero
      PROVE  Place(u, u[s].ip) = s /\ u[s].mac \in Macs
  <2>1. CASE s = p
    <3>1. u[s].ip = ip /\ u[s].mac = mac
      BY <1>3, <2>1
    <3>2. \A i \in Slots : Probe(ip, i) \in Slots
      BY ProbeCovers
    <3>3. Stops(u, ip) = Stops(t, ip)
      BY <1>1, <1>3, <3>2 DEF Stops
    <3>4. Place(u, ip) = p
      BY <3>3 DEF Place, p
    <3> QED
      BY <2>1, <3>1, <3>4
  <2>2. CASE s # p
    <3> DEFINE x == u[s].ip
    <3>1. u[s] = t[s] /\ x # Zero /\ x \in Keys /\ x = t[s].ip
      BY <1>3, <1>4, <2>2 DEF Tables
    <3> HIDE DEF x
    <3>2. Place(t, x) = s /\ t[s].mac \in Macs
      BY <3>1 DEF Sound
    <3>3. x # ip
      BY <2>2, <3>2 DEF p
    <3>4. /\ First(Stops(t, x)) \in Stops(t, x)
          /\ \A j \in Stops(t, x) : First(Stops(t, x)) <= j
      <4>1. Stops(t, x) # {}
        BY <3>1, NoStops
      <4> QED
        BY <3>1, <4>1, PlaceStops
    <3>5. \A i \in Slots : Probe(x, i) \in Slots
      BY <3>1, ProbeCovers
    <3>6. Stops(u, x) \subseteq Stops(t, x)
      <4>1. ASSUME NEW i \in Stops(u, x) PROVE i \in Stops(t, x)
        <5>1. i \in Slots /\ u[Probe(x, i)].ip \in {Zero, x} /\ Probe(x, i) \in Slots
          BY <3>5 DEF Stops
        <5>2. t[Probe(x, i)].ip \in {Zero, x}
          BY <1>1, <1>3, <3>3, <5>1
        <5> QED
          BY <5>1, <5>2 DEF Stops
      <4> QED
        BY <4>1
    <3> DEFINE m == First(Stops(t, x))
    <3>7. Probe(x, m) = s
      BY <3>2 DEF Place
    <3>8. m \in Stops(u, x)
      BY <1>3, <2>2, <3>1, <3>4, <3>7 DEF Stops
    <3> HIDE DEF m
    <3>9. \A j \in Stops(u, x) : m <= j
      BY <3>4, <3>6 DEF m
    <3>10. First(Stops(u, x)) = m
      <4>1. Stops(u, x) \in SUBSET Slots
        BY DEF Stops
      <4> QED
        BY <3>8, <3>9, <4>1, FirstUnique
    <3> QED
      BY <3>1, <3>2, <3>7, <3>10 DEF Place, x
  <2> QED
    BY <2>1, <2>2
<1> QED
  BY <1>1, <1>2, <1>4 DEF Sound, p

\* After an insert a lookup of that address answers with it, others answer as
\* before; so a claim of the address 0 changes no answer.
LEMMA InsertAnswers ==
  ASSUME NEW t \in Tables, Sound(t), NEW ip \in Keys, NEW mac \in Macs,
         Stops(t, ip) # {}, NEW x \in Ips
  PROVE  Lookup(Insert(t, ip, mac), x) = IF x = ip THEN mac ELSE Lookup(t, x)
<1> DEFINE u == Insert(t, ip, mac)
           p == Place(t, ip)
<1>1. /\ u \in Tables /\ Sound(u) /\ p \in Slots /\ t[p].ip \in {Zero, ip}
      /\ u = [t EXCEPT ![p] = [ip |-> ip, mac |-> mac]]
  BY InsertSound
<1> HIDE DEF u, p
<1>2. \A s \in Slots : u[s] = IF s = p THEN [ip |-> ip, mac |-> mac] ELSE t[s]
  BY <1>1 DEF Tables
<1>3. x # Zero
  BY ArpCacheAssumption
<1>4. CASE x = ip
  <2>1. u[p].ip = x /\ u[p].mac = mac
    BY <1>1, <1>2, <1>4
  <2>2. Lookup(u, x) = mac
    BY <1>1, <2>1, LookupFinds
  <2> QED
    BY <1>4, <2>2 DEF u
<1>5. CASE x # ip
  <2>1. \A s \in Slots : u[s].ip = x <=> t[s].ip = x
    BY <1>1, <1>2, <1>3, <1>5
  <2>2. \A s \in Slots : t[s].ip = x => u[s].mac = t[s].mac
    BY <1>1, <1>2, <1>3, <1>5
  <2>3. Lookup(u, x) = Lookup(t, x)
    <3>1. CASE \E s \in Slots : t[s].ip = x
      <4>1. PICK s \in Slots : t[s].ip = x
        BY <3>1
      <4>2. Lookup(t, x) = t[s].mac
        BY <4>1, LookupFinds
      <4>3. Lookup(u, x) = u[s].mac
        BY <1>1, <2>1, <4>1, LookupFinds
      <4> QED
        BY <2>2, <4>1, <4>2, <4>3
    <3>2. CASE \A s \in Slots : t[s].ip # x
      <4>1. Lookup(t, x) = NoMac
        BY <3>2, LookupFinds
      <4>2. Lookup(u, x) = NoMac
        BY <1>1, <2>1, <3>2, LookupFinds
      <4> QED
        BY <4>1, <4>2
    <3> QED
      BY <3>1, <3>2
  <2> QED
    BY <1>5, <2>3 DEF u
<1> QED
  BY <1>4, <1>5

FullTable(t) == \A s \in Slots : t[s].ip # Zero

\* An insert adds at most its own line, and nothing makes a full table less full.
LEMMA InsertLines ==
  ASSUME NEW t \in Tables, Sound(t), NEW ip \in Keys, NEW mac \in Macs,
         Stops(t, ip) # {}, NEW u, u = Insert(t, ip, mac)
  PROVE  /\ Lines(u) \subseteq Lines(t) \union {<<ip, mac>>}
         /\ FullTable(t) => FullTable(u)
<1>1. PICK p \in Slots : t[p].ip \in {Zero, ip} /\ u = [t EXCEPT ![p] = [ip |-> ip, mac |-> mac]]
  BY InsertSound
<1>2. \A s \in Slots : u[s] = IF s = p THEN [ip |-> ip, mac |-> mac] ELSE t[s]
  BY <1>1 DEF Tables
<1> QED
  BY <1>1, <1>2 DEF Lines, FullTable

\* The lines of a sound table are addresses with their answers.
LEMMA LinesType ==
  ASSUME NEW t \in Tables, Sound(t)
  PROVE  Lines(t) \subseteq Ips \X Macs
BY DEF Lines, Sound, Tables, Keys

\* The empty table is sound, answers nothing, and has no lines.
LEMMA EmptyTable ==
  /\ Empty \in Tables /\ Sound(Empty) /\ Lines(Empty) = {}
  /\ \A ip \in Ips : Lookup(Empty, ip) = NoMac
<1>1. Empty \in Tables /\ Sound(Empty)
  BY DEF Empty, Free, Tables, Keys, Sound
<1>2. Lines(Empty) = {}
  BY DEF Empty, Free, Lines
<1>3. \A ip \in Ips : Lookup(Empty, ip) = NoMac
  BY <1>1, ArpCacheAssumption, LookupFinds DEF Empty, Free
<1> QED
  BY <1>1, <1>2, <1>3

-----------------------------------------------------------------------------
(* The invariant *)

\* Before the file is read the cache is empty, while it is read nobody saves, and
\* what a save is about to leave in the file is the whole cache.
FileInv ==
  /\ init.at \in {"off", "open"} => table = Empty
  /\ init.at \in {"off", "open", "load"} => listener = Idle
  /\ init.at = "load" => Lines(table) \subseteq file /\ init.load \subseteq file
  /\ listener.at = "close" => listener.lines = Lines(table)
  /\ CleanIsSaved

AInv == TypeOK /\ Sound(table) /\ AnswersLatest /\ FileInv

\* What arp_cache_insert does to the cache, to persist_dirty and to what a
\* lookup answers.
LEMMA InsertsKeeps ==
  ASSUME TypeOK, Sound(table), AnswersLatest,
         NEW claim \in Keys \X Macs, Inserts(claim[1], claim[2])
  PROVE  /\ table' \in Tables /\ Sound(table') /\ AnswersLatest'
         /\ dirty' \in BOOLEAN /\ latest' \in [Ips -> Macs \union {NoMac}]
         /\ Lines(table') \subseteq Lines(table) \union {claim}
         /\ dirty' \/ (~dirty /\ table' = table)
<1> DEFINE ip == claim[1]
           mac == claim[2]
<1>1. /\ ip \in Keys /\ mac \in Macs /\ claim = <<ip, mac>>
      /\ table \in Tables /\ dirty \in BOOLEAN /\ latest \in [Ips -> Macs \union {NoMac}]
  BY DEF TypeOK, Tables, Keys
<1>2. /\ table' = Insert(table, ip, mac)
      /\ latest' = IF ip = Zero THEN latest ELSE [latest EXCEPT ![ip] = mac]
      /\ dirty' = (dirty \/ Stops(table, ip) # {})
  BY DEF Inserts
<1> HIDE DEF ip, mac
<1>3. ip # Zero => ip \in Ips
  BY <1>1 DEF Keys
<1>4. latest' \in [Ips -> Macs \union {NoMac}] /\ dirty' \in BOOLEAN
  BY <1>1, <1>2, <1>3
<1>5. \A x \in Ips : latest'[x] = IF x = ip THEN mac ELSE latest[x]
  BY <1>1, <1>2, <1>3, ArpCacheAssumption
<1>6. CASE Stops(table, ip) = {}
  <2>1. table' = table /\ (dirty' <=> dirty)
    BY <1>1, <1>2, <1>6 DEF Insert
  <2>2. \A s \in Slots : table[s].ip # Zero /\ table[s].ip # ip
    BY <1>1, <1>6, NoStops
  <2>3. Full' /\ (ip \in Ips => Lookup(table, ip) = NoMac)
    BY <1>1, <2>1, <2>2, LookupFinds DEF Full
  <2>4. ASSUME NEW x \in Ips
        PROVE  Lookup(table', x) = latest'[x] \/ (Lookup(table', x) = NoMac /\ Full')
    BY <1>5, <2>1, <2>3 DEF AnswersLatest
  <2>5. AnswersLatest'
    BY <2>4 DEF AnswersLatest
  <2> QED
    BY <1>1, <1>4, <2>1, <2>5
<1>7. CASE Stops(table, ip) # {}
  <2>1. dirty'
    BY <1>2, <1>7
  <2>2. table' \in Tables /\ Sound(table')
    BY <1>1, <1>2, <1>7, InsertSound
  <2>3. Lines(table') \subseteq Lines(table) \union {claim} /\ (Full => Full')
    BY <1>1, <1>2, <1>7, InsertLines DEF Full, FullTable
  <2>4. ASSUME NEW x \in Ips
        PROVE  Lookup(table', x) = latest'[x] \/ (Lookup(table', x) = NoMac /\ Full')
    <3>1. Lookup(table', x) = IF x = ip THEN mac ELSE Lookup(table, x)
      BY <1>1, <1>2, <1>7, InsertAnswers
    <3> QED
      BY <1>5, <2>3, <3>1 DEF AnswersLatest
  <2>5. AnswersLatest'
    BY <2>4 DEF AnswersLatest
  <2> QED
    BY <1>4, <2>1, <2>2, <2>3, <2>5
<1> QED
  BY <1>6, <1>7

\* A cache that is left alone keeps its answers.
LEMMA TableStays ==
  ASSUME Sound(table), AnswersLatest, UNCHANGED <<table, latest>>
  PROVE  Sound(table') /\ AnswersLatest'
<1>1. Full' = Full
  BY DEF Full
<1> QED
  BY <1>1 DEF AnswersLatest

\* Steps that touch neither the cache nor the file nor the listener.
LEMMA QuietStep ==
  ASSUME AInv, UNCHANGED <<table, latest, file, dirty, listener, lost>>,
         \/ UNCHANGED init
         \/ init.at = "resolve" /\ init'.at \in {"resolve", "up", "failed"}
  PROVE  Sound(table') /\ AnswersLatest' /\ FileInv'
<1>1. Sound(table') /\ AnswersLatest'
  BY TableStays DEF AInv
<1>2. CleanIsSaved'
  BY DEF AInv, FileInv, CleanIsSaved, Saving
<1>3. FileInv'
  BY <1>2 DEF AInv, FileInv
<1> QED
  BY <1>1, <1>3

\* The socket holds replies, and not too many.
LEMMA ReceiveType ==
  ASSUME TypeOK, NEW claim \in Answers \union Strays, Receive(claim)
  PROVE  queue' \in Seq(Answers \union Strays) /\ Len(queue') <= MaxQueue
<1>1. MaxQueue \in Nat
  BY ArpCacheAssumption
<1> QED
  BY <1>1 DEF TypeOK, Receive

LEMMA AskType ==
  ASSUME TypeOK, NEW ip, Ask(ip)
  PROVE  queue' \in Seq(Answers \union Strays) /\ Len(queue') <= MaxQueue
<1>1. CASE UNCHANGED queue
  BY <1>1 DEF TypeOK
<1>2. CASE \E claim \in Answers : Receive(claim)
  BY <1>2, ReceiveType
<1> QED
  BY <1>1, <1>2 DEF Ask

\* What forwarder_init keeps of its progress, and its value between interfaces.
InitRecords ==
  [at : {"off", "open", "load", "resolve", "up", "failed"},
   load : SUBSET (Ips \X Macs), peer : 1 .. Len(Peers) + 1, tries : Nat]

LEMMA NotBegunType ==
  /\ NotBegun \in InitRecords
  /\ \A at \in {"off", "open", "load", "resolve", "up", "failed"} :
       [NotBegun EXCEPT !.at = at] \in InitRecords
<1>1. Len(Peers) \in Nat
  BY ArpCacheAssumption
<1>2. 1 \in 1 .. Len(Peers) + 1
  BY <1>1
<1> QED
  BY <1>2 DEF NotBegun, InitRecords

-----------------------------------------------------------------------------
(* The steps *)

\* forwarder_init empties the cache, loads the file into it and asks for peers.
LEMMA InitialiseKeeps ==
  ASSUME AInv, Clear \/ Initialise
  PROVE  AInv'
<1>0. TypeOK /\ Sound(table) /\ AnswersLatest /\ FileInv
  BY DEF AInv
<1>1. CASE Clear
  <2>1. table' = table /\ UNCHANGED <<latest, file, listener, lost>>
    BY <1>0, <1>1 DEF Clear, FileInv
  <2>2. Sound(table') /\ AnswersLatest'
    BY <1>0, <2>1, TableStays
  <2>3. init.at = "off" /\ init' = [NotBegun EXCEPT !.at = "open"] /\ ~dirty' /\ ~raw_fd'
    BY <1>1 DEF Clear
  <2>4. TypeOK'
    <3>1. init' \in InitRecords
      BY <2>3, NotBegunType
    <3> QED
      BY <1>0, <1>1, <2>1, <2>3, <3>1 DEF TypeOK, Clear, InitRecords
  <2>5. FileInv'
    BY <1>0, <2>1, <2>3 DEF FileInv, CleanIsSaved, NotBegun, Idle
  <2> QED
    BY <2>2, <2>4, <2>5 DEF AInv
<1>2. CASE OpenFails
  <2>1. UNCHANGED <<table, latest, file, dirty, listener, lost>> /\ table = Empty /\ listener = Idle
    BY <1>0, <1>2 DEF OpenFails, FileInv
  <2>2. PICK at \in {"up", "failed"} : init' = [NotBegun EXCEPT !.at = at]
    BY <1>2 DEF OpenFails, GoesOn
  <2>3. Sound(table') /\ AnswersLatest'
    BY <1>0, <2>1, TableStays
  <2>4. TypeOK'
    <3>1. init' \in InitRecords
      BY <2>2, NotBegunType
    <3> QED
      BY <1>0, <1>2, <2>1, <2>2, <3>1 DEF TypeOK, OpenFails, InitRecords
  <2>5. FileInv'
    BY <1>0, <2>1, <2>2, EmptyTable DEF FileInv, CleanIsSaved, NotBegun, Idle
  <2> QED
    BY <2>3, <2>4, <2>5 DEF AInv
<1>3. CASE Open
  <2>1. UNCHANGED <<table, latest, file, dirty, listener, lost>> /\ table = Empty /\ listener = Idle
    BY <1>0, <1>3 DEF Open, FileInv
  <2>2. PICK read \in SUBSET file : init' = [init EXCEPT !.at = "load", !.load = read]
    BY <1>3 DEF Open
  <2>3. init'.at = "load" /\ init'.load = read
    BY <1>0, <2>2 DEF TypeOK
  <2>4. Sound(table') /\ AnswersLatest'
    BY <1>0, <2>1, TableStays
  <2>5. TypeOK'
    BY <1>0, <1>3, <2>1, <2>2 DEF TypeOK, Open
  <2>6. FileInv'
    BY <1>0, <2>1, <2>3, EmptyTable DEF FileInv, CleanIsSaved, Idle
  <2> QED
    BY <2>4, <2>5, <2>6 DEF AInv
<1>4. CASE LoadLine
  <2>1. PICK line \in init.load : /\ Inserts(line[1], line[2])
                                  /\ init' = [init EXCEPT !.load = @ \ {line}]
    BY <1>4 DEF LoadLine
  <2>2. line \in Keys \X Macs /\ line \in file
    BY <1>0, <1>4 DEF LoadLine, TypeOK, FileInv, Keys
  <2>3. /\ table' \in Tables /\ Sound(table') /\ AnswersLatest'
        /\ dirty' \in BOOLEAN /\ latest' \in [Ips -> Macs \union {NoMac}]
        /\ Lines(table') \subseteq Lines(table) \union {line}
    BY <1>0, <2>1, <2>2, InsertsKeeps
  <2>4. init.at = "load" /\ init'.at = "load" /\ init'.load \subseteq init.load
    BY <1>0, <1>4, <2>1 DEF LoadLine, TypeOK
  <2>5. TypeOK'
    BY <1>0, <1>4, <2>1, <2>3 DEF TypeOK, LoadLine, Tables, Keys
  <2>6. FileInv'
    BY <1>0, <1>4, <2>2, <2>3, <2>4 DEF FileInv, LoadLine, CleanIsSaved, Idle
  <2> QED
    BY <2>3, <2>5, <2>6 DEF AInv
<1>5. CASE Loaded
  <2>1. /\ UNCHANGED <<table, latest, file, lost>> /\ ~dirty'
        /\ listener' \in {[Idle EXCEPT !.at = "recv"], Idle}
    BY <1>5 DEF Loaded
  <2>2. init.at = "load" /\ init'.at = "resolve" /\ init' = [init EXCEPT !.at = "resolve"]
    BY <1>0, <1>5 DEF Loaded, TypeOK
  <2>3. Sound(table') /\ AnswersLatest'
    BY <1>0, <2>1, TableStays
  <2>4. TypeOK'
    <3>1. listener' \in [at : {"none", "recv", "save", "write", "close", "done"},
                         lines : SUBSET (Ips \X Macs), last : BOOLEAN]
      <4>1. Idle = [at |-> "none", lines |-> {}, last |-> FALSE]
        BY DEF Idle
      <4>2. CASE listener' = Idle
        BY <4>1, <4>2
      <4>3. CASE listener' = [Idle EXCEPT !.at = "recv"]
        <5>1. listener' = [at |-> "recv", lines |-> {}, last |-> FALSE]
          BY <4>1, <4>3
        <5> QED
          BY <5>1
      <4> QED
        BY <2>1, <4>2, <4>3
    <3>2. init' \in InitRecords
      BY <1>0, <2>2 DEF TypeOK, InitRecords
    <3>3. UNCHANGED <<raw_fd, queue, running, processes, unasked>> /\ dirty' \in BOOLEAN
      BY <1>5 DEF Loaded
    <3> QED
      BY <1>0, <2>1, <3>1, <3>2, <3>3 DEF TypeOK, InitRecords
  <2>5. FileInv'
    BY <1>0, <2>1, <2>2 DEF FileInv, CleanIsSaved, Idle
  <2> QED
    BY <2>3, <2>4, <2>5 DEF AInv
<1>6. CASE Resolve
  <2>1. PICK ip \in Ips : \/ init' = NextPeer /\ UNCHANGED queue
                          \/ init' = AskAgain /\ Ask(ip)
    <3>1. Peers[init.peer] \in Ips
      BY <1>6, ArpCacheAssumption DEF Resolve
    <3> QED
      BY <1>6, <3>1 DEF Resolve
  <2>2. queue' \in Seq(Answers \union Strays) /\ Len(queue') <= MaxQueue
    BY <1>0, <2>1, AskType DEF TypeOK
  <2>3. init.peer + 1 \in 1 .. Len(Peers) + 1
    <3>1. init.peer \in 1 .. Len(Peers) /\ Len(Peers) \in Nat
      BY <1>6, ArpCacheAssumption DEF Resolve
    <3> QED
      BY <3>1
  <2>4. init'.at = "resolve" /\ init.at = "resolve" /\
        init' \in InitRecords
    <3>1. init \in InitRecords /\ init.at = "resolve" /\ init.tries + 1 \in Nat
      BY <1>0, <1>6 DEF Resolve, TypeOK, InitRecords
    <3>2. NextPeer \in InitRecords /\ NextPeer.at = "resolve"
      BY <2>3, <3>1 DEF NextPeer, InitRecords
    <3>3. AskAgain \in InitRecords /\ AskAgain.at = "resolve"
      BY <3>1, <3>2 DEF AskAgain, InitRecords
    <3> QED
      BY <2>1, <3>1, <3>2, <3>3
  <2>5. TypeOK'
    BY <1>0, <1>6, <2>2, <2>4 DEF TypeOK, Resolve, InitRecords
  <2>6. Sound(table') /\ AnswersLatest' /\ FileInv'
    BY <1>6, <2>4, QuietStep DEF Resolve
  <2> QED
    BY <2>5, <2>6 DEF AInv
<1>7. CASE Resolved
  <2>1. PICK at \in {"up", "failed"} : init' = [NotBegun EXCEPT !.at = at]
    BY <1>7 DEF Resolved, GoesOn
  <2>2. init'.at \in {"up", "failed"}
    BY <2>1 DEF NotBegun
  <2>3. TypeOK'
    <3>1. init' \in InitRecords
      BY <2>1, NotBegunType
    <3> QED
      BY <1>0, <1>7, <3>1 DEF TypeOK, Resolved, InitRecords
  <2>4. Sound(table') /\ AnswersLatest' /\ FileInv'
    BY <1>7, <2>2, QuietStep DEF Resolved
  <2> QED
    BY <2>3, <2>4 DEF AInv
<1> QED
  BY <1>1, <1>2, <1>3, <1>4, <1>5, <1>6, <1>7 DEF Initialise

\* The listener inserts, and saves step by step.
LEMMA ListenKeeps ==
  ASSUME AInv, Listen
  PROVE  AInv'
<1>0. /\ TypeOK /\ Sound(table) /\ AnswersLatest /\ FileInv
      /\ table \in Tables
  BY DEF AInv, TypeOK, Tables, Keys
<1>1. /\ Again \in [at : {"none", "recv", "save", "write", "close", "done"},
                    lines : SUBSET (Ips \X Macs), last : BOOLEAN]
      /\ Again.at \in {"recv", "save"}
  BY <1>0 DEF Again, TypeOK
<1>2. ASSUME Saved
      PROVE  /\ listener' \in [at : {"none", "recv", "save", "write", "close", "done"},
                               lines : SUBSET (Ips \X Macs), last : BOOLEAN]
             /\ listener'.at \in {"recv", "save", "done"}
  BY <1>1, <1>2 DEF Saved, Idle
<1>3. listener.at # "none" => init.at \notin {"off", "open", "load"}
  BY <1>0 DEF FileInv, Idle
<1>4. CASE Reply
  <2>1. Head(queue) \in Answers \union Strays
    BY <1>0, <1>4 DEF Reply, TypeOK
  <2>2. Head(queue) \in Keys \X Macs
    BY <2>1, ArpCacheAssumption DEF Keys
  <2>3. /\ table' \in Tables /\ Sound(table') /\ AnswersLatest'
        /\ dirty' \in BOOLEAN /\ latest' \in [Ips -> Macs \union {NoMac}]
        /\ dirty' \/ (~dirty /\ table' = table)
    BY <1>0, <1>4, <2>2, InsertsKeeps DEF Reply
  <2>4. queue' \in Seq(Answers \union Strays) /\ Len(queue') <= MaxQueue
    <3>1. MaxQueue \in Nat /\ queue \in Seq(Answers \union Strays) /\ Len(queue) <= MaxQueue
      BY <1>0, ArpCacheAssumption DEF TypeOK
    <3>2. queue' = Tail(queue) /\ queue # <<>>
      BY <1>4 DEF Reply
    <3> QED
      BY <3>1, <3>2
  <2>5. /\ listener' \in [at : {"none", "recv", "save", "write", "close", "done"},
                          lines : SUBSET (Ips \X Macs), last : BOOLEAN]
        /\ listener'.at \in {"recv", "save"}
    BY <1>0, <1>1, <1>4 DEF Reply, TypeOK
  <2>6. TypeOK'
    BY <1>0, <1>4, <2>3, <2>4, <2>5 DEF TypeOK, Reply, Tables, Keys
  <2>7. listener.at = "recv" /\ UNCHANGED <<init, file, lost>>
    BY <1>4 DEF Reply, At
  <2>8. FileInv'
    BY <1>0, <1>3, <2>3, <2>5, <2>7 DEF FileInv, CleanIsSaved, Saving
  <2> QED
    BY <2>3, <2>6, <2>8 DEF AInv
<1>5. CASE SaveSkips
  <2>1. listener.at = "save" /\ Saved /\ UNCHANGED <<table, latest, dirty, file, init, lost>>
    BY <1>5 DEF SaveSkips, At
  <2>2. Sound(table') /\ AnswersLatest'
    BY <1>0, <2>1, TableStays
  <2>3. TypeOK'
    BY <1>0, <1>2, <1>5, <2>1 DEF TypeOK, SaveSkips
  <2>4. FileInv'
    BY <1>0, <1>2, <1>3, <2>1 DEF FileInv, CleanIsSaved, Saving
  <2> QED
    BY <2>2, <2>3, <2>4 DEF AInv
<1>6. CASE SaveOpens
  <2>1. /\ listener.at = "save" /\ listener' = [listener EXCEPT !.at = "write"]
        /\ listener'.at = "write" /\ file' = {} /\ UNCHANGED <<table, latest, dirty, init>>
    BY <1>0, <1>6 DEF SaveOpens, At, TypeOK
  <2>2. Sound(table') /\ AnswersLatest'
    BY <1>0, <2>1, TableStays
  <2>3. TypeOK'
    BY <1>0, <1>6, <2>1 DEF TypeOK, SaveOpens
  <2>4. FileInv'
    BY <1>0, <1>3, <2>1 DEF FileInv, CleanIsSaved, Saving
  <2> QED
    BY <2>2, <2>3, <2>4 DEF AInv
<1>7. CASE SaveWrites
  <2>1. /\ listener.at = "write" /\ listener' = [listener EXCEPT !.at = "close", !.lines = Lines(table)]
        /\ listener'.at = "close" /\ listener'.lines = Lines(table)
        /\ ~dirty' /\ UNCHANGED <<table, latest, file, init, lost>>
    BY <1>0, <1>7 DEF SaveWrites, At, TypeOK
  <2>2. Sound(table') /\ AnswersLatest'
    BY <1>0, <2>1, TableStays
  <2>3. Lines(table) \subseteq Ips \X Macs
    BY <1>0, LinesType
  <2>4. TypeOK'
    BY <1>0, <1>7, <2>1, <2>3 DEF TypeOK, SaveWrites
  <2>5. FileInv'
    BY <1>0, <1>3, <2>1 DEF FileInv, CleanIsSaved, Saving
  <2> QED
    BY <2>2, <2>4, <2>5 DEF AInv
<1>8. CASE SaveCloses
  <2>1. /\ listener.at = "close" /\ Saved
        /\ file' \in SUBSET listener.lines /\ lost' = listener.lines \ file'
        /\ UNCHANGED <<table, latest, dirty, init>>
    BY <1>8 DEF SaveCloses, At
  <2>2. Sound(table') /\ AnswersLatest'
    BY <1>0, <2>1, TableStays
  <2>3. TypeOK'
    BY <1>0, <1>2, <1>8, <2>1 DEF TypeOK, SaveCloses
  <2>4. FileInv'
    BY <1>0, <1>2, <1>3, <2>1 DEF FileInv, CleanIsSaved, Saving
  <2> QED
    BY <2>2, <2>3, <2>4 DEF AInv
<1> QED
  BY <1>4, <1>5, <1>6, <1>7, <1>8 DEF Listen

\* What happens around the cache: misses, replies, the stop, and the next process,
\* which finds some of the lines in the file and nothing in memory.
LEMMA OthersKeep ==
  ASSUME AInv, Unasked \/ Stop \/ Restart \/ \E ip \in Wanted : Miss(ip)
  PROVE  AInv'
<1>0. TypeOK /\ Sound(table) /\ AnswersLatest /\ FileInv
  BY DEF AInv
<1>1. CASE Unasked
  <2>1. queue' \in Seq(Answers \union Strays) /\ Len(queue') <= MaxQueue
    BY <1>0, <1>1, ReceiveType DEF Unasked
  <2>2. unasked' \in 0 .. MaxUnasked
    BY <1>0, <1>1, ArpCacheAssumption DEF Unasked, TypeOK
  <2>3. TypeOK'
    BY <1>0, <1>1, <2>1, <2>2 DEF TypeOK, Unasked
  <2>4. Sound(table') /\ AnswersLatest' /\ FileInv'
    BY <1>1, QuietStep DEF Unasked
  <2> QED
    BY <2>3, <2>4 DEF AInv
<1>2. CASE Stop
  <2>1. TypeOK'
    BY <1>0, <1>2 DEF TypeOK, Stop
  <2>2. Sound(table') /\ AnswersLatest' /\ FileInv'
    BY <1>2, QuietStep DEF Stop
  <2> QED
    BY <2>1, <2>2 DEF AInv
<1>3. ASSUME NEW ip \in Wanted, Miss(ip)
      PROVE  AInv'
  <2>1. queue' \in Seq(Answers \union Strays) /\ Len(queue') <= MaxQueue
    BY <1>0, <1>3, AskType DEF Miss
  <2>2. TypeOK'
    BY <1>0, <1>3, <2>1 DEF TypeOK, Miss
  <2>3. Sound(table') /\ AnswersLatest' /\ FileInv'
    BY <1>3, QuietStep DEF Miss
  <2> QED
    BY <2>2, <2>3 DEF AInv
<1>4. CASE Restart
  <2>1. PICK part \in SUBSET listener.lines : file' = file \union part
    BY <1>4 DEF Restart
  <2>2. file' \subseteq Ips \X Macs
    BY <1>0, <2>1 DEF TypeOK
  <2>3. /\ table' = Empty /\ latest' = [ip \in Ips |-> NoMac] /\ init' = NotBegun
        /\ listener' = Idle /\ queue' = <<>>
    BY <1>4 DEF Restart
  <2>4. Sound(table') /\ AnswersLatest'
    BY <2>3, EmptyTable DEF AnswersLatest
  <2>5. TypeOK'
    <3>1. init' \in InitRecords
      BY <2>3, NotBegunType
    <3>2. queue' \in Seq(Answers \union Strays) /\ Len(queue') <= MaxQueue /\ lost' = {}
      BY <1>4, <2>3, ArpCacheAssumption DEF Restart
    <3>3. table' \in Tables
      BY <2>3, EmptyTable
    <3>4. /\ processes' \in Nat /\ unasked' \in 0 .. MaxUnasked
          /\ dirty' \in BOOLEAN /\ raw_fd' \in BOOLEAN /\ running' \in BOOLEAN
      <4>1. processes' \in Nat /\ unasked' \in 0 .. MaxUnasked
        BY <1>0, <1>4 DEF Restart, TypeOK
      <4>2. dirty' = FALSE /\ raw_fd' = FALSE /\ running' = TRUE
        BY <1>4 DEF Restart
      <4> QED
        BY <4>1, <4>2
    <3>5. /\ listener' \in [at : {"none", "recv", "save", "write", "close", "done"},
                            lines : SUBSET (Ips \X Macs), last : BOOLEAN]
          /\ latest' \in [Ips -> Macs \union {NoMac}]
      BY <2>3 DEF Idle
    <3> QED
      BY <2>2, <3>1, <3>2, <3>3, <3>4, <3>5 DEF TypeOK, InitRecords, Tables, Keys
  <2>6. FileInv'
    BY <2>3, EmptyTable DEF FileInv, CleanIsSaved, NotBegun, Idle
  <2> QED
    BY <2>4, <2>5, <2>6 DEF AInv
<1> QED
  BY <1>1, <1>2, <1>3, <1>4

-----------------------------------------------------------------------------
(* The theorems *)

\* The first process finds no file and an empty cache.
LEMMA InitAInv == Init => AInv
<1> SUFFICES ASSUME Init PROVE AInv
  OBVIOUS
<1>1. TypeOK
  <2>1. init \in InitRecords
    BY NotBegunType DEF Init
  <2>2. queue \in Seq(Answers \union Strays) /\ Len(queue) <= MaxQueue /\ 0 \in 0 .. MaxUnasked
    BY ArpCacheAssumption DEF Init
  <2>3. table \in Tables
    BY EmptyTable DEF Init
  <2> QED
    BY <2>1, <2>2, <2>3 DEF Init, TypeOK, InitRecords, Idle, Tables, Keys
<1>2. Sound(table) /\ AnswersLatest
  BY EmptyTable DEF Init, AnswersLatest
<1>3. FileInv
  BY EmptyTable DEF Init, FileInv, CleanIsSaved, NotBegun, Idle
<1> QED
  BY <1>1, <1>2, <1>3 DEF AInv

\* AInv is inductive.
LEMMA AlwaysAInv == Spec => []AInv
<1>1. ASSUME AInv, UNCHANGED vars PROVE AInv'
  <2>1. TypeOK'
    BY <1>1 DEF AInv, TypeOK, vars
  <2>2. Sound(table') /\ AnswersLatest' /\ FileInv'
    BY <1>1, QuietStep DEF vars
  <2> QED
    BY <2>1, <2>2 DEF AInv
<1>2. AInv /\ [Next]_vars => AInv'
  BY <1>1, InitialiseKeeps, ListenKeeps, OthersKeep DEF Next
<1> QED
  BY <1>2, InitAInv, PTL DEF Spec

\* The variables of the cache keep their types: above all no probe leaves the
\* table, whatever address a reply claims.
THEOREM ArpTypeCorrect == Spec => []TypeOK
<1>1. AInv => TypeOK
  BY DEF AInv
<1> QED
  BY <1>1, AlwaysAInv, PTL

\* For every size, hash and sequence of replies, arp_cache_lookup answers with
\* what was heard last of an address, or the table is full and never had it.
THEOREM AnswersLatestCorrect == Spec => []AnswersLatest
<1>1. AInv => AnswersLatest
  BY DEF AInv
<1> QED
  BY <1>1, AlwaysAInv, PTL

\* When persist_dirty is 0 and no save is under way, all that is known is in the
\* file but for what the last arp_cache_save printed in vain, through every order
\* of replies, saves that succeed or fail, crashes and restarts.
THEOREM CleanIsSavedCorrect == Spec => []CleanIsSaved
<1>1. AInv => CleanIsSaved
  BY DEF AInv, FileInv
<1> QED
  BY <1>1, AlwaysAInv, PTL

=============================================================================
