---------------------------- MODULE Bringup_proofs -----------------------------
(***************************************************************************)
(* Proofs about Bringup, for all interfaces, topologies, configurations    *)
(* and failures: what is attached has a socket, a bring-up that failed and *)
(* a forwarder that ended leave nothing, and the filter maps are those of  *)
(* the policies in force.                                                  *)
(***************************************************************************)
EXTENDS Bringup, SequenceTheorems, TLAPS

-----------------------------------------------------------------------------
(* The order of the bring-up *)

\* LANs come first, and no interface comes twice.
LEMMA OrderFacts ==
  ASSUME topo \in Topologies
  PROVE  /\ Order \in Seq(Ifaces) /\ Len(topo.lans) \in Nat /\ Len(Order) \in Nat
         /\ Len(topo.lans) <= Len(Order)
         /\ \A j, k \in 1 .. Len(Order) : Order[j] = Order[k] => j = k
         /\ \A j \in 1 .. Len(Order) : IsLan(Order[j]) <=> j <= Len(topo.lans)
<1> DEFINE lans == topo.lans
           wans == topo.wans
<1>1. lans \in Seq(Ifaces) /\ wans \in Seq(Ifaces) /\ IsInjective(lans \o wans)
  BY BringupAssumption
<1>2. Order = lans \o wans /\ \A i : IsLan(i) <=> i \in Range(lans)
  BY DEF Order, IsLan
<1>3. Len(topo.lans) = Len(lans)
  OBVIOUS
<1> HIDE DEF lans, wans
<1>4. Len(lans) \in Nat /\ Len(wans) \in Nat /\ DOMAIN lans = 1 .. Len(lans)
  BY <1>1
<1>5. /\ Order \in Seq(Ifaces)
      /\ Len(Order) = Len(lans) + Len(wans)
      /\ \A j \in 1 .. Len(lans) + Len(wans) :
           Order[j] = IF j <= Len(lans) THEN lans[j] ELSE wans[j - Len(lans)]
  BY <1>1, <1>2, ConcatProperties
<1>6. DOMAIN Order = 1 .. Len(Order)
  BY <1>5
<1>7. \A j, k \in 1 .. Len(Order) : Order[j] = Order[k] => j = k
  BY <1>1, <1>2, <1>6 DEF IsInjective
<1>8. ASSUME NEW j \in 1 .. Len(Order)
      PROVE  IsLan(Order[j]) <=> j <= Len(lans)
  <2>0. j \in Nat /\ 1 <= j /\ j \in 1 .. Len(lans) + Len(wans)
    BY <1>4, <1>5
  <2>1. ASSUME j <= Len(lans) PROVE IsLan(Order[j])
    <3>1. j \in DOMAIN lans /\ Order[j] = lans[j]
      BY <1>4, <1>5, <2>0, <2>1
    <3> QED
      BY <1>2, <3>1 DEF Range
  <2>2. ASSUME IsLan(Order[j]) PROVE j <= Len(lans)
    <3>1. PICK k \in DOMAIN lans : lans[k] = Order[j]
      BY <1>2, <2>2 DEF Range
    <3>2. k \in 1 .. Len(lans) /\ k \in 1 .. Len(Order) /\ Order[k] = Order[j]
      BY <1>4, <1>5, <3>1
    <3>3. k = j
      BY <1>7, <3>2
    <3> QED
      BY <1>4, <3>2, <3>3
  <2> QED
    BY <2>1, <2>2
<1>9. Len(Order) \in Nat /\ Len(lans) <= Len(Order)
  BY <1>4, <1>5
<1> QED
  BY <1>3, <1>4, <1>5, <1>7, <1>8, <1>9

\* The interfaces that are up.
Up == {Order[j] : j \in 1 .. n}

\* err_wans and err_locals clean up these, each once.
LEMMA AreUpFacts ==
  ASSUME topo \in Topologies, n \in 0 .. Len(Order)
  PROVE  AreUp \in Seq(Named) /\ Range(AreUp) = Up
<1> DEFINE lans == Len(topo.lans)
           m == IF n < lans THEN n ELSE lans
           first == SubSeq(Order, lans + 1, n)
           second == SubSeq(Order, 1, m)
<1>1. /\ Order \in Seq(Ifaces) /\ lans \in Nat /\ Len(Order) \in Nat /\ lans <= Len(Order)
      /\ n \in Nat /\ n <= Len(Order)
  BY OrderFacts
<1>2. \A j \in 1 .. Len(Order) : Order[j] \in Named
  BY <1>1 DEF Named, Range
<1> HIDE DEF lans
<1>3. /\ m \in Nat /\ m <= n /\ m <= lans /\ (m = n \/ m = lans)
  BY <1>1
<1> HIDE DEF m
<1>4. /\ first \in Seq(Named)
      /\ Len(first) = IF lans + 1 <= n THEN n - lans ELSE 0
      /\ \A j \in 1 .. n - lans : first[j] = Order[lans + j]
  <2>1. \A i \in (lans + 1) .. n : Order[i] \in Named
    BY <1>1, <1>2
  <2>2. lans + 1 \in Int /\ n \in Int
    BY <1>1
  <2>3. /\ first \in Seq(Named)
        /\ Len(first) = IF lans + 1 <= n THEN n - (lans + 1) + 1 ELSE 0
        /\ \A i \in 1 .. n - (lans + 1) + 1 : first[i] = Order[lans + 1 + i - 1]
    BY <2>1, <2>2, SubSeqProperties
  <2> QED
    BY <1>1, <2>3
<1>5. /\ second \in Seq(Named) /\ Len(second) = m
      /\ \A j \in 1 .. m : second[j] = Order[j]
  <2>1. \A i \in 1 .. m : Order[i] \in Named
    BY <1>1, <1>2, <1>3
  <2>2. /\ second \in Seq(Named)
        /\ Len(second) = IF 1 <= m THEN m - 1 + 1 ELSE 0
        /\ \A i \in 1 .. m - 1 + 1 : second[i] = Order[1 + i - 1]
    BY <1>3, <2>1, SubSeqProperties
  <2> QED
    BY <1>3, <2>2
<1> HIDE DEF first, second
<1>6. AreUp = first \o second
  BY DEF AreUp, first, second, m, lans
<1>7. /\ AreUp \in Seq(Named)
      /\ Len(AreUp) = Len(first) + m
      /\ \A j \in 1 .. Len(first) + m :
           AreUp[j] = IF j <= Len(first) THEN first[j] ELSE second[j - Len(first)]
  BY <1>4, <1>5, <1>6, ConcatProperties
<1>8. \A x \in Range(AreUp) : x \in Up
  <2> SUFFICES ASSUME NEW j \in 1 .. Len(first) + m PROVE AreUp[j] \in Up
    BY <1>7 DEF Range
  <2>1. CASE j <= Len(first)
    <3>1. lans + 1 <= n /\ j \in 1 .. n - lans /\ AreUp[j] = Order[lans + j]
      BY <1>1, <1>3, <1>4, <1>7, <2>1
    <3> QED
      BY <1>1, <3>1 DEF Up
  <2>2. CASE ~(j <= Len(first))
    <3>1. j - Len(first) \in 1 .. m /\ AreUp[j] = Order[j - Len(first)]
      BY <1>1, <1>3, <1>4, <1>5, <1>7, <2>2
    <3> QED
      BY <1>1, <1>3, <3>1 DEF Up
  <2> QED
    BY <2>1, <2>2
<1>9. ASSUME NEW j \in 1 .. n PROVE Order[j] \in Range(AreUp)
  <2>1. CASE j <= m
    <3>1. j + Len(first) \in 1 .. Len(first) + m /\ AreUp[j + Len(first)] = Order[j]
      BY <1>1, <1>3, <1>4, <1>5, <1>7, <2>1
    <3> QED
      BY <1>7, <3>1 DEF Range
  <2>2. CASE ~(j <= m)
    <3>1. /\ j - lans \in 1 .. n - lans /\ j - lans <= Len(first)
          /\ j - lans \in 1 .. Len(first) + m
      BY <1>1, <1>3, <1>4, <2>2
    <3>2. AreUp[j - lans] = Order[j]
      BY <1>1, <1>4, <1>7, <3>1
    <3> QED
      BY <1>7, <3>1, <3>2 DEF Range
  <2> QED
    BY <2>1, <2>2
<1> QED
  BY <1>7, <1>8, <1>9 DEF Up

-----------------------------------------------------------------------------
(* The invariant *)

Working == {"none", "conf", "up", "push", "arp", "run"}

\* Where the forwarder thread can be.
PhaseInv ==
  /\ at \in {"none", "conf"} => n = 0 /\ stage = "check"
  /\ at = "none" => cfg = None
  /\ at = "up" => /\ stage \in {"check", "load", "bufs", "umem", "xsk", "map", "attach"}
                  /\ stage # "check" => n < Len(Order)
  /\ at \in {"push", "arp", "run"} => stage = "check" /\ n >= Len(topo.lans)
  /\ at = "run" => n = Len(Order)
  /\ at = "undo" => stage \in {"detach", "delete"}
  /\ at = "undo" /\ stage = "delete" => todo # <<>>
  /\ at # "undo" => todo = <<>>

\* The interface that is being brought up, once its object is open.
InHand == IF at = "up" /\ stage \notin {"check", "load"} THEN {Current} ELSE {}

\* Whether a WAN's object is marked, after its load.
MarkFits(i) ==
  /\ i \in marked => l2
  /\ l2 /\ i \notin unset /\ ~plain => i \in marked

Program(i) == [by |-> processes, role |-> IF IsLan(i) THEN "lan" ELSE "wan"]

\* What interfaces that are up have, and the one in hand: nobody else has any.
UpInv ==
  at \in Working =>
    /\ \A i \in Up : i \in mapped /\ prog[i] = Program(i) /\ (IsLan(i) \/ MarkFits(i))
    /\ \A i \in Ifaces : prog[i].by = processes => i \in Up
    /\ \A i \in InHand : IsLan(i) \/ MarkFits(i)
    /\ \A i \in mapped : i \in Up \/ (at = "up" /\ stage = "attach" /\ i = Current)
    /\ at = "up" /\ stage = "attach" => Current \in mapped /\ Of(Current) \subseteq held
    /\ \A p \in held : p[1] \in Up \/ (at = "up" /\ stage = "attach" /\ p[1] = Current)
    /\ held \subseteq live
    /\ \A p \in live : (p[1] \in Up /\ p \in held) \/ p[1] \in InHand
    /\ at = "up" /\ stage \in {"umem", "xsk", "map"} => <<Current, "bufs">> \in live
    /\ at = "up" /\ stage \in {"xsk", "map"} => <<Current, "umem">> \in live
    /\ at = "up" /\ stage = "map" => <<Current, "xsk">> \in live
    /\ broken = {} /\ twice = {}

\* With a layer 2 policy, WANs are marked until a reload takes all policies away.
MarkInv == BringingUp /\ l2 /\ ~plain => enabled /\ slot0.enabled

\* What is left lies on interfaces still to be cleaned up, which know of it.
UndoInv ==
  /\ at \in {"undo", "end"} =>
       /\ \A i \in Ifaces : prog[i].by = processes => i \in Range(todo) /\ i \in mapped
       /\ mapped \subseteq Range(todo)
       /\ \A p \in live : p[1] \in Range(todo) /\ p \in held
       /\ \A p \in held \ live : p[1] \in broken \/ p[1] \notin Range(todo)
       /\ at = "undo" /\ stage = "delete" => prog[Head(todo)].by # processes
  /\ twice # {} => \E i \in broken : twice \subseteq Of(i)
  /\ \A i, j \in broken : i = j

\* Programs of an earlier process.
KernelInv == \A i \in Named : Orphan(i) => cfg = None

Good(i) == filters[i] \in Configs /\ ~Changed(filters[i], cfg)

\* Where a writer of filters is.
Writing(who) ==
  IF push[who].next = 0 THEN \A k \in DOMAIN bundles : Good(bundles[k])
  ELSE /\ push[who].with \in Configs /\ ~Changed(push[who].with, cfg)
       /\ \A k \in DOMAIN bundles : k < push[who].next => Good(bundles[k])

\* forwarder_init writes before main does, unless filters are spoiled.
FilterInv ==
  /\ at = "none" => push = NoPush
  /\ at = "conf" => bundles = <<>>
  /\ at = "conf" \/ (at = "up" /\ n < Len(topo.lans)) =>
       push["init"].next = 0 /\ (spoiled \/ (push["main"].next = 0 /\ ~Changed(slot0, cfg)))
  /\ at = "push" => spoiled \/ (push["main"].next = 0 /\ Writing("init"))
  /\ at \in {"arp", "run"} \/ (at = "up" /\ n >= Len(topo.lans)) =>
       push["init"].next = 0 /\ (spoiled \/ Writing("main"))

BInv == TypeOK /\ PhaseInv /\ UpInv /\ MarkInv /\ UndoInv /\ KernelInv /\ FilterInv

\* What does not change, or changes only with the topology.
LEMMA SameOrder ==
  ASSUME topo' = topo
  PROVE  /\ Order' = Order /\ Named' = Named
         /\ \A i : IsLan(i)' <=> IsLan(i)
         /\ n' = n => Up' = Up
<1>1. Order' = Order
  BY DEF Order
<1> QED
  BY <1>1 DEF Named, IsLan, Up

\* The next interface is another one than those that are up.
LEMMA CurrentFacts ==
  ASSUME TypeOK, n < Len(Order)
  PROVE  /\ Current \in Named /\ Current \in Ifaces /\ Current \notin Up
         /\ IsLan(Current) <=> n < Len(topo.lans)
         /\ n \in Nat /\ n + 1 \in 0 .. Len(Order)
         /\ {Order[j] : j \in 1 .. (n + 1)} = Up \union {Current}
<1>1. /\ topo \in Topologies /\ n \in 0 .. Len(Order) /\ n < Len(Order)
      /\ Order \in Seq(Ifaces) /\ Len(Order) \in Nat /\ Len(topo.lans) \in Nat
  BY OrderFacts DEF TypeOK
<1>2. n \in Nat /\ n + 1 \in 1 .. Len(Order) /\ n + 1 \in 0 .. Len(Order)
  BY <1>1
<1>3. Current = Order[n + 1] /\ Current \in Ifaces /\ Current \in Named
  BY <1>1, <1>2 DEF Current, Named, Range
<1>4. Current \notin Up
  <2> SUFFICES ASSUME NEW j \in 1 .. n PROVE Order[j] # Order[n + 1]
    BY <1>3 DEF Up
  <2>1. j \in 1 .. Len(Order) /\ j # n + 1
    BY <1>1, <1>2
  <2> QED
    BY <1>1, <1>2, <2>1, OrderFacts
<1>5. IsLan(Current) <=> n < Len(topo.lans)
  <2>1. IsLan(Current) <=> n + 1 <= Len(topo.lans)
    BY <1>1, <1>2, <1>3, OrderFacts
  <2> QED
    BY <1>1, <1>2, <2>1
<1>6. \A j : j \in 1 .. (n + 1) <=> j \in 1 .. n \/ j = n + 1
  BY <1>2
<1>7. {Order[j] : j \in 1 .. (n + 1)} = Up \union {Current}
  BY <1>3, <1>6 DEF Up
<1> QED
  BY <1>2, <1>3, <1>4, <1>5, <1>7

\* What an error path cleans up.
LEMMA UndoFacts ==
  ASSUME TypeOK, NEW first \in Seq(Named), Undo(first)
  PROVE  /\ at' = "undo" /\ stage' = "detach"
         /\ todo' \in Seq(Named) /\ Range(todo') = Range(first) \union Up
<1>1. AreUp \in Seq(Named) /\ Range(AreUp) = Up
  BY AreUpFacts DEF TypeOK
<1>2. todo' = first \o AreUp
  BY DEF Undo
<1>3. todo' \in Seq(Named) /\ Range(todo') = Range(first) \union Range(AreUp)
  BY <1>1, <1>2, RangeConcatenation
<1> QED
  BY <1>1, <1>3 DEF Undo

LEMMA FailFacts ==
  ASSUME TypeOK, n < Len(Order), Fails
  PROVE  /\ at' = "undo" /\ stage' = "detach" /\ todo' \in Seq(Named)
         /\ Range(todo') = IF IsLan(Current) THEN Up \union {Current} ELSE Up
<1> DEFINE first == IF IsLan(Current) THEN <<Current>> ELSE <<>>
<1>1. Current \in Named
  BY CurrentFacts
<1>2. /\ first \in Seq(Named)
      /\ Range(first) = IF IsLan(Current) THEN {Current} ELSE {}
  <2>1. Range(<<Current>>) = {Current}
    BY DEF Range
  <2>2. Range(<<>>) = {}
    BY DEF Range
  <2>3. CASE IsLan(Current)
    BY <1>1, <2>1, <2>3
  <2>4. CASE ~IsLan(Current)
    BY <2>2, <2>4
  <2> QED
    BY <2>3, <2>4
<1>3. Undo(first)
  BY DEF Fails
<1> HIDE DEF first
<1> QED
  BY <1>2, <1>3, UndoFacts

-----------------------------------------------------------------------------
(* Types *)

LEMMA BringUpTypes ==
  ASSUME TypeOK, PhaseInv, BringUp
  PROVE  TypeOK'
<1>1. topo' = topo /\ Order' = Order /\ Named' = Named
  <2>1. topo' = topo
    BY DEF BringUp, Begin, Configure, ConfigureFails, BeginNot, StopsHere, GoesOn, LoadFails, Load, QueueFails,
           Allocate, MapSocket, Attach, AttachFails, Pushed, ArpDone, Run, fixed
  <2> QED
    BY <2>1, SameOrder
<1>2. /\ NoProg \in [by : 0 .. processes, role : {"none", "lan", "wan"}]
      /\ \A S : Detached(S) \in [Ifaces -> [by : 0 .. processes, role : {"none", "lan", "wan"}]]
  BY DEF TypeOK, NoProg, Detached
<1>3. n < Len(Order) => /\ Current \in Named /\ Of(Current) \subseteq Named \X Kinds
                        /\ n + 1 \in 0 .. Len(Order)
  BY CurrentFacts DEF Of
<1>4. \A s : AtIface(s) => n < Len(Order)
  BY DEF AtIface
<1>5. CASE Begin
  <2>1. bundles' \in Seq(Named) /\ Len(bundles') <= MaxBundles
    BY <1>5, BringupAssumption DEF Begin
  <2> QED
    BY <1>1, <1>2, <1>5, <2>1 DEF TypeOK, Begin, resources, marks
<1>17. CASE Configure \/ ConfigureFails
  <2>1. enabled' \in BOOLEAN /\ l2' \in BOOLEAN
    BY <1>17, BringupAssumption DEF Configure, ConfigureFails, TypeOK
  <2>2. at' \in {"up", "end"}
    BY <1>17 DEF Configure, ConfigureFails
  <2>3. UNCHANGED <<topo, slot0, cfg, stage, n, todo, resources, writing, kernel, stop,
                    reloads, processes, broken, plain>>
    BY <1>17 DEF Configure, ConfigureFails
  <2> QED
    BY <1>1, <2>1, <2>2, <2>3 DEF TypeOK, resources, writing, kernel, marks
<1>6. CASE BeginNot
  BY <1>1, <1>6 DEF TypeOK, BeginNot, fixed, resources, writing, kernel, marks
<1>7. CASE StopsHere
  <2>1. Undo(<<>>)
    BY <1>7 DEF StopsHere
  <2>2. todo' \in Seq(Named) /\ at' = "undo" /\ stage' = "detach"
    <3>1. <<>> \in Seq(Named)
      OBVIOUS
    <3> QED
      BY <2>1, <3>1, UndoFacts
  <2> QED
    BY <1>1, <1>7, <2>2 DEF TypeOK, StopsHere, fixed, resources, writing, kernel, marks
<1>8. CASE GoesOn
  BY <1>1, <1>8 DEF TypeOK, GoesOn, fixed, resources, writing, kernel, marks
<1>9. CASE LoadFails
  <2>1. todo' \in Seq(Named) /\ at' = "undo" /\ stage' = "detach"
    BY <1>4, <1>9, FailFacts DEF LoadFails
  <2> QED
    BY <1>1, <1>2, <1>9, <2>1 DEF TypeOK, LoadFails, fixed, resources, writing, marks
<1>10. CASE Load
  <2>1. bundles' \in Seq(Named) /\ Len(bundles') <= MaxBundles
    <3>1. /\ Current \in Named /\ bundles \in Seq(Named) /\ Len(bundles) <= MaxBundles
          /\ MaxBundles \in Nat /\ bundles' = Registered(Current)
      BY <1>3, <1>4, <1>10, BringupAssumption DEF TypeOK, Load
    <3>2. CASE IsLan(Current) /\ Len(bundles) < MaxBundles
      <4>1. bundles' = Append(bundles, Current)
        BY <3>1, <3>2 DEF Registered
      <4> QED
        BY <3>1, <3>2, <4>1
    <3>3. CASE ~(IsLan(Current) /\ Len(bundles) < MaxBundles)
      BY <3>1, <3>3 DEF Registered
    <3> QED
      BY <3>2, <3>3
  <2>2. marked' \subseteq Ifaces /\ unset' \subseteq Ifaces
    <3>1. Current \in Ifaces
      BY <1>4, <1>10, CurrentFacts DEF Load
    <3> QED
      BY <1>10, <3>1 DEF Load, TypeOK
  <2> QED
    BY <1>1, <1>2, <1>3, <1>4, <1>10, <2>1, <2>2 DEF TypeOK, Load, fixed
<1>11. CASE QueueFails
  <2>1. todo' \in Seq(Named) /\ at' = "undo" /\ stage' = "detach"
    BY <1>4, <1>11, FailFacts DEF QueueFails
  <2> QED
    BY <1>1, <1>2, <1>11, <2>1 DEF TypeOK, QueueFails, fixed, writing, marks
<1>12. ASSUME NEW kind \in Kinds, NEW next \in {"umem", "xsk", "map"}, Allocate(kind, next)
       PROVE  TypeOK'
  BY <1>1, <1>3, <1>4, <1>12 DEF TypeOK, Allocate, fixed, writing, kernel, marks
<1>13. CASE MapSocket
  BY <1>1, <1>3, <1>4, <1>13 DEF TypeOK, MapSocket, fixed, writing, kernel, marks
<1>14. CASE Attach
  <2>1. prog' \in [Ifaces -> [by : 0 .. processes, role : {"none", "lan", "wan"}]]
    <3>1. processes \in 0 .. processes
      BY BringupAssumption DEF TypeOK
    <3> QED
      BY <1>14, <3>1 DEF Attach, TypeOK
  <2>2. push' \in [{"init", "main"} -> [next : Nat, with : Configs \union {None}]]
    BY <1>14 DEF Attach, TypeOK
  <2> QED
    BY <1>1, <1>3, <1>4, <1>14, <2>1, <2>2 DEF TypeOK, Attach, fixed, resources, marks
<1>15. CASE AttachFails
  <2>1. todo' \in Seq(Named) /\ at' = "undo" /\ stage' = "detach"
    BY <1>4, <1>15, FailFacts DEF AttachFails
  <2> QED
    BY <1>1, <1>2, <1>3, <1>4, <1>15, <2>1 DEF TypeOK, AttachFails, fixed, writing, marks
<1>16. CASE Pushed \/ ArpDone \/ Run
  BY <1>1, <1>16 DEF TypeOK, Pushed, ArpDone, Run, fixed, resources, writing, kernel, marks
<1> QED
  BY <1>5, <1>6, <1>7, <1>8, <1>9, <1>10, <1>11, <1>12, <1>13, <1>14, <1>15, <1>16, <1>17
     DEF BringUp, Kinds

LEMMA OtherTypes ==
  ASSUME TypeOK, PhaseInv,
         \/ TearDown \/ Stop \/ MainDetaches \/ Restart
         \/ \E who \in {"init", "main"} : Writes(who) \/ Written(who)
         \/ \E c \in Configs : Reload(c)
  PROVE  TypeOK'
<1>1. topo' = topo => Order' = Order /\ Named' = Named
  BY SameOrder
<1>2. \A S : Detached(S) \in [Ifaces -> [by : 0 .. processes, role : {"none", "lan", "wan"}]]
  BY DEF TypeOK, NoProg, Detached
<1>3. CASE Ends
  <2>1. Order \in Seq(Named)
    <3>1. Order \in Seq(Ifaces)
      BY OrderFacts DEF TypeOK
    <3> QED
      BY <3>1 DEF Named, Range
  <2> QED
    BY <1>1, <1>3, <2>1 DEF TypeOK, Ends, fixed, resources, writing, kernel, marks
<1>4. CASE CleanUpDetaches
  BY <1>1, <1>2, <1>4 DEF TypeOK, CleanUpDetaches, fixed, resources, writing, marks
<1>5. CASE CleanUpDeletes
  <2>1. todo # <<>> /\ todo \in Seq(Named)
    BY <1>5 DEF TypeOK, PhaseInv, CleanUpDeletes
  <2>2. todo' \in Seq(Named)
    BY <1>5, <2>1, HeadTailProperties DEF CleanUpDeletes
  <2> QED
    BY <1>1, <1>5, <2>2 DEF TypeOK, CleanUpDeletes, fixed, writing, kernel, marks
<1>6. CASE CleanedUp
  BY <1>1, <1>6 DEF TypeOK, CleanedUp, fixed, resources, writing, kernel, marks
<1>7. CASE Stop
  BY <1>1, <1>7 DEF TypeOK, Stop, resources, writing, kernel, marks
<1>8. CASE MainDetaches
  BY <1>1, <1>2, <1>8 DEF TypeOK, MainDetaches, fixed, resources, writing, marks
<1>9. CASE Restart
  <2>1. topo' \in Topologies /\ slot0' \in Configs
    BY <1>9 DEF Restart
  <2>2. n' \in 0 .. Len(Order)'
    <3>1. topo'.lans \in Seq(Ifaces) /\ topo'.wans \in Seq(Ifaces)
      BY <2>1, BringupAssumption
    <3>2. Len(Order)' \in Nat
      <4>1. topo'.lans \o topo'.wans \in Seq(Ifaces)
        BY <3>1, ConcatProperties
      <4>2. Order' \in Seq(Ifaces)
        BY <4>1 DEF Order
      <4> QED
        BY <4>2
    <3> QED
      BY <1>9, <3>2 DEF Restart
  <2>3. processes' \in 1 .. MaxProcesses
    BY <1>9, BringupAssumption DEF Restart, TypeOK
  <2>4. prog' \in [Ifaces -> [by : 0 .. processes', role : {"none", "lan", "wan"}]]
    <3>1. processes' = processes + 1 /\ prog' = prog /\ processes \in Nat
      BY <1>9, BringupAssumption DEF Restart, kernel, marks, TypeOK
    <3>2. 0 .. processes \subseteq 0 .. (processes + 1)
      BY <3>1
    <3>3. prog \in [Ifaces -> [by : 0 .. (processes + 1), role : {"none", "lan", "wan"}]]
      <4> DEFINE Old == [by : 0 .. processes, role : {"none", "lan", "wan"}]
                 New == [by : 0 .. (processes + 1), role : {"none", "lan", "wan"}]
      <4>1. \A x \in Old : x \in New
        BY <3>2
      <4>2. prog \in [Ifaces -> Old]
        BY DEF TypeOK
      <4> HIDE DEF Old, New
      <4>3. prog \in [Ifaces -> New]
        BY <4>1, <4>2
      <4> QED
        BY <4>3 DEF New
    <3> QED
      BY <3>1, <3>3
  <2>5. /\ bundles' \in Seq(Named') /\ Len(bundles') <= MaxBundles /\ todo' \in Seq(Named')
        /\ 0 \in 0 .. MaxReloads
    BY <1>9, BringupAssumption DEF Restart
  <2>6. /\ push' \in [{"init", "main"} -> [next : Nat, with : Configs \union {None}]]
        /\ filters' \in [Ifaces -> Configs \union {None, Torn}]
    BY <1>9 DEF Restart, NoPush, NoFilters, Idle
  <2>7. /\ cfg' = None /\ at' = "none" /\ stage' = "check" /\ reloads' = 0 /\ marked' = marked
        /\ held' = {} /\ live' = {} /\ open' = {} /\ mapped' = {}
        /\ twice' = {} /\ broken' = {} /\ unset' = {}
    BY <1>9 DEF Restart
  <2>8. /\ enabled' \in BOOLEAN /\ l2' \in BOOLEAN /\ stop' \in BOOLEAN
        /\ spoiled' \in BOOLEAN /\ plain' \in BOOLEAN
    BY <1>9 DEF Restart
  <2> QED
    BY <2>1, <2>2, <2>3, <2>4, <2>5, <2>6, <2>7, <2>8 DEF TypeOK
<1>10. ASSUME NEW who \in {"init", "main"}, Writes(who) PROVE TypeOK'
  <2>1. push' \in [{"init", "main"} -> [next : Nat, with : Configs \union {None}]]
    <3>1. push' = [push EXCEPT ![who].next = push[who].next + 1]
      BY <1>10 DEF Writes
    <3>2. push \in [{"init", "main"} -> [next : Nat, with : Configs \union {None}]]
      BY DEF TypeOK
    <3> QED
      BY <3>1, <3>2
  <2>2. filters' \in [Ifaces -> Configs \union {None, Torn}] /\ spoiled' \in BOOLEAN
    <3> DEFINE i == bundles[push[who].next]
    <3>1. push[who].with \in Configs \union {None}
      BY DEF TypeOK
    <3>2. /\ filters' = filters \/ filters' = [filters EXCEPT ![i] = push[who].with]
             \/ filters' = [filters EXCEPT ![i] = Torn]
          /\ spoiled' = spoiled \/ spoiled' = TRUE
      BY <1>10 DEF Writes
    <3> HIDE DEF i
    <3> QED
      BY <3>1, <3>2 DEF TypeOK
  <2>3. UNCHANGED <<topo, slot0, enabled, l2, cfg, stop, reloads, processes, plain, at, stage, n, todo,
                    held, live, mapped, open, twice, bundles, prog, marked, unset, broken>>
    BY <1>10 DEF Writes, fixed, resources, kernel, marks
  <2> QED
    BY <1>1, <2>1, <2>2, <2>3 DEF TypeOK
<1>11. ASSUME NEW who \in {"init", "main"}, Written(who) PROVE TypeOK'
  <2>1. push' \in [{"init", "main"} -> [next : Nat, with : Configs \union {None}]]
    BY <1>11 DEF TypeOK, Written, Idle
  <2> QED
    BY <1>1, <1>11, <2>1 DEF TypeOK, Written, fixed, resources, kernel, marks
<1>12. ASSUME NEW c \in Configs, Reload(c) PROVE TypeOK'
  <2>1. push' \in [{"init", "main"} -> [next : Nat, with : Configs \union {None}]]
    BY <1>12 DEF TypeOK, Reload
  <2>2. reloads' \in 0 .. MaxReloads
    BY <1>12, BringupAssumption DEF TypeOK, Reload
  <2>3. spoiled' \in BOOLEAN /\ slot0' \in Configs /\ cfg' \in Configs
    BY <1>12 DEF TypeOK, Reload
  <2>4. enabled' \in BOOLEAN /\ plain' \in BOOLEAN
    BY <1>12, BringupAssumption DEF TypeOK, Reload
  <2>5. UNCHANGED <<topo, l2, at, stage, n, todo, resources, bundles, filters, kernel, stop,
                    processes, broken>>
    BY <1>12 DEF Reload
  <2> QED
    BY <1>1, <2>1, <2>2, <2>3, <2>4, <2>5 DEF TypeOK, resources, kernel, marks
<1> QED
  BY <1>3, <1>4, <1>5, <1>6, <1>7, <1>8, <1>9, <1>10, <1>11, <1>12 DEF TearDown

-----------------------------------------------------------------------------
(* Phases *)

LEMMA PhaseKeeps ==
  ASSUME TypeOK, PhaseInv, Next
  PROVE  PhaseInv'
<1>0. /\ Len(Order) \in Nat /\ Len(topo.lans) \in Nat /\ Len(topo.lans) <= Len(Order)
      /\ n \in Nat /\ n <= Len(Order)
  BY OrderFacts DEF TypeOK
<1>1. topo' = topo => Order' = Order
  BY SameOrder
<1>2. \A s : AtIface(s) => n < Len(Order)
  BY DEF AtIface
<1>3. ASSUME LoadFails \/ QueueFails \/ AttachFails \/ StopsHere
      PROVE  PhaseInv'
  <2>1. at' = "undo" /\ stage' = "detach"
    BY <1>3 DEF LoadFails, QueueFails, AttachFails, StopsHere, Fails, Undo
  <2> QED
    BY <2>1 DEF PhaseInv
<1>4. CASE Attach
  <2>1. /\ n' = n + 1 /\ stage' = "check" /\ todo' = todo /\ topo' = topo /\ at = "up"
        /\ at' = IF IsLan(Current) /\ n + 1 = Len(topo.lans) THEN "push" ELSE "up"
        /\ n < Len(Order)
    BY <1>4 DEF Attach, fixed, AtIface
  <2> QED
    BY <1>0, <1>1, <2>1 DEF PhaseInv
<1>5. CASE Begin \/ Configure \/ ConfigureFails \/ BeginNot
  BY <1>0, <1>1, <1>5 DEF PhaseInv, Begin, Configure, ConfigureFails, BeginNot, fixed
<1>6. CASE GoesOn \/ Load \/ MapSocket
  BY <1>1, <1>2, <1>6 DEF PhaseInv, GoesOn, Load, MapSocket, AtIface, fixed
<1>7. ASSUME NEW kind, NEW next \in {"umem", "xsk", "map"}, Allocate(kind, next)
      PROVE  PhaseInv'
  BY <1>1, <1>2, <1>7 DEF PhaseInv, Allocate, AtIface, fixed
<1>8. CASE Pushed \/ ArpDone \/ Run
  BY <1>0, <1>1, <1>8 DEF PhaseInv, Pushed, ArpDone, Run, fixed
<1>9. CASE TearDown
  BY <1>0, <1>1, <1>9 DEF PhaseInv, TearDown, Ends, CleanUpDetaches, CleanUpDeletes,
     CleanedUp, fixed
<1>10. CASE Stop \/ MainDetaches
  BY <1>1, <1>10 DEF PhaseInv, Stop, MainDetaches, fixed
<1>11. CASE Restart
  BY <1>11 DEF PhaseInv, Restart
<1>12. ASSUME NEW who, Writes(who) \/ Written(who) PROVE PhaseInv'
  BY <1>1, <1>12 DEF PhaseInv, Writes, Written, fixed
<1>13. ASSUME NEW c \in Configs, Reload(c) PROVE PhaseInv'
  BY <1>1, <1>13 DEF PhaseInv, Reload
<1> QED
  BY <1>3, <1>4, <1>5, <1>6, <1>7, <1>8, <1>9, <1>10, <1>11, <1>12, <1>13 DEF Next, BringUp

-----------------------------------------------------------------------------
(* While the forwarder thread works *)

\* The forwarder thread at work, its steps from no interface in hand to one that
\* is up.
LEMMA UpKeeps ==
  ASSUME TypeOK, PhaseInv, UpInv, MarkInv, Next
  PROVE  UpInv'
<1>0. /\ Len(Order) \in Nat /\ n \in Nat /\ processes \in Nat /\ processes >= 1
  BY OrderFacts, BringupAssumption DEF TypeOK
<1>1. ASSUME topo' = topo, n' = n
      PROVE  /\ Order' = Order /\ Up' = Up /\ Current' = Current
             /\ \A i : IsLan(i)' <=> IsLan(i)
  BY <1>1, SameOrder DEF Current
<1>2. ASSUME NEW s, AtIface(s)
      PROVE  /\ at = "up" /\ stage = s /\ n < Len(Order) /\ at \in Working
             /\ Current \in Ifaces /\ Current \notin Up
  BY <1>2, CurrentFacts DEF AtIface, Working
<1>3. CASE at' \in {"undo", "end"}
  BY <1>3 DEF UpInv, Working
<1>4. CASE Begin
  <2>1. /\ at = "none" /\ at' = "conf" /\ n' = 0 /\ n = 0 /\ topo' = topo
        /\ UNCHANGED <<held, live, mapped, twice, broken, processes>>
        /\ prog' = Detached(Named)
    BY <1>4 DEF Begin, PhaseInv, resources
  <2>2. Up = {} /\ Up' = {} /\ InHand = {} /\ InHand' = {}
    BY <2>1 DEF Up, InHand
  <2>3. mapped = {} /\ live = {} /\ held = {} /\ broken = {} /\ twice = {}
    BY <2>1, <2>2 DEF UpInv, Working
  <2>4. \A i \in Ifaces : prog'[i].by # processes
    BY <1>0, <2>1, <2>2 DEF UpInv, Working, Detached, NoProg
  <2> QED
    BY <2>1, <2>2, <2>3, <2>4 DEF UpInv
<1>15. CASE Configure
  <2>1. /\ at = "conf" /\ at' = "up" /\ stage' = "check" /\ n' = 0 /\ n = 0 /\ topo' = topo
        /\ UNCHANGED <<held, live, mapped, prog, processes, twice, broken>>
    BY <1>15 DEF Configure, PhaseInv, resources, kernel
  <2>2. Up = {} /\ Up' = {} /\ InHand = {} /\ InHand' = {}
    BY <2>1 DEF Up, InHand
  <2> QED
    BY <2>1, <2>2 DEF UpInv, Working
<1>5. CASE GoesOn \/ Pushed \/ ArpDone \/ Run
  <2>1. /\ UNCHANGED <<topo, l2, n, held, live, mapped, prog, marks, plain, processes, twice, broken>>
        /\ at \in Working /\ stage = "check" /\ (at' # "up" \/ stage' \in {"check", "load"})
    BY <1>5 DEF GoesOn, Pushed, ArpDone, Run, AtIface, fixed, resources, kernel, PhaseInv, Working
  <2>2. InHand = {} /\ InHand' = {} /\ Up' = Up /\ \A i : IsLan(i)' <=> IsLan(i)
    BY <1>1, <2>1 DEF InHand
  <2>3. \A i : Program(i)' = Program(i) /\ (MarkFits(i)' <=> MarkFits(i))
    BY <2>1, <2>2 DEF Program, MarkFits, marks
  <2> QED
    BY <2>1, <2>2, <2>3 DEF UpInv
<1>6. CASE Load
  <2>1. /\ at' = at /\ stage' = "bufs" /\ prog' = Detached({Current})
        /\ UNCHANGED <<topo, l2, plain, n, held, live, mapped, processes, twice, broken>>
        /\ marked' \in {marked \union {Current}, marked \ {Current}}
        /\ unset' \in {unset, unset \union {Current}}
        /\ Current \in marked' => MarkWanted
        /\ MarkWanted /\ Current \notin unset' => Current \in marked'
    BY <1>6 DEF Load, fixed
  <2>2. /\ at = "up" /\ stage = "load" /\ at \in Working /\ Current \notin Up
        /\ InHand = {} /\ InHand' = {Current} /\ Up' = Up /\ \A i : IsLan(i)' <=> IsLan(i)
    BY <1>1, <1>2, <1>6, <2>1 DEF Load, InHand
  <2>3. \A i : Program(i)' = Program(i)
    BY <2>1, <2>2 DEF Program
  <2>4. \A i \in Up : i \in Ifaces /\ prog'[i] = prog[i] /\ (MarkFits(i)' <=> MarkFits(i))
    <3>1. Up \subseteq Ifaces
      BY <1>0, OrderFacts DEF Up, TypeOK
    <3> QED
      BY <2>1, <2>2, <3>1 DEF Detached, MarkFits
  <2>5. \A i \in Ifaces : prog'[i].by = processes => prog[i].by = processes
    BY <1>0, <2>1 DEF Detached, NoProg
  <2>6. \A i \in InHand' : IsLan(i) \/ MarkFits(i)'
    <3>1. Current' = Current
      BY <1>1, <2>1
    <3>2. MarkWanted => l2
      BY DEF MarkWanted
    <3>3. ~IsLan(Current) /\ l2 /\ ~plain => MarkWanted
      BY <2>2 DEF MarkInv, BringingUp, MarkWanted
    <3> QED
      BY <2>1, <2>2, <3>1, <3>2, <3>3 DEF MarkFits
  <2> QED
    BY <2>1, <2>2, <2>3, <2>4, <2>5, <2>6 DEF UpInv
<1>7. ASSUME NEW kind, NEW next, <<kind, next>> \in {<<"bufs", "umem">>, <<"umem", "xsk">>, <<"xsk", "map">>},
             Allocate(kind, next)
      PROVE  UpInv'
  <2>1. /\ at = "up" /\ stage = kind /\ at' = "up" /\ stage' = next /\ at \in Working
        /\ live' = live \union {<<Current, kind>>}
        /\ UNCHANGED <<topo, l2, plain, n, held, mapped, prog, marks, processes, twice, broken>>
    BY <1>2, <1>7 DEF Allocate, fixed, kernel
  <2>2. /\ InHand = {Current} /\ InHand' = {Current} /\ Up' = Up /\ Current' = Current
        /\ \A i : IsLan(i)' <=> IsLan(i)
    BY <1>1, <1>7, <2>1 DEF InHand
  <2>3. \A i : Program(i)' = Program(i) /\ (MarkFits(i)' <=> MarkFits(i))
    BY <2>1, <2>2 DEF Program, MarkFits, marks
  <2> QED
    BY <1>7, <2>1, <2>2, <2>3 DEF UpInv
<1>8. CASE MapSocket
  <2>1. /\ at = "up" /\ stage = "map" /\ at' = "up" /\ stage' = "attach" /\ at \in Working
        /\ held' = held \union Of(Current) /\ mapped' = mapped \union {Current}
        /\ UNCHANGED <<topo, l2, plain, n, live, prog, marks, processes, twice, broken>>
    BY <1>2, <1>8 DEF MapSocket, fixed, kernel
  <2>2. /\ InHand = {Current} /\ InHand' = {Current} /\ Up' = Up /\ Current' = Current
        /\ \A i : IsLan(i)' <=> IsLan(i)
    BY <1>1, <2>1 DEF InHand
  <2>3. \A i : Program(i)' = Program(i) /\ (MarkFits(i)' <=> MarkFits(i))
    BY <2>1, <2>2 DEF Program, MarkFits, marks
  <2>4. Of(Current) \subseteq live /\ \A p \in Of(Current) : p[1] = Current
    BY <2>1 DEF UpInv, Of, Kinds
  <2> QED
    BY <2>1, <2>2, <2>3, <2>4 DEF UpInv
<1>9. CASE Attach
  <2>1. /\ at = "up" /\ stage = "attach" /\ at' \in {"up", "push"} /\ stage' = "check"
        /\ at \in Working /\ n' = n + 1 /\ Current \notin Up /\ Current \in Ifaces
        /\ prog' = [prog EXCEPT ![Current] = Program(Current)]
        /\ UNCHANGED <<topo, l2, plain, held, live, mapped, marks, processes, twice, broken>>
    BY <1>2, <1>9 DEF Attach, fixed, resources, Program
  <2>2. InHand = {Current} /\ InHand' = {} /\ \A i : IsLan(i)' <=> IsLan(i)
    BY <2>1, SameOrder DEF InHand
  <2>3. Up' = Up \union {Current}
    <3>1. Order' = Order
      BY <2>1, SameOrder
    <3> QED
      BY <1>2, <1>9, <2>1, <3>1, CurrentFacts DEF Up, Attach
  <2>4. \A i : Program(i)' = Program(i) /\ (MarkFits(i)' <=> MarkFits(i))
    BY <2>1, <2>2 DEF Program, MarkFits, marks
  <2>5. \A i \in Ifaces : prog'[i] = IF i = Current THEN Program(Current) ELSE prog[i]
    BY <2>1 DEF TypeOK
  <2>6. Up \subseteq Ifaces
    BY <1>0, OrderFacts DEF Up, TypeOK
  <2>7. \A p \in live : p[1] \in Up \union {Current} /\ p \in held
    <3>1. \A p \in live : p[1] = Current => p \in Of(Current)
      BY DEF TypeOK, Of
    <3> QED
      BY <2>1, <2>2, <3>1 DEF UpInv
  <2>8. \A i \in Up \union {Current} :
          i \in mapped /\ prog'[i] = Program(i) /\ (IsLan(i) \/ MarkFits(i))
    BY <2>1, <2>2, <2>5, <2>6 DEF UpInv
  <2>9. \A i \in Ifaces : prog'[i].by = processes => i \in Up \union {Current}
    BY <2>1, <2>5 DEF UpInv
  <2> QED
    BY <2>1, <2>2, <2>3, <2>4, <2>7, <2>8, <2>9 DEF UpInv
<1>10. CASE Restart
  <2>1. Up' = {} /\ InHand' = {}
    BY <1>10 DEF Restart, Up, InHand
  <2>2. \A i \in Ifaces : prog'[i].by # processes'
    BY <1>0, <1>10 DEF Restart, kernel, TypeOK
  <2> QED
    BY <1>10, <2>1, <2>2 DEF UpInv, Restart
<1>11. ASSUME UNCHANGED <<topo, l2, at, stage, n, held, live, mapped, prog, marks, processes, twice, broken>>,
              plain => plain'
       PROVE  UpInv'
  <2>1. /\ Up' = Up /\ InHand' = InHand /\ Current' = Current
        /\ \A i : /\ (IsLan(i)' <=> IsLan(i)) /\ Program(i)' = Program(i) /\ Of(i)' = Of(i)
                  /\ MarkFits(i) => MarkFits(i)'
    BY <1>1, <1>11 DEF InHand, Program, Of, MarkFits, marks
  <2> QED
    BY <1>11, <2>1 DEF UpInv
<1>12. ConfigureFails \/ BeginNot \/ StopsHere \/ LoadFails \/ QueueFails \/ AttachFails => at' \in {"undo", "end"}
  BY DEF ConfigureFails, BeginNot, StopsHere, LoadFails, QueueFails, AttachFails, Fails, Undo
<1>13. TearDown \/ MainDetaches => at' \in {"undo", "end"}
  BY DEF TearDown, Ends, CleanUpDetaches, CleanUpDeletes, CleanedUp, MainDetaches, fixed
<1>14. ASSUME \/ Stop \/ \E who \in {"init", "main"} : Writes(who) \/ Written(who)
              \/ \E c \in Configs : Reload(c)
       PROVE  UpInv'
  BY <1>11, <1>14 DEF Stop, Writes, Written, Reload, fixed, resources, kernel
<1> QED
  BY <1>3, <1>4, <1>5, <1>6, <1>7, <1>8, <1>9, <1>10, <1>12, <1>13, <1>14, <1>15 DEF Next, BringUp

\* What each WAN's marking is decided on changes only by a reload without policies.
LEMMA MarkKeeps ==
  ASSUME TypeOK, PhaseInv, MarkInv, Next
  PROVE  MarkInv'
<1>1. ASSUME BringingUp' => BringingUp, UNCHANGED <<l2, plain, enabled, slot0>>
      PROVE  MarkInv'
  BY <1>1 DEF MarkInv
<1>2. CASE Configure
  <2>1. slot0 \in Configs /\ (slot0.l2 => slot0.enabled)
    BY BringupAssumption DEF TypeOK
  <2> QED
    BY <1>2, <2>1 DEF Configure, MarkInv
<1>3. ASSUME NEW c \in Configs, Reload(c)
      PROVE  MarkInv'
  <2>1. /\ at' = at /\ l2' = l2 /\ plain' = (plain \/ (BringingUp /\ ~c.enabled))
        /\ slot0' \in {slot0, c} /\ enabled' \in {enabled, c.enabled}
    BY <1>3 DEF Reload
  <2>2. BringingUp' <=> BringingUp
    BY <2>1 DEF BringingUp
  <2>3. ~plain' => ~plain /\ (BringingUp => c.enabled)
    BY <2>1
  <2>4. ASSUME enabled, slot0.enabled, c.enabled PROVE enabled' /\ slot0'.enabled
    BY <2>1, <2>4
  <2> QED
    BY <2>1, <2>2, <2>3, <2>4 DEF MarkInv
<1>4. CASE Restart
  BY <1>4 DEF Restart, MarkInv, BringingUp
<1>5. ASSUME Begin \/ ConfigureFails
      PROVE  MarkInv'
  BY <1>5 DEF Begin, ConfigureFails, MarkInv, BringingUp
<1>6. ASSUME \/ BeginNot \/ StopsHere \/ GoesOn \/ LoadFails \/ Load \/ QueueFails
             \/ MapSocket \/ Attach \/ AttachFails \/ Pushed \/ ArpDone \/ Run
             \/ TearDown \/ Stop \/ MainDetaches
             \/ \E kind, next : Allocate(kind, next)
             \/ \E who : Writes(who) \/ Written(who)
      PROVE  MarkInv'
  <2>1. UNCHANGED <<l2, plain, enabled, slot0>>
    BY <1>6 DEF BeginNot, StopsHere, GoesOn, LoadFails, Load, QueueFails, MapSocket, Attach,
                AttachFails, Pushed, ArpDone, Run, TearDown, Ends, CleanUpDetaches,
                CleanUpDeletes, CleanedUp, Stop, MainDetaches, Allocate, Writes, Written, fixed
  <2>2. BringingUp' => BringingUp
    BY <1>6 DEF BeginNot, StopsHere, GoesOn, LoadFails, Load, QueueFails, MapSocket, Attach,
                AttachFails, Pushed, ArpDone, Run, TearDown, Ends, CleanUpDetaches,
                CleanUpDeletes, CleanedUp, Stop, MainDetaches, Allocate, Writes, Written,
                AtIface, BringingUp, Fails, Undo
  <2> QED
    BY <1>1, <2>1, <2>2
<1> QED
  BY <1>2, <1>3, <1>4, <1>5, <1>6 DEF Next, BringUp

-----------------------------------------------------------------------------
(* Cleaning up *)

\* What an error path or the end of the forwarder finds, and what is left of it
\* after each detach and each delete.
LEMMA UndoKeeps ==
  ASSUME TypeOK, PhaseInv, UpInv, UndoInv, Next
  PROVE  UndoInv'
<1>0. /\ Len(Order) \in Nat /\ n \in Nat /\ processes \in Nat /\ processes >= 1
  BY OrderFacts, BringupAssumption DEF TypeOK
<1>1. \A i : Of(i)' = Of(i) /\ (\A p \in Of(i) : p[1] = i)
  BY DEF Of
<1>2. Up \subseteq Ifaces
  BY <1>0, OrderFacts DEF Up, TypeOK
<1>3. \A p \in live \union held : \A i : p[1] = i => p \in Of(i)
  BY DEF TypeOK, Of
\* From the bring-up to the clean-up.
<1>4. ASSUME at \in Working, at' \in {"undo", "end"}, ~(at' = "undo" /\ stage' = "delete"),
             UNCHANGED <<held, twice, processes>>,
             Up \subseteq Range(todo'), Up \subseteq mapped', mapped' \subseteq Up,
             live' \subseteq live, \A p \in live' : p[1] \in Up,
             \A i \in Ifaces : prog'[i].by = processes => prog[i].by = processes,
             \A i, j \in broken' : i = j,
             \A p \in held \ live' : p[1] \in broken' \/ p[1] \notin Range(todo')
      PROVE  UndoInv'
  <2>1. twice' = {} /\ \A p \in live : p[1] \in Up => p \in held
    <3>1. \A p \in live : p[1] \in InHand => p[1] \notin Up
      BY CurrentFacts DEF InHand, PhaseInv
    <3> QED
      BY <1>4, <3>1 DEF UpInv
  <2>2. \A i \in Ifaces : prog'[i].by = processes => i \in Up
    BY <1>4 DEF UpInv
  <2> QED
    BY <1>1, <1>4, <2>1, <2>2 DEF UndoInv
<1>5. ASSUME NEW s, AtIface(s)
      PROVE  /\ at = "up" /\ stage = s /\ at \in Working /\ n < Len(Order)
             /\ Current \in Ifaces /\ Current \notin Up
             /\ Up \subseteq mapped /\ broken = {} /\ held \subseteq live
             /\ InHand = IF s \in {"check", "load"} THEN {} ELSE {Current}
             /\ \A i \in mapped : i \in Up \/ (s = "attach" /\ i = Current)
             /\ \A p \in live : p[1] \in Up \union InHand
             /\ \A p \in held : p[1] \in Up \/ (s = "attach" /\ p[1] = Current)
  BY <1>5, CurrentFacts DEF AtIface, Working, UpInv, InHand
<1>6. \A S : \A i \in Ifaces : Detached(S)[i].by = processes => prog[i].by = processes
  BY <1>0 DEF Detached, NoProg
<1>7. CASE LoadFails
  <2>1. /\ AtIface("load") /\ Fails /\ prog' \in {prog, Detached({Current})}
        /\ UNCHANGED <<held, live, mapped, twice, processes, broken>>
    BY <1>7 DEF LoadFails, fixed, resources
  <2>2. at' = "undo" /\ stage' = "detach" /\ Up \subseteq Range(todo')
    BY <1>5, <2>1, FailFacts
  <2> QED
    BY <1>4, <1>5, <1>6, <2>1, <2>2
<1>8. CASE QueueFails
  <2>1. PICK s \in {"bufs", "umem", "xsk", "map"} : AtIface(s)
    BY <1>8 DEF QueueFails
  <2>2. /\ Fails /\ prog' = Detached({Current}) /\ live' = live \ Of(Current)
        /\ UNCHANGED <<held, mapped, twice, processes, broken>>
    BY <1>8 DEF QueueFails, fixed
  <2>3. at' = "undo" /\ stage' = "detach" /\ Up \subseteq Range(todo')
    BY <1>5, <2>1, <2>2, FailFacts
  <2>4. mapped \subseteq Up
    BY <1>5, <2>1
  <2>5. \A p \in live' : p[1] \in Up
    BY <1>3, <1>5, <2>1, <2>2
  <2>6. held \subseteq live'
    BY <1>1, <1>5, <2>1, <2>2
  <2> QED
    BY <1>4, <1>5, <1>6, <2>1, <2>2, <2>3, <2>4, <2>5, <2>6
<1>9. CASE AttachFails
  <2>1. /\ AtIface("attach") /\ Fails /\ prog' = Detached({Current}) /\ live' = live \ Of(Current)
        /\ mapped' = mapped \ {Current}
        /\ broken' = IF IsLan(Current) THEN {Current} ELSE broken
        /\ UNCHANGED <<held, twice, processes>>
    BY <1>9 DEF AttachFails, fixed
  <2>2. /\ at' = "undo" /\ stage' = "detach" /\ Up \subseteq Range(todo')
        /\ ~IsLan(Current) => Range(todo') = Up
    BY <1>5, <2>1, FailFacts
  <2>3. Up \subseteq mapped' /\ mapped' \subseteq Up
    BY <1>5, <2>1
  <2>4. \A p \in live' : p[1] \in Up
    BY <1>3, <1>5, <2>1
  <2>5. \A p \in held \ live' : p[1] = Current
    BY <1>1, <1>5, <2>1
  <2>6. \A i, j \in broken' : i = j
    BY <1>5, <2>1
  <2> QED
    BY <1>4, <1>5, <1>6, <2>1, <2>2, <2>3, <2>4, <2>5, <2>6
<1>10. ASSUME at \in Working, stage = "check", Up \subseteq Range(todo'), at' \in {"undo", "end"},
              ~(at' = "undo" /\ stage' = "delete"),
              UNCHANGED <<held, live, mapped, twice, processes, broken, prog>>
       PROVE  UndoInv'
  <2>1. /\ InHand = {} /\ Up \subseteq mapped /\ mapped \subseteq Up /\ held \subseteq live
        /\ broken = {} /\ \A p \in live : p[1] \in Up
    BY <1>10 DEF UpInv, InHand
  <2> QED
    BY <1>4, <1>10, <2>1
<1>11. CASE StopsHere
  <2>1. /\ at \in Working /\ stage = "check" /\ Undo(<<>>)
        /\ UNCHANGED <<held, live, mapped, twice, processes, broken, prog>>
    BY <1>11 DEF StopsHere, fixed, resources, kernel, Working
  <2>2. <<>> \in Seq(Named)
    OBVIOUS
  <2>3. at' = "undo" /\ stage' = "detach" /\ Up \subseteq Range(todo')
    BY <2>1, <2>2, UndoFacts
  <2> QED
    BY <1>10, <2>1, <2>3
<1>12. CASE Ends
  <2>1. /\ at \in Working /\ stage = "check" /\ n = Len(Order)
        /\ at' = "undo" /\ stage' = "detach" /\ todo' = Order
        /\ UNCHANGED <<held, live, mapped, twice, processes, broken, prog>>
    BY <1>12 DEF Ends, fixed, resources, kernel, Working, PhaseInv
  <2>2. Up \subseteq Range(todo')
    BY SMTT(30), <2>1, OrderFacts DEF TypeOK, Up, Range
  <2> QED
    BY <1>10, <2>1, <2>2
<1>13. CASE BeginNot \/ ConfigureFails
  <2>1. /\ at \in Working /\ stage = "check" /\ n = 0 /\ at' = "end"
        /\ UNCHANGED <<held, live, mapped, twice, processes, broken, prog>>
    BY <1>13 DEF BeginNot, ConfigureFails, fixed, resources, kernel, Working, PhaseInv
  <2>2. Up = {}
    BY <2>1 DEF Up
  <2> QED
    BY <1>10, <2>1, <2>2
\* Within the clean-up.
<1>14. CASE CleanUpDetaches
  <2>1. /\ at = "undo" /\ at' = "undo" /\ stage' = "delete" /\ todo # <<>> /\ todo' = todo
        /\ prog' = Detached({Head(todo)})
        /\ UNCHANGED <<held, live, mapped, twice, processes, broken>>
    BY <1>14 DEF CleanUpDetaches, fixed, resources
  <2>2. Head(todo) \in Ifaces
    <3>1. Head(todo) \in Named
      BY <2>1 DEF TypeOK
    <3> QED
      BY <3>1, OrderFacts DEF TypeOK, Named, Range
  <2>3. prog'[Head(todo)].by # processes
    BY <1>0, <2>1, <2>2 DEF Detached, NoProg
  <2> QED
    BY <1>1, <1>6, <2>1, <2>3 DEF UndoInv
<1>15. CASE CleanUpDeletes
  <2> DEFINE i == Head(todo)
             gone == held \intersect Of(i)
  <2>1. /\ at = "undo" /\ at' = "undo" /\ stage = "delete" /\ stage' = "detach"
        /\ twice' = twice \union (gone \ live) /\ live' = live \ gone /\ held' = held \ Of(i)
        /\ mapped' = mapped \ {i} /\ todo' = Tail(todo)
        /\ UNCHANGED <<processes, broken, prog>>
    BY <1>15 DEF CleanUpDeletes, fixed, kernel
  <2>2. todo # <<>> /\ todo \in Seq(Named)
    BY <2>1 DEF PhaseInv, TypeOK
  <2>3. Range(todo) = {i} \union Range(Tail(todo))
    <3>1. /\ Len(todo) \in Nat /\ Len(todo) >= 1 /\ i = todo[1] /\ DOMAIN todo = 1 .. Len(todo)
          /\ DOMAIN Tail(todo) = 1 .. (Len(todo) - 1)
          /\ \A k \in 1 .. (Len(todo) - 1) : Tail(todo)[k] = todo[k + 1]
      BY <2>2
    <3>2. \A k \in 1 .. Len(todo) : todo[k] \in {i} \union Range(Tail(todo))
      <4> SUFFICES ASSUME NEW k \in 1 .. Len(todo), k # 1
                   PROVE  todo[k] \in Range(Tail(todo))
        BY <3>1
      <4>1. k - 1 \in 1 .. (Len(todo) - 1) /\ (k - 1) + 1 = k
        BY <3>1
      <4>2. Tail(todo)[k - 1] = todo[k]
        BY <3>1, <4>1
      <4> QED
        BY <3>1, <4>1, <4>2 DEF Range
    <3>3. \A k \in 1 .. (Len(todo) - 1) : k + 1 \in 1 .. Len(todo)
      BY <3>1
    <3> HIDE DEF i
    <3> QED
      BY <3>1, <3>2, <3>3 DEF Range
  <2>4. prog[i].by # processes
    BY <2>1 DEF UndoInv
  <2>5. \A p \in live \union held : p[1] = i <=> p \in Of(i)
    BY <1>1, <1>3
  <2> HIDE DEF i
  <2>6. \A j \in Ifaces : prog[j].by = processes => j \in Range(todo') /\ j \in mapped'
    BY <2>1, <2>3, <2>4 DEF UndoInv
  <2>7. mapped' \subseteq Range(todo')
    BY <2>1, <2>3 DEF UndoInv
  <2>8. \A p \in live' : p[1] \in Range(todo') /\ p \in held'
    <3>1. \A p \in live' : p \in live /\ p \in held /\ p[1] # i
      BY <2>1, <2>5 DEF UndoInv
    <3> QED
      BY <2>1, <2>3, <2>5, <3>1 DEF UndoInv
  <2>9. \A p \in held' \ live' : p[1] \in broken \/ p[1] \notin Range(todo')
    BY <2>1, <2>3, <2>5 DEF UndoInv
  <2>10. \A p \in gone \ live : p \in Of(i) /\ i \in broken
    BY <1>1, <2>1, <2>3 DEF UndoInv
  <2>11. twice' # {} => \E j \in broken : twice' \subseteq Of(j)
    BY <2>1, <2>10 DEF UndoInv
  <2> QED
    BY <1>1, <2>1, <2>6, <2>7, <2>8, <2>9, <2>11 DEF UndoInv
<1>16. CASE CleanedUp \/ MainDetaches
  <2>1. /\ at \in {"undo", "end"} /\ at' = "end" /\ todo' = todo
        /\ prog' = prog \/ prog' = Detached(Named)
        /\ UNCHANGED <<held, live, mapped, twice, processes, broken>>
    BY <1>16 DEF CleanedUp, MainDetaches, fixed, resources, kernel
  <2> QED
    BY <1>1, <1>6, <2>1 DEF UndoInv
<1>17. CASE Restart
  BY <1>17 DEF Restart, UndoInv
\* The rest of the bring-up, and main.
<1>18. ASSUME at' \in Working, UNCHANGED <<twice, broken>> PROVE UndoInv'
  BY <1>1, <1>18 DEF UndoInv, Working
<1>19. ASSUME \/ Begin \/ Configure \/ GoesOn \/ Load \/ MapSocket \/ Attach \/ Pushed \/ ArpDone \/ Run
              \/ \E kind, next : Allocate(kind, next)
       PROVE  UndoInv'
  <2>1. at' \in Working /\ UNCHANGED <<twice, broken>>
    BY <1>19 DEF Begin, Configure, GoesOn, Load, MapSocket, Attach, Pushed, ArpDone, Run, Allocate,
                 AtIface, fixed, resources, Working
  <2> QED
    BY <1>18, <2>1
<1>20. ASSUME \/ Stop \/ \E who \in {"init", "main"} : Writes(who) \/ Written(who)
              \/ \E c \in Configs : Reload(c)
       PROVE  UndoInv'
  <2>1. UNCHANGED <<at, stage, todo, held, live, mapped, prog, processes, twice, broken>>
    BY <1>20 DEF Stop, Writes, Written, Reload, fixed, resources, kernel
  <2> QED
    BY <1>1, <2>1 DEF UndoInv
<1> QED
  BY <1>7, <1>8, <1>9, <1>11, <1>12, <1>13, <1>14, <1>15, <1>16, <1>17, <1>19, <1>20
     DEF Next, BringUp, TearDown

-----------------------------------------------------------------------------
(* Programs of an earlier process *)

\* forwarder_init detaches them before it does anything else.
LEMMA KernelKeeps ==
  ASSUME TypeOK, PhaseInv, KernelInv, Next
  PROVE  KernelInv'
<1>0. /\ processes \in Nat /\ processes >= 1 /\ Named \subseteq Ifaces
  BY OrderFacts, BringupAssumption DEF TypeOK, Named, Range
<1>1. ASSUME topo' = topo, processes' = processes, cfg' = cfg,
             \A i \in Named : /\ prog'[i].by = prog[i].by \/ prog'[i].by = processes \/ prog'[i].role = "none"
                              /\ prog'[i].role = prog[i].role \/ prog'[i].by = processes \/ prog'[i].role = "none"
      PROVE  KernelInv'
  <2>1. Named' = Named
    BY <1>1, SameOrder
  <2> QED
    BY <1>1, <2>1 DEF KernelInv, Orphan
<1>2. \A S : \A i \in Named : Detached(S)[i] = prog[i] \/ Detached(S)[i].role = "none"
  BY <1>0 DEF Detached, NoProg
<1>3. CASE Begin
  <2>1. topo' = topo /\ prog' = Detached(Named)
    BY <1>3 DEF Begin
  <2>2. Named' = Named
    BY <2>1, SameOrder
  <2> QED
    BY <1>0, <2>1, <2>2 DEF KernelInv, Orphan, Detached, NoProg
<1>4. ASSUME topo' = topo, processes' = processes, cfg' = cfg, NEW S,
             prog' = prog \/ prog' = Detached(S)
      PROVE  KernelInv'
  BY <1>1, <1>2, <1>4
<1>5. CASE LoadFails \/ Load \/ QueueFails \/ AttachFails
  <2>1. /\ topo' = topo /\ processes' = processes /\ cfg' = cfg
        /\ prog' = prog \/ prog' = Detached({Current})
    BY <1>5 DEF LoadFails, Load, QueueFails, AttachFails, fixed
  <2> QED
    BY <1>4, <2>1
<1>6. CASE MainDetaches
  <2>1. topo' = topo /\ processes' = processes /\ cfg' = cfg /\ prog' = Detached(Named)
    BY <1>6 DEF MainDetaches, fixed
  <2> QED
    BY <1>4, <2>1
<1>7. CASE CleanUpDetaches
  <2>1. topo' = topo /\ processes' = processes /\ cfg' = cfg /\ prog' = Detached({Head(todo)})
    BY <1>7 DEF CleanUpDetaches, fixed
  <2> QED
    BY <1>4, <2>1
<1>8. CASE Attach
  <2>1. /\ topo' = topo /\ processes' = processes /\ cfg' = cfg
        /\ \A i \in Named : prog'[i] = prog[i] \/ prog'[i].by = processes
    BY <1>0, <1>8 DEF Attach, fixed, TypeOK
  <2> QED
    BY <1>1, <2>1
<1>9. ASSUME \/ Configure \/ ConfigureFails \/ BeginNot \/ StopsHere \/ GoesOn \/ MapSocket \/ Pushed \/ ArpDone \/ Run
             \/ Ends \/ CleanUpDeletes \/ CleanedUp \/ Stop
             \/ \E kind, next : Allocate(kind, next)
             \/ \E who \in {"init", "main"} : Writes(who) \/ Written(who)
      PROVE  KernelInv'
  <2>1. topo' = topo /\ processes' = processes /\ cfg' = cfg /\ prog' = prog
    BY <1>9 DEF Configure, ConfigureFails, BeginNot, StopsHere, GoesOn, MapSocket, Pushed, ArpDone, Run, Ends,
                CleanUpDeletes, CleanedUp, Stop, Allocate, Writes, Written, fixed, kernel
  <2> QED
    BY <1>4, <2>1
<1>10. CASE Restart
  BY <1>10 DEF Restart, KernelInv
<1>11. ASSUME NEW c \in Configs, Reload(c) PROVE KernelInv'
  <2>1. topo' = topo /\ processes' = processes /\ prog' = prog /\ cfg # None
    BY <1>11 DEF Reload, kernel
  <2>2. Named' = Named
    BY <2>1, SameOrder
  <2> QED
    BY <2>1, <2>2 DEF KernelInv, Orphan
<1> QED
  BY <1>3, <1>5, <1>6, <1>7, <1>8, <1>9, <1>10, <1>11 DEF Next, BringUp, TearDown

-----------------------------------------------------------------------------
(* The filter maps *)

\* A step that does not touch filters or configurations.
LEMMA FilterStays ==
  ASSUME UNCHANGED <<topo, cfg, slot0, bundles, push, filters, spoiled>>
  PROVE  \A who \in {"init", "main"} : Writing(who)' <=> Writing(who)
BY DEF Writing, Good

\* The bring-up.
LEMMA FilterBringUp ==
  ASSUME TypeOK, PhaseInv, FilterInv, BringUp
  PROVE  FilterInv'
<1>0. /\ Len(Order) \in Nat /\ Len(topo.lans) \in Nat /\ Len(topo.lans) <= Len(Order)
      /\ n \in Nat /\ n <= Len(Order)
  BY OrderFacts DEF TypeOK
<1>1. \A c \in Configs : ~Changed(c, c)
  BY DEF Changed
<1>2. CASE at' \in {"undo", "end"}
  BY <1>2 DEF FilterInv
<1>3. CASE Begin
  <2>1. /\ at = "none" /\ at' = "conf" /\ cfg' = slot0 /\ slot0' = slot0
        /\ push' = push /\ push = NoPush /\ bundles' = <<>> /\ slot0 \in Configs
    BY <1>3 DEF Begin, FilterInv, TypeOK
  <2>2. push'["init"].next = 0 /\ push'["main"].next = 0
    BY <2>1 DEF NoPush, Idle
  <2> QED
    BY <1>1, <2>1, <2>2 DEF FilterInv
<1>10. CASE Configure
  <2>1. /\ at = "conf" /\ at' = "up" /\ bundles = <<>>
        /\ UNCHANGED <<topo, n, cfg, slot0, bundles, push, filters, spoiled>>
    BY <1>10 DEF Configure, FilterInv, writing
  <2>2. push["main"].next = 0 => Writing("main")
    BY <2>1 DEF Writing
  <2> QED
    BY <2>1, <2>2, FilterStays DEF FilterInv
<1>4. ASSUME GoesOn \/ MapSocket \/ \E kind, next : Allocate(kind, next)
      PROVE  FilterInv'
  <2>1. /\ at = "up" /\ at' = "up" /\ n' = n
        /\ UNCHANGED <<topo, cfg, slot0, bundles, push, filters, spoiled>>
    BY <1>4 DEF GoesOn, MapSocket, Allocate, AtIface, fixed, writing
  <2> QED
    BY <2>1, FilterStays DEF FilterInv
<1>5. CASE Load
  <2>1. /\ at = "up" /\ at' = "up" /\ n' = n /\ n < Len(Order)
        /\ UNCHANGED <<topo, cfg, slot0, push, filters, spoiled>>
        /\ bundles' = Registered(Current)
    BY <1>5 DEF Load, AtIface, fixed
  <2>2. CASE n < Len(topo.lans)
    BY <1>0, <2>1, <2>2 DEF FilterInv
  <2>3. CASE ~(n < Len(topo.lans))
    <3>1. bundles' = bundles
      BY <2>1, <2>3, CurrentFacts DEF Registered
    <3> QED
      BY <2>1, <3>1, FilterStays DEF FilterInv
  <2> QED
    BY <2>2, <2>3
<1>6. CASE Attach
  <2>1. /\ at = "up" /\ n' = n + 1 /\ n < Len(Order)
        /\ UNCHANGED <<topo, cfg, slot0, bundles, filters, spoiled>>
        /\ at' = IF IsLan(Current) /\ n + 1 = Len(topo.lans) THEN "push" ELSE "up"
        /\ push' = IF IsLan(Current) /\ n + 1 = Len(topo.lans)
                   THEN [push EXCEPT !["init"] = [next |-> 1, with |-> slot0]] ELSE push
    BY <1>6 DEF Attach, AtIface, fixed
  <2>2. IsLan(Current) <=> n < Len(topo.lans)
    BY <2>1, CurrentFacts
  <2>3. CASE n + 1 < Len(topo.lans)
    BY <1>0, <2>1, <2>3 DEF FilterInv
  <2>4. CASE n + 1 = Len(topo.lans)
    <3>1. at' = "push" /\ push' = [push EXCEPT !["init"] = [next |-> 1, with |-> slot0]]
      BY <1>0, <2>1, <2>2, <2>4
    <3>2. /\ push'["main"] = push["main"] /\ push'["init"] = [next |-> 1, with |-> slot0]
      BY <3>1 DEF TypeOK
    <3>3. spoiled \/ (push["main"].next = 0 /\ ~Changed(slot0, cfg))
      BY <1>0, <2>1, <2>4 DEF FilterInv
    <3>4. \A k \in DOMAIN bundles : ~(k < 1)
      BY DEF TypeOK
    <3>5. spoiled \/ Writing("init")'
      BY <2>1, <3>2, <3>3, <3>4 DEF Writing, TypeOK
    <3> QED
      BY <2>1, <3>1, <3>2, <3>3, <3>5 DEF FilterInv
  <2>5. CASE n >= Len(topo.lans)
    <3>1. at' = "up" /\ push' = push /\ n' >= Len(topo.lans) /\ ~(n' < Len(topo.lans))
      BY <1>0, <2>1, <2>2, <2>5
    <3> QED
      BY <2>1, <2>5, <3>1, FilterStays DEF FilterInv
  <2> QED
    BY <1>0, <2>3, <2>4, <2>5
<1>7. CASE Pushed
  <2>1. /\ at = "push" /\ push["init"].next = 0 /\ at' = "arp"
        /\ UNCHANGED <<topo, cfg, slot0, bundles, push, filters, spoiled>>
    BY <1>7 DEF Pushed, fixed, writing
  <2>2. push["main"].next = 0 /\ Writing("init") => Writing("main")
    BY <2>1 DEF Writing
  <2> QED
    BY <2>1, <2>2, FilterStays DEF FilterInv
<1>8. CASE ArpDone \/ Run
  <2>1. /\ at = "arp" \/ (at = "up" /\ n = Len(Order))
        /\ at' \in {"up", "run"} /\ n' = n
        /\ UNCHANGED <<topo, cfg, slot0, bundles, push, filters, spoiled>>
    BY <1>8 DEF ArpDone, Run, fixed, writing
  <2>2. n >= Len(topo.lans) /\ ~(n < Len(topo.lans))
    BY <1>0, <2>1 DEF PhaseInv
  <2> QED
    BY <2>1, <2>2, FilterStays DEF FilterInv
<1>9. ConfigureFails \/ BeginNot \/ StopsHere \/ LoadFails \/ QueueFails \/ AttachFails => at' \in {"undo", "end"}
  BY DEF ConfigureFails, BeginNot, StopsHere, LoadFails, QueueFails, AttachFails, Fails, Undo
<1> QED
  BY <1>2, <1>3, <1>4, <1>5, <1>6, <1>7, <1>8, <1>9, <1>10 DEF BringUp

\* The writers, main's reloads, and the end.
LEMMA FilterOthers ==
  ASSUME TypeOK, PhaseInv, FilterInv,
         \/ TearDown \/ Stop \/ MainDetaches \/ Restart
         \/ \E who \in {"init", "main"} : Writes(who) \/ Written(who)
         \/ \E c \in Configs : Reload(c)
  PROVE  FilterInv'
<1>0. /\ Len(topo.lans) \in Nat /\ n \in Nat
      /\ DOMAIN bundles = 1 .. Len(bundles) /\ Len(bundles) \in Nat
      /\ push \in [{"init", "main"} -> [next : Nat, with : Configs \union {None}]]
      /\ \A k \in DOMAIN bundles : bundles[k] \in Ifaces
  <2>1. Named \subseteq Ifaces
    BY OrderFacts DEF TypeOK, Named, Range
  <2> QED
    BY <2>1, OrderFacts DEF TypeOK
<1>1. CASE TearDown \/ MainDetaches
  <2>1. at' \in {"undo", "end"}
    BY <1>1 DEF TearDown, Ends, CleanUpDetaches, CleanUpDeletes, CleanedUp, MainDetaches, fixed
  <2> QED
    BY <2>1 DEF FilterInv
<1>2. CASE Stop
  <2>1. UNCHANGED <<topo, at, n, cfg, slot0, bundles, push, filters, spoiled>>
    BY <1>2 DEF Stop, writing
  <2> QED
    BY <2>1, FilterStays DEF FilterInv
<1>3. CASE Restart
  BY <1>3 DEF Restart, FilterInv
<1>4. ASSUME NEW who \in {"init", "main"}, Writes(who) PROVE FilterInv'
  <2> DEFINE k == push[who].next
             i == bundles[k]
  <2>1. /\ UNCHANGED <<topo, at, n, cfg, slot0, bundles>> /\ k \in DOMAIN bundles
        /\ push' = [push EXCEPT ![who].next = k + 1]
        /\ \/ filters' = [filters EXCEPT ![i] = push[who].with] /\ spoiled' = spoiled
           \/ spoiled'
    BY <1>4 DEF Writes, fixed
  <2>2. k \in Nat /\ k >= 1 /\ i \in Ifaces
    BY <1>0, <2>1
  <2>3. /\ push'[who].next = k + 1 /\ push'[who].with = push[who].with
        /\ \A w \in {"init", "main"} : w # who => push'[w] = push[w]
    BY <1>0, <2>1
  <2>4. ASSUME Writing(who), ~spoiled' PROVE Writing(who)'
    <3>1. filters' = [filters EXCEPT ![i] = push[who].with]
      BY <2>1, <2>4
    <3>2. push[who].with \in Configs /\ ~Changed(push[who].with, cfg)
      BY <2>2, <2>4 DEF Writing
    <3>3. ASSUME NEW j \in DOMAIN bundles, j < k + 1
          PROVE  filters'[bundles[j]] \in Configs /\ ~Changed(filters'[bundles[j]], cfg)
      <4>1. bundles[j] \in Ifaces
        BY <1>0
      <4>2. CASE bundles[j] = i
        <5>1. filters'[bundles[j]] = push[who].with
          BY <3>1, <4>1, <4>2 DEF TypeOK
        <5> QED
          BY <3>2, <5>1
      <4>3. CASE bundles[j] # i
        <5>1. j < k /\ filters'[bundles[j]] = filters[bundles[j]]
          BY <1>0, <2>2, <3>1, <3>3, <4>1, <4>3 DEF TypeOK
        <5> QED
          BY <2>2, <2>4, <5>1 DEF Writing, Good
      <4> QED
        BY <4>2, <4>3
    <3> QED
      BY <2>1, <2>2, <2>3, <3>2, <3>3 DEF Writing, Good
  <2>5. at # "none"
    BY <2>2 DEF FilterInv, NoPush, Idle
  <2> HIDE DEF k, i
  <2>6. CASE who = "init"
    <3>1. at \notin {"conf", "up", "arp", "run"}
      BY <1>0, <2>2, <2>6 DEF FilterInv, k
    <3> QED
      BY <2>1, <2>3, <2>4, <2>5, <2>6, <3>1 DEF FilterInv
  <2>7. CASE who = "main"
    <3>1. CASE at \in {"conf", "push"} \/ (at = "up" /\ n < Len(topo.lans))
      <4>1. spoiled'
        BY <2>1, <2>2, <2>7, <3>1 DEF FilterInv, k
      <4> QED
        BY <1>0, <2>1, <2>3, <2>7, <3>1, <4>1 DEF FilterInv
    <3>2. CASE ~(at \in {"conf", "push"} \/ (at = "up" /\ n < Len(topo.lans)))
      BY <1>0, <2>1, <2>3, <2>4, <2>5, <2>7, <3>2 DEF FilterInv
    <3> QED
      BY <3>1, <3>2
  <2> QED
    BY <2>6, <2>7
<1>5. ASSUME NEW who \in {"init", "main"}, Written(who) PROVE FilterInv'
  <2>1. /\ UNCHANGED <<topo, at, n, cfg, slot0, bundles, filters, spoiled>>
        /\ push[who].next > Len(bundles) /\ push' = [push EXCEPT ![who] = Idle]
    BY <1>5 DEF Written, fixed
  <2>2. /\ push'[who].next = 0 /\ push[who].next # 0
        /\ \A w \in {"init", "main"} : w # who => push'[w] = push[w]
    BY <1>0, <2>1 DEF Idle
  <2>3. Writing(who) => Writing(who)'
    <3>1. \A k \in DOMAIN bundles : k < push[who].next
      BY <1>0, <2>1
    <3> QED
      BY <2>1, <2>2, <3>1 DEF Writing, Good
  <2>4. at # "none"
    BY <2>2 DEF FilterInv, NoPush, Idle
  <2> QED
    BY <1>0, <2>1, <2>2, <2>3, <2>4 DEF FilterInv
<1>6. ASSUME NEW c \in Configs, Reload(c) PROVE FilterInv'
  <2>1. /\ UNCHANGED <<topo, at, n, bundles, filters>> /\ cfg # None /\ push["main"].next = 0
        /\ cfg' = c /\ slot0' \in {slot0, c}
        /\ push' = IF Changed(cfg, c)
                   THEN [push EXCEPT !["main"] = [next |-> 1, with |-> c]] ELSE push
        /\ spoiled' = (spoiled \/ (Changed(cfg, c) /\
                       (at \in {"conf", "push"} \/ (at = "up" /\ n < Len(topo.lans)))))
    BY <1>6 DEF Reload
  <2>2. at # "none"
    BY <2>1 DEF PhaseInv
  <2>3. CASE Changed(cfg, c)
    <3>1. /\ push'["init"] = push["init"] /\ push'["main"] = [next |-> 1, with |-> c]
          /\ spoiled' = (spoiled \/ at \in {"conf", "push"} \/ (at = "up" /\ n < Len(topo.lans)))
      BY <1>0, <2>1, <2>3
    <3>2. Writing("main")'
      <4>1. ~Changed(c, c) /\ \A k \in DOMAIN bundles : ~(k < 1)
        BY <1>0 DEF Changed
      <4> QED
        BY <2>1, <3>1, <4>1 DEF Writing
    <3> QED
      BY <1>0, <2>1, <2>2, <3>1, <3>2 DEF FilterInv
  <2>4. CASE ~Changed(cfg, c)
    <3>1. push' = push /\ (spoiled' <=> spoiled)
      BY <2>1, <2>4
    <3>2. \A d : ~Changed(d, cfg) => ~Changed(d, c)
      BY <2>4 DEF Changed
    <3>3. \A who \in {"init", "main"} : Writing(who) => Writing(who)'
      BY <2>1, <3>1, <3>2 DEF Writing, Good
    <3>4. ~Changed(slot0, cfg) => ~Changed(slot0', c)
      <4>1. ~Changed(c, c)
        BY DEF Changed
      <4> QED
        BY <2>1, <3>2, <4>1
    <3> QED
      BY <2>1, <2>2, <3>1, <3>3, <3>4 DEF FilterInv
  <2> QED
    BY <2>3, <2>4
<1> QED
  BY <1>1, <1>2, <1>3, <1>4, <1>5, <1>6

-----------------------------------------------------------------------------
(* The theorems *)

\* A first process: nothing is attached.
LEMMA InitBInv == Init => BInv
<1> SUFFICES ASSUME Init PROVE BInv
  OBVIOUS
<1>1. /\ Len(Order) \in Nat /\ n = 0 /\ Up = {} /\ InHand = {} /\ processes = 1
      /\ \A i \in Ifaces : prog[i] = NoProg
  <2>1. topo \in Topologies
    BY DEF Init
  <2> QED
    BY <2>1, OrderFacts DEF Init, Up, InHand
<1>2. TypeOK
  <2>1. /\ <<>> \in Seq(Named) /\ Len(<<>>) <= MaxBundles /\ 0 \in 0 .. Len(Order)
        /\ 0 \in 0 .. MaxReloads /\ 1 \in 1 .. MaxProcesses /\ 0 \in 0 .. 1
    BY <1>1, BringupAssumption
  <2>2. /\ push \in [{"init", "main"} -> [next : Nat, with : Configs \union {None}]]
        /\ filters \in [Ifaces -> Configs \union {None, Torn}]
    BY DEF Init, NoPush, NoFilters, Idle
  <2>3. prog \in [Ifaces -> [by : 0 .. processes, role : {"none", "lan", "wan"}]]
    BY <1>1, <2>1 DEF Init, NoProg
  <2> QED
    BY <2>1, <2>2, <2>3 DEF Init, TypeOK
<1>3. PhaseInv
  BY DEF Init, PhaseInv
<1>4. UpInv
  BY <1>1 DEF Init, UpInv, NoProg
<1>5. UndoInv
  BY DEF Init, UndoInv
<1>6. KernelInv
  BY DEF Init, KernelInv
<1>7. FilterInv
  BY DEF Init, FilterInv
<1>8. MarkInv
  BY DEF Init, MarkInv
<1> QED
  BY <1>2, <1>3, <1>4, <1>5, <1>6, <1>7, <1>8 DEF BInv

\* BInv is inductive.
LEMMA AlwaysBInv == Spec => []BInv
<1>1. ASSUME BInv, Next PROVE BInv'
  <2>1. TypeOK'
    BY <1>1, BringUpTypes, OtherTypes DEF BInv, Next
  <2>2. PhaseInv' /\ UpInv' /\ MarkInv' /\ UndoInv' /\ KernelInv'
    BY <1>1, PhaseKeeps, UpKeeps, MarkKeeps, UndoKeeps, KernelKeeps DEF BInv
  <2>3. FilterInv'
    BY <1>1, FilterBringUp, FilterOthers DEF BInv, Next
  <2> QED
    BY <2>1, <2>2, <2>3 DEF BInv
<1>2. ASSUME BInv, UNCHANGED vars PROVE BInv'
  <2>1. UNCHANGED <<topo, slot0, enabled, l2, cfg, at, stage, n, todo, held, live, open, bundles,
                    push, filters, prog, mapped, marked, stop, reloads, processes, twice, broken,
                    spoiled, unset, plain>>
    BY <1>2 DEF vars
  <2>2. /\ Order' = Order /\ Named' = Named /\ Up' = Up /\ Current' = Current
        /\ \A i : IsLan(i)' <=> IsLan(i)
    BY <2>1, SameOrder DEF Current
  <2>3. /\ InHand' = InHand
        /\ \A i : /\ Program(i)' = Program(i) /\ Of(i)' = Of(i) /\ (Orphan(i)' <=> Orphan(i))
                  /\ MarkFits(i)' <=> MarkFits(i)
    BY <2>1, <2>2 DEF InHand, Program, Of, Orphan, MarkFits
  <2>4. TypeOK' /\ PhaseInv'
    BY <1>2, <2>1, <2>2 DEF BInv, TypeOK, PhaseInv
  <2>5. UpInv'
    BY <1>2, <2>1, <2>2, <2>3 DEF BInv, UpInv
  <2>6. UndoInv' /\ KernelInv' /\ MarkInv'
    BY <1>2, <2>1, <2>2, <2>3 DEF BInv, UndoInv, KernelInv, MarkInv, BringingUp
  <2>7. FilterInv'
    BY <1>2, <2>1, FilterStays DEF BInv, FilterInv
  <2> QED
    BY <2>4, <2>5, <2>6, <2>7 DEF BInv
<1> QED
  BY <1>1, <1>2, InitBInv, PTL DEF Spec

\* The variables of the bring-up keep their types.
THEOREM BringupTypeCorrect == Spec => []TypeOK
<1>1. BInv => TypeOK
  BY DEF BInv
<1> QED
  BY <1>1, AlwaysBInv, PTL

\* For all topologies, failures, stops and kills: an attached program of this
\* process has its socket, and one of an earlier process drops packets only until
\* forwarder_init is called, or where it is not named.
THEOREM NoDropsCorrect == Spec => []NoDrops
<1>1. ASSUME BInv PROVE NoDrops
  <2> SUFFICES ASSUME NEW i \in Ifaces, NEW packet \in Packets, Verdict(i, packet) = "drop"
               PROVE  Orphan(i) /\ (cfg = None \/ i \notin Named)
    BY DEF NoDrops
  <2>1. prog[i].role \in {"none", "lan", "wan"}
    BY <1>1 DEF BInv, TypeOK
  <2>2. prog[i].role = "wan" /\ i \notin mapped
    BY <2>1 DEF Verdict, XdpLan, XdpWan
  <2>3. at \in Working \/ at \in {"undo", "end"}
    BY <1>1 DEF BInv, TypeOK, Working
  <2>4. prog[i].by = processes => i \in mapped
    BY <1>1, <2>3 DEF BInv, UpInv, UndoInv
  <2>5. Orphan(i)
    BY <2>2, <2>4 DEF Orphan
  <2> QED
    BY <1>1, <2>5 DEF BInv, KernelInv
<1> QED
  BY <1>1, AlwaysBInv, PTL

\* Once the packet threads run every interface named redirects what it should, and
\* nothing else; frames marked as encrypted at layer 2 only WANs, and these unless
\* their map could not be written or a reload took all policies away meanwhile.
THEOREM RedirectedCorrect == Spec => []Redirected
<1>1. ASSUME BInv PROVE Redirected
  <2> SUFFICES ASSUME at = "run", NEW i \in Named
               PROVE  /\ \A packet \in Packets \ {"marked"} :
                           Verdict(i, packet) = "redirect" <=>
                             packet \in {"tcp", "udp"} \/ (packet = "ipv4" /\ ~IsLan(i))
                      /\ Verdict(i, "marked") = "redirect" => ~IsLan(i) /\ l2
                      /\ ~IsLan(i) /\ l2 /\ i \notin unset /\ ~plain =>
                           Verdict(i, "marked") = "redirect"
    BY DEF Redirected
  <2>1. i \in Up
    <3>1. n = Len(Order) /\ DOMAIN Order = 1 .. Len(Order)
      BY <1>1, OrderFacts DEF BInv, PhaseInv, TypeOK
    <3> QED
      BY <3>1 DEF Up, Named, Range
  <2>2. i \in mapped /\ prog[i] = Program(i) /\ (IsLan(i) \/ MarkFits(i))
    BY <1>1, <2>1 DEF BInv, UpInv, Working
  <2>3. CASE IsLan(i)
    BY <2>2, <2>3 DEF Program, Verdict, XdpLan, Packets
  <2>4. CASE ~IsLan(i)
    <3>1. \A packet : Verdict(i, packet) = XdpWan(i, packet)
      BY <2>2, <2>4 DEF Program, Verdict
    <3> QED
      BY <2>2, <2>4, <3>1 DEF XdpWan, Packets, MarkFits
  <2> QED
    BY <2>3, <2>4
<1> QED
  BY <1>1, AlwaysBInv, PTL

\* Wherever a bring-up fails or is stopped, and after a forwarder ended, nothing of
\* it is left, and nothing was deleted twice but for one LAN.
THEOREM NothingLeftCorrect == Spec => []NothingLeft
<1>1. ASSUME BInv PROVE NothingLeft
  <2>1. at = "end" => Range(todo) = {}
    BY <1>1 DEF BInv, PhaseInv, Range
  <2> QED
    BY <1>1, <2>1 DEF BInv, UndoInv, NothingLeft
<1> QED
  BY <1>1, AlwaysBInv, PTL

\* Two writers, main and forwarder_init, leave the filters of the policies in
\* force, unless an update fails or a reload comes before the first write.
THEOREM FiltersOfConfigCorrect == Spec => []FiltersOfConfig
<1>1. ASSUME BInv PROVE FiltersOfConfig
  <2> SUFFICES ASSUME at \in {"arp", "run"}, ~spoiled, push["main"].next = 0,
                      NEW i \in Range(bundles)
               PROVE  filters[i] \in Configs /\ ~Changed(filters[i], cfg)
    BY DEF FiltersOfConfig
  <2>1. Writing("main")
    BY <1>1 DEF BInv, FilterInv
  <2> QED
    BY <2>1 DEF Writing, Good, Range
<1> QED
  BY <1>1, AlwaysBInv, PTL

=============================================================================
