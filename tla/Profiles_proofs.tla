---------------------------- MODULE Profiles_proofs ----------------------------
(***************************************************************************)
(* Proofs about what the rows of the profiles become.                      *)
(*                                                                         *)
(* WanSelect: types and windows; for all lists of WANs and weights, round  *)
(* robin gives every WAN its share; a flow stays on a WAN for the WAN's    *)
(* window; only idle flows are forgotten.                                  *)
(*                                                                         *)
(* ConfigMerge: for all tables, however they change during the load: sizes *)
(* and indices of the merged configuration, its wire ids, and what every   *)
(* profile and policy of it comes from.                                    *)
(***************************************************************************)
EXTENDS WanSelect, ConfigMerge, FiniteSetTheorems, SequenceTheorems, WellFoundedInduction, TLAPS

-----------------------------------------------------------------------------
(* Induction, and the loops that are written as folds *)

\* A set of natural numbers that is not empty has a least one.
LEMMA LeastExists ==
  ASSUME NEW S \in SUBSET Nat, S # {}
  PROVE  \E i \in S : \A j \in S : i <= j
<1>1. PICK i \in S : \A j \in S : <<j, i>> \notin OpToRel(<, Nat)
  BY WFMin, NatLessThanWellFounded
<1>2. \A j \in S : ~(j < i)
  BY <1>1, Zenon DEF OpToRel
<1> QED
  BY <1>2

\* A set with 0 and with the successor of each of its numbers has all of them.
LEMMA Induction ==
  ASSUME NEW S, 0 \in S, \A n \in Nat : n \in S => n + 1 \in S
  PROVE  \A n \in Nat : n \in S
<1> DEFINE T == Nat \ S
<1>1. SUFFICES ASSUME T # {} PROVE FALSE
  OBVIOUS
<1>2. PICK i \in T : \A j \in T : i <= j
  BY <1>1, LeastExists
<1>3. i # 0 /\ i - 1 \in Nat /\ ~(i <= i - 1)
  BY <1>2
<1>4. i - 1 \in S
  BY <1>2, <1>3
<1>5. (i - 1) + 1 \in S
  BY <1>3, <1>4
<1> QED
  BY <1>2, <1>5

\* A set of natural numbers up to n has a greatest one, which Max returns.
LEMMA MaxUpTo ==
  ASSUME NEW n \in Nat, NEW D \in SUBSET (0 .. n), D # {}
  PROVE  Max(D) \in D /\ \A j \in D : j <= Max(D)
<1> DEFINE E == {n - j : j \in D}
<1>1. \A j \in D : j \in Nat /\ n - j \in Nat
  OBVIOUS
<1>2. E \in SUBSET Nat /\ E # {}
  BY <1>1
<1>3. PICK i \in E : \A j \in E : i <= j
  BY <1>2, LeastExists
<1>4. PICK m \in D : i = n - m
  BY <1>3
<1>5. \A j \in D : m >= j
  BY SMTT(30), <1>1, <1>3, <1>4
<1>6. Max(D) \in D /\ \A j \in D : Max(D) >= j
  BY <1>5 DEF Max
<1> QED
  BY <1>1, <1>6

LEMMA MaxIs ==
  ASSUME NEW n \in Nat, NEW D \in SUBSET (0 .. n), NEW m \in D, \A j \in D : j <= m
  PROVE  Max(D) = m
<1>1. PICK x : x = Max(D)
  OBVIOUS
<1>2. x \in D /\ m <= x
  BY <1>1, MaxUpTo
<1>3. x <= m /\ m \in Nat /\ x \in Nat
  BY <1>2
<1> QED
  BY <1>1, <1>2, <1>3

\* The table of partial results by which FoldLeft is defined exists: G gives the
\* result with one element more.
FoldTable(it, N, G, base) ==
  \A D \in SUBSET (1 .. N) :
    it[D] = IF D = {} THEN base ELSE G[<<it[D \ {Max(D)}], Max(D)>>]

LEMMA FoldTableExists ==
  ASSUME NEW V, NEW N \in Nat, NEW G \in [V \X (1 .. N) -> V], NEW base \in V
  PROVE  \E it \in [SUBSET (1 .. N) -> V] : FoldTable(it, N, G, base)
<1> DEFINE Has(n) == \E it \in [SUBSET (1 .. n) -> V] : FoldTable(it, n, G, base)
           S == {n \in Nat : n <= N => Has(n)}
<1>1. 0 \in S
  <2> DEFINE it == [D \in SUBSET (1 .. 0) |-> base]
  <2>1. it \in [SUBSET (1 .. 0) -> V] /\ \A D \in SUBSET (1 .. 0) : D = {} /\ it[D] = base
    OBVIOUS
  <2>2. FoldTable(it, 0, G, base)
    BY <2>1 DEF FoldTable
  <2> QED
    BY <2>1, <2>2
<1>2. ASSUME NEW n \in Nat, n \in S PROVE n + 1 \in S
  <2>1. SUFFICES ASSUME n + 1 <= N PROVE Has(n + 1)
    <3> HIDE DEF Has
    <3> QED
      OBVIOUS
  <2>2. PICK old \in [SUBSET (1 .. n) -> V] : FoldTable(old, n, G, base)
    <3>1. n <= N => Has(n)
      <4> HIDE DEF Has
      <4> QED
        BY <1>2
    <3>2. n <= N
      BY <2>1
    <3> QED
      BY <3>1, <3>2, Zenon
  <2> DEFINE it == [D \in SUBSET (1 .. (n + 1)) |->
                      IF n + 1 \in D THEN G[<<old[D \ {n + 1}], n + 1>>] ELSE old[D]]
  <2>3. ASSUME NEW D \in SUBSET (1 .. (n + 1))
        PROVE  it[D] \in V /\ it[D] = IF D = {} THEN base ELSE G[<<it[D \ {Max(D)}], Max(D)>>]
    <3>1. CASE n + 1 \in D
      <4>1. D \ {n + 1} \in SUBSET (1 .. n) /\ D \ {n + 1} \in SUBSET (1 .. (n + 1))
        OBVIOUS
      <4>2. Max(D) = n + 1
        <5>1. D \in SUBSET (0 .. (n + 1)) /\ \A j \in D : j <= n + 1
          OBVIOUS
        <5>2. n + 1 \in Nat
          OBVIOUS
        <5> HIDE DEF it
        <5> QED
          BY <3>1, <5>1, <5>2, MaxIs, Zenon
      <4>3. it[D \ {n + 1}] = old[D \ {n + 1}]
        BY <4>1
      <4>4. it[D] = G[<<old[D \ {n + 1}], n + 1>>]
        BY <3>1
      <4>5. <<old[D \ {n + 1}], n + 1>> \in V \X (1 .. N)
        BY <2>1, <2>2, <4>1
      <4> HIDE DEF it
      <4> QED
        BY <3>1, <4>2, <4>3, <4>4, <4>5
    <3>2. CASE n + 1 \notin D
      <4>1. D \in SUBSET (1 .. n) /\ it[D] = old[D]
        BY <3>2
      <4>2. CASE D = {}
        BY <2>2, <4>1, <4>2 DEF FoldTable
      <4>3. CASE D # {}
        <5>1. Max(D) \in D
          <6>1. D \in SUBSET (0 .. n)
            BY <4>1
          <6> HIDE DEF it
          <6> QED
            BY <4>3, <6>1, MaxUpTo
        <5>2. D \ {Max(D)} \in SUBSET (1 .. n) /\ D \ {Max(D)} \in SUBSET (1 .. (n + 1))
          BY <4>1
        <5>3. it[D \ {Max(D)}] = old[D \ {Max(D)}]
          BY <5>2
        <5> HIDE DEF it
        <5> QED
          BY <2>2, <4>1, <4>3, <5>3 DEF FoldTable
      <4> QED
        BY <4>2, <4>3
    <3> QED
      BY <3>1, <3>2
  <2>4. it \in [SUBSET (1 .. (n + 1)) -> V]
    BY <2>3
  <2> HIDE DEF it
  <2>5. FoldTable(it, n + 1, G, base)
    BY <2>3 DEF FoldTable
  <2> QED
    BY <2>4, <2>5
<1> HIDE DEF S
<1>3. N \in S
  BY <1>1, <1>2, Induction
<1>4. Has(N)
  <2> HIDE DEF Has
  <2> QED
    BY <1>3 DEF S
<1> QED
  BY <1>4

\* The sets of indices that the loop over a list goes through.
LEMMA LoopSets ==
  ASSUME NEW N \in Nat, NEW n \in 1 .. N
  PROVE  /\ 1 .. n \in SUBSET (1 .. N) /\ 1 .. n # {} /\ 1 .. (n - 1) \in SUBSET (1 .. N)
         /\ Max(1 .. n) = n /\ (1 .. n) \ {n} = 1 .. (n - 1)
<1>1. 1 .. n \in SUBSET (0 .. n) /\ n \in Nat /\ n \in 1 .. n /\ \A j \in 1 .. n : j <= n
  OBVIOUS
<1>2. Max(1 .. n) = n
  BY <1>1, MaxIs, Zenon
<1>3. /\ 1 .. n \in SUBSET (1 .. N) /\ 1 .. n # {} /\ 1 .. (n - 1) \in SUBSET (1 .. N)
      /\ (1 .. n) \ {n} = 1 .. (n - 1)
  OBVIOUS
<1> QED
  BY <1>2, <1>3, Zenon

-----------------------------------------------------------------------------
(* A profile's list of WANs *)

WanRow == [wan : Int, weight : Int]

\* The loop of select_wan_idx_for_packet over the profile's WANs.
LEMMA AllowedLoop ==
  ASSUME NEW l \in Seq(WanRow)
  PROVE  \E f : /\ f[0] = <<>> /\ Allowed(l) = f[Len(l)]
                /\ \A n \in 1 .. Len(l) :
                     f[n] = IF Usable(l, l[n]) THEN Append(f[n - 1], l[n]) ELSE f[n - 1]
<1> DEFINE N == Len(l)
           V == Seq(WanRow)
           op(s, e) == IF Usable(l, e) THEN Append(s, e) ELSE s
           G == [x \in V \X (1 .. N) |-> op(x[1], l[x[2]])]
           Is(t) == t = [D \in SUBSET DOMAIN l |->
                           IF D = {} THEN <<>> ELSE op(t[D \ {Max(D)}], l[Max(D)])]
           iter == CHOOSE t : Is(t)
<1>1. N \in Nat /\ DOMAIN l = 1 .. N /\ <<>> \in V /\ \A n \in 1 .. N : l[n] \in WanRow
  OBVIOUS
<1>2. G \in [V \X (1 .. N) -> V]
  <2>1. ASSUME NEW s \in V, NEW n \in 1 .. N PROVE op(s, l[n]) \in V
    BY <1>1
  <2> QED
    BY <2>1
<1>3. PICK it \in [SUBSET (1 .. N) -> V] : FoldTable(it, N, G, <<>>)
  <2> HIDE DEF N, V, G
  <2> QED
    BY <1>1, <1>2, FoldTableExists
<1>4. ASSUME NEW D \in SUBSET (1 .. N), D # {}
      PROVE  it[D] = op(it[D \ {Max(D)}], l[Max(D)])
  <2>1. it[D] = G[<<it[D \ {Max(D)}], Max(D)>>]
    BY <1>3, <1>4 DEF FoldTable
  <2>2. Max(D) \in 1 .. N
    <3>1. D \in SUBSET (0 .. N)
      OBVIOUS
    <3> HIDE DEF N
    <3> QED
      BY <1>1, <1>4, <3>1, MaxUpTo
  <2>3. it[D \ {Max(D)}] \in V
    BY <1>3
  <2> HIDE DEF N, V
  <2> QED
    BY <2>1, <2>2, <2>3
<1>5. Is(it)
  <2>1. it[{}] = <<>>
    BY <1>3 DEF FoldTable
  <2> HIDE DEF op, N
  <2> QED
    BY <1>1, <1>3, <1>4, <2>1
<1>6. Is(iter)
  <2> HIDE DEF Is
  <2> QED
    BY <1>5
<1>7. Allowed(l) = iter[DOMAIN l]
  BY DEF Allowed, FoldLeft, MapThenFoldSet
<1> DEFINE f == [n \in 0 .. N |-> iter[1 .. n]]
<1>8. ASSUME NEW n \in 1 .. N PROVE f[n] = op(f[n - 1], l[n])
  <2>1. iter[1 .. n] = op(iter[(1 .. n) \ {Max(1 .. n)}], l[Max(1 .. n)])
    <3>1. 1 .. n \in SUBSET DOMAIN l /\ 1 .. n # {}
      BY <1>1, LoopSets
    <3> HIDE DEF op, iter
    <3> QED
      BY <1>6, <3>1
  <2> HIDE DEF op, iter
  <2>2. f[n] = iter[1 .. n] /\ f[n - 1] = iter[1 .. (n - 1)]
    BY <1>1
  <2> HIDE DEF f, N
  <2> QED
    BY <1>1, <2>1, <2>2, LoopSets
<1>9. f[0] = <<>>
  <2>1. iter[{}] = <<>>
    <3> HIDE DEF iter, op
    <3> QED
      BY <1>6
  <2>2. f[0] = iter[1 .. 0] /\ 1 .. 0 = {}
    BY <1>1
  <2> HIDE DEF f, iter
  <2> QED
    BY <2>1, <2>2
<1>10. f[N] = Allowed(l)
  <2> HIDE DEF iter
  <2> QED
    BY <1>1, <1>7
<1> HIDE DEF f
<1> QED
  BY <1>8, <1>9, <1>10

\* The rows of a profile; a WAN may be there twice.
IsWanList(l) == l \in Seq(WanRow)

\* The WANs that are left are usable.
LEMMA AllowedFacts ==
  ASSUME NEW l, IsWanList(l)
  PROVE  /\ Allowed(l) \in Seq(WanRow)
         /\ \A i \in DOMAIN Allowed(l) : Usable(l, Allowed(l)[i])
<1> DEFINE N == Len(l)
           From(a, n) == \A i \in DOMAIN a : \E m \in 1 .. n : a[i] = l[m] /\ Usable(l, l[m])
           Good(a, n) == a \in Seq(WanRow) /\ From(a, n)
<1>1. l \in Seq(WanRow) /\ N \in Nat /\ DOMAIN l = 1 .. N /\ \A n \in 1 .. N : l[n] \in WanRow
  BY DEF IsWanList
<1>2. PICK f : /\ f[0] = <<>> /\ Allowed(l) = f[N]
               /\ \A n \in 1 .. N :
                    f[n] = IF Usable(l, l[n]) THEN Append(f[n - 1], l[n]) ELSE f[n - 1]
  BY <1>1, AllowedLoop
<1> DEFINE S == {n \in Nat : n <= N => Good(f[n], n)}
<1>3. 0 \in S
  <2>1. Good(<<>>, 0)
    OBVIOUS
  <2> HIDE DEF Good
  <2> QED
    BY <1>2, <2>1
<1>4. ASSUME NEW n \in Nat, n \in S PROVE n + 1 \in S
  <2>1. SUFFICES ASSUME n + 1 <= N PROVE Good(f[n + 1], n + 1)
    <3> HIDE DEF Good
    <3> QED
      OBVIOUS
  <2> DEFINE a == f[n]  e == l[n + 1]
  <2>2. Good(a, n)
    <3>1. n <= N
      BY <1>1, <2>1
    <3> HIDE DEF Good
    <3> QED
      BY <1>4, <3>1
  <2>3. n + 1 \in 1 .. N /\ e \in WanRow /\ (n + 1) - 1 = n
    BY <1>1, <2>1
  <2>4. f[n + 1] = IF Usable(l, e) THEN Append(a, e) ELSE a
    BY <1>2, <2>3
  <2>5. From(a, n + 1)
    <3>1. \A m \in 1 .. n : m \in 1 .. (n + 1)
      OBVIOUS
    <3> HIDE DEF a
    <3> QED
      BY <2>2, <3>1
  <2>6. CASE ~Usable(l, e)
    BY <2>2, <2>4, <2>5, <2>6
  <2>7. CASE Usable(l, e)
    <3> DEFINE b == Append(a, e)
    <3> HIDE DEF a, e
    <3>1. /\ b \in Seq(WanRow) /\ Len(b) = Len(a) + 1 /\ Len(a) \in Nat /\ DOMAIN a = 1 .. Len(a)
          /\ DOMAIN b = 1 .. (Len(a) + 1) /\ b[Len(a) + 1] = e
          /\ \A i \in DOMAIN a : b[i] = a[i]
      BY <2>2, <2>3
    <3> HIDE DEF b
    <3>2. \A i \in DOMAIN b : i \in DOMAIN a \/ i = Len(a) + 1
      BY <3>1
    <3>3. From(b, n + 1)
      <4>1. n + 1 \in 1 .. (n + 1) /\ e = l[n + 1] /\ Usable(l, l[n + 1])
        BY <2>7 DEF e
      <4> QED
        BY <2>5, <3>1, <3>2, <4>1
    <3>4. f[n + 1] = b
      BY <2>4, <2>7 DEF b
    <3> QED
      BY <3>1, <3>3, <3>4
  <2> QED
    BY <2>6, <2>7
<1> HIDE DEF S
<1>5. N \in S
  BY <1>1, <1>3, <1>4, Induction
<1>6. Good(Allowed(l), N)
  <2> HIDE DEF Good
  <2> QED
    BY <1>1, <1>2, <1>5 DEF S
<1> QED
  BY <1>6

-----------------------------------------------------------------------------
(* Weighted round robin *)

\* The recursive function of running sums exists.
LEMMA RunningSum ==
  ASSUME NEW N \in Nat, NEW g \in [1 .. N -> Nat]
  PROVE  \E s \in [0 .. N -> Nat] :
           s = [i \in 0 .. N |-> IF i = 0 THEN 0 ELSE s[i - 1] + g[i]]
<1> DEFINE G == [x \in Nat \X (1 .. N) |-> x[1] + g[x[2]]]
<1>1. G \in [Nat \X (1 .. N) -> Nat]
  OBVIOUS
<1>2. PICK it \in [SUBSET (1 .. N) -> Nat] : FoldTable(it, N, G, 0)
  <2> HIDE DEF G
  <2> QED
    BY <1>1, FoldTableExists
<1> DEFINE s == [i \in 0 .. N |-> it[1 .. i]]
<1>3. s \in [0 .. N -> Nat]
  OBVIOUS
<1>4. s[0] = 0
  <2>1. it[{}] = 0
    <3> HIDE DEF G
    <3> QED
      BY <1>2 DEF FoldTable
  <2>2. s[0] = it[1 .. 0] /\ 1 .. 0 = {}
    OBVIOUS
  <2> HIDE DEF s
  <2> QED
    BY <2>1, <2>2
<1>5. ASSUME NEW i \in 1 .. N PROVE s[i] = s[i - 1] + g[i]
  <2>1. it[1 .. i] = G[<<it[(1 .. i) \ {Max(1 .. i)}], Max(1 .. i)>>]
    <3> HIDE DEF G
    <3> QED
      BY <1>2, LoopSets DEF FoldTable
  <2>2. it[1 .. i] = G[<<it[1 .. (i - 1)], i>>]
    <3> HIDE DEF G
    <3> QED
      BY <2>1, LoopSets
  <2>3. it[1 .. (i - 1)] \in Nat
    BY <1>2, LoopSets
  <2>4. G[<<it[1 .. (i - 1)], i>>] = it[1 .. (i - 1)] + g[i]
    BY <2>3
  <2>5. s[i] = it[1 .. i] /\ s[i - 1] = it[1 .. (i - 1)]
    OBVIOUS
  <2> HIDE DEF s, G
  <2> QED
    BY <2>2, <2>4, <2>5
<1> HIDE DEF s
<1>6. \A i \in 0 .. N : s[i] = IF i = 0 THEN 0 ELSE s[i - 1] + g[i]
  <2>1. \A i \in 0 .. N : i = 0 \/ i \in 1 .. N
    OBVIOUS
  <2> QED
    BY <1>4, <1>5, <2>1
<1>7. s = [i \in 0 .. N |-> IF i = 0 THEN 0 ELSE s[i - 1] + g[i]]
  BY <1>3, <1>6
<1> QED
  BY <1>3, <1>7

\* What the weights of a profile's usable WANs add up to, WAN by WAN.
LEMMA SharesFacts ==
  ASSUME NEW l, IsWanList(l)
  PROVE  /\ Allowed(l) \in Seq(WanRow)
         /\ \A i \in DOMAIN Allowed(l) : Share(l, Allowed(l)[i]) \in Nat \ {0}
         /\ SharesTo(l) \in [0 .. Len(Allowed(l)) -> Nat]
         /\ SharesTo(l)[0] = 0
         /\ \A i \in 1 .. Len(Allowed(l)) :
              SharesTo(l)[i] = SharesTo(l)[i - 1] + Share(l, Allowed(l)[i])
<1> DEFINE a == Allowed(l)
           N == Len(a)
           g == [i \in 1 .. N |-> Share(l, a[i])]
           Is(t) == t = [i \in 0 .. N |-> IF i = 0 THEN 0 ELSE t[i - 1] + Share(l, a[i])]
           s == CHOOSE t : Is(t)
<1>1. a \in Seq(WanRow) /\ N \in Nat /\ DOMAIN a = 1 .. N /\ \A i \in 1 .. N : a[i] \in WanRow
  BY AllowedFacts
<1>2. \A i \in 1 .. N : Share(l, a[i]) \in Nat \ {0}
  BY <1>1, AllowedFacts DEF Share, Usable, WanRow
<1> HIDE DEF a
<1>3. g \in [1 .. N -> Nat]
  BY <1>2
<1>4. PICK t \in [0 .. N -> Nat] : t = [i \in 0 .. N |-> IF i = 0 THEN 0 ELSE t[i - 1] + g[i]]
  <2> HIDE DEF g, N
  <2> QED
    BY <1>1, <1>3, RunningSum
<1>5. \A i \in 1 .. N : g[i] = Share(l, a[i])
  OBVIOUS
<1>6. Is(t)
  <2> HIDE DEF g
  <2> QED
    BY <1>4, <1>5
<1>7. Is(s)
  <2> HIDE DEF Is
  <2> QED
    BY <1>6
<1>8. SharesTo(l) = s
  BY DEF SharesTo, a
<1> HIDE DEF s
<1>9. s[0] = 0 /\ \A i \in 1 .. N : s[i] = s[i - 1] + Share(l, a[i])
  BY <1>1, <1>7
<1>10. s \in [0 .. N -> Nat]
  <2> DEFINE S == {i \in Nat : i <= N => s[i] \in Nat}
  <2>1. 0 \in S
    BY <1>9
  <2>2. ASSUME NEW i \in Nat, i \in S PROVE i + 1 \in S
    <3>1. SUFFICES ASSUME i + 1 <= N PROVE s[i + 1] \in Nat
      OBVIOUS
    <3>2. i + 1 \in 1 .. N /\ (i + 1) - 1 = i /\ s[i] \in Nat
      BY <1>1, <2>2, <3>1
    <3> QED
      BY <1>2, <1>9, <3>2
  <2> HIDE DEF S
  <2>3. \A i \in Nat : i \in S
    BY <2>1, <2>2, Induction
  <2>4. \A i \in 0 .. N : s[i] \in Nat
    BY <2>3 DEF S
  <2> QED
    BY <1>7, <2>4
<1> QED
  BY <1>1, <1>2, <1>8, <1>9, <1>10 DEF a

\* The sums grow from WAN to WAN.
LEMMA SharesGrow ==
  ASSUME NEW l, IsWanList(l),
         NEW i \in 0 .. Len(Allowed(l)), NEW j \in 0 .. Len(Allowed(l)), i < j
  PROVE  SharesTo(l)[i] < SharesTo(l)[j]
<1> DEFINE N == Len(Allowed(l))
           s == SharesTo(l)
           S == {d \in Nat : i + d + 1 <= N => s[i] < s[i + d + 1]}
<1>1. /\ N \in Nat /\ s \in [0 .. N -> Nat] /\ i \in 0 .. N /\ j \in 0 .. N
      /\ \A n \in 1 .. N : s[n] > s[n - 1]
  <2>1. DOMAIN Allowed(l) = 1 .. N /\ N \in Nat
    BY SharesFacts
  <2>2. s \in [0 .. N -> Nat] /\ \A n \in 1 .. N : Share(l, Allowed(l)[n]) \in Nat \ {0}
    BY <2>1, SharesFacts
  <2>3. ASSUME NEW n \in 1 .. N PROVE s[n] > s[n - 1]
    <3>1. s[n] = s[n - 1] + Share(l, Allowed(l)[n])
      BY SharesFacts
    <3>2. n - 1 \in 0 .. N /\ n \in 0 .. N
      BY <2>1
    <3>3. s[n - 1] \in Nat
      BY <2>2, <3>2
    <3> HIDE DEF s, N
    <3> QED
      BY <2>2, <3>1, <3>3
  <2> QED
    BY <2>1, <2>2, <2>3
<1> HIDE DEF s, N
<1>2. 0 \in S
  <2>1. SUFFICES ASSUME i + 0 + 1 <= N PROVE s[i] < s[i + 0 + 1]
    OBVIOUS
  <2>2. i + 0 + 1 = i + 1 /\ i + 1 \in 1 .. N /\ (i + 1) - 1 = i
    BY <1>1, <2>1
  <2> QED
    BY <1>1, <2>2
<1>3. ASSUME NEW d \in Nat, d \in S PROVE d + 1 \in S
  <2>1. SUFFICES ASSUME i + (d + 1) + 1 <= N PROVE s[i] < s[i + (d + 1) + 1]
    OBVIOUS
  <2>2. /\ i + (d + 1) + 1 \in 1 .. N /\ (i + (d + 1) + 1) - 1 = i + d + 1
        /\ i + (d + 1) + 1 \in 0 .. N /\ i + d + 1 \in 0 .. N /\ i + d + 1 <= N
    BY <1>1, <2>1
  <2>3. s[i] < s[i + d + 1] /\ s[i + d + 1] < s[i + (d + 1) + 1]
    BY <1>1, <1>3, <2>2
  <2> QED
    BY <1>1, <2>2, <2>3
<1> HIDE DEF S
<1>4. j - i - 1 \in Nat /\ i + (j - i - 1) + 1 = j /\ j <= N
  BY <1>1
<1>5. j - i - 1 \in S
  BY <1>2, <1>3, <1>4, Induction
<1> QED
  BY <1>4, <1>5 DEF S, s

\* The slots of a round that are those of the list's i-th WAN.
InShare(l, i, x) == x \in SharesTo(l)[i - 1] .. (SharesTo(l)[i] - 1)

\* The WAN of the packet with number n is the one whose share of the round the
\* number falls into: the loop of flow_table_pick_wan_per_packet.
LEMMA PickIs ==
  ASSUME NEW l, IsWanList(l), NEW n \in Nat, Len(Allowed(l)) > 0
  PROVE  /\ Round(l) \in Nat \ {0}
         /\ \E i \in DOMAIN Allowed(l) : PickPerPacket(l, n) = Allowed(l)[i].wan
         /\ \E i \in DOMAIN Allowed(l) : InShare(l, i, n % Round(l))
         /\ \A i \in DOMAIN Allowed(l) :
              InShare(l, i, n % Round(l)) => PickPerPacket(l, n) = Allowed(l)[i].wan
         /\ \A i, j \in DOMAIN Allowed(l) :
              InShare(l, i, n % Round(l)) /\ InShare(l, j, n % Round(l)) => i = j
<1> DEFINE a == Allowed(l)
           N == Len(a)
           to == SharesTo(l)
           x == n % Round(l)
           In(i) == to[i - 1] <= x /\ x < to[i]
           c == CHOOSE i \in DOMAIN a : In(i)
<1>1. N \in Nat \ {0} /\ DOMAIN a = 1 .. N /\ to \in [0 .. N -> Nat] /\ to[0] = 0
  BY SharesFacts
<1>2. Round(l) = to[N] /\ Round(l) \in Nat \ {0}
  <2>1. Round(l) = to[N]
    BY DEF Round
  <2>2. 0 \in 0 .. N /\ N \in 0 .. N /\ 0 < N
    BY <1>1
  <2>3. to[0] < to[N]
    BY <2>2, SharesGrow
  <2> HIDE DEF to, N
  <2> QED
    BY <1>1, <2>1, <2>2, <2>3
<1>3. x \in Nat /\ x < to[N]
  <2> HIDE DEF to, N
  <2> QED
    BY <1>2
<1>4. \A i, j \in 0 .. N : i < j => to[i] < to[j]
  BY SharesGrow
<1> HIDE DEF to, N, x
<1>5. \E i \in 1 .. N : In(i)
  <2> DEFINE T == {i \in 0 .. N : x < to[i]}
  <2>1. T \in SUBSET Nat /\ T # {}
    BY <1>1, <1>3
  <2>2. PICK i \in T : \A j \in T : i <= j
    <3> HIDE DEF T
    <3> QED
      BY <2>1, LeastExists
  <2>3. i # 0 /\ i - 1 \in 0 .. N /\ i \in 1 .. N
    BY <1>1, <1>3, <2>2
  <2>4. i - 1 \notin T
    <3>1. ~(i <= i - 1)
      BY <2>3
    <3> HIDE DEF T
    <3> QED
      BY <2>2, <3>1
  <2>5. to[i - 1] <= x
    BY <1>1, <1>3, <2>3, <2>4
  <2> QED
    BY <2>2, <2>3, <2>5
<1>6. \A i, j \in 1 .. N : In(i) /\ In(j) => i = j
  <2>1. SUFFICES ASSUME NEW i \in 1 .. N, NEW j \in 1 .. N, In(i), In(j), i < j PROVE FALSE
    BY <1>1
  <2>2. i \in 0 .. N /\ j - 1 \in 0 .. N /\ (i = j - 1 \/ i < j - 1)
    BY <1>1, <2>1
  <2>3. to[i] <= to[j - 1] /\ to[i] \in Nat /\ to[j - 1] \in Nat
    BY <1>1, <1>4, <2>2
  <2> QED
    BY <1>3, <2>1, <2>3
<1>7. c \in 1 .. N /\ In(c)
  <2>1. \E i \in DOMAIN a : In(i)
    BY <1>1, <1>5
  <2> HIDE DEF In
  <2> QED
    BY <1>1, <2>1
<1>8. PickPerPacket(l, n) = a[c].wan
  BY DEF PickPerPacket, a, to, x
<1> HIDE DEF c
<1>9. ASSUME NEW i \in 1 .. N PROVE In(i) <=> x \in to[i - 1] .. (to[i] - 1)
  <2>1. to[i - 1] \in Nat /\ to[i] \in Nat
    BY <1>1
  <2> QED
    BY <1>3, <2>1
<1>10. \A i \in 1 .. N : In(i) <=> InShare(l, i, x)
  BY <1>9 DEF InShare, to
<1> HIDE DEF In, a
<1> QED
  BY <1>1, <1>2, <1>6, <1>7, <1>8, <1>10 DEF a, to, x

\* Numbers that follow each other have each remainder in turn.
LEMMA RemainderValue ==
  ASSUME NEW m \in Nat \ {0}, NEW x \in Int, NEW q \in Int, NEW r \in 0 .. (m - 1),
         x = q * m + r
  PROVE  x % m = r
<1>1. 0 <= r /\ r < m /\ r \in Int /\ m \in Int /\ m > 0
  OBVIOUS
<1> QED
  BY <1>1, Z3

LEMMA Remainder ==
  ASSUME NEW m \in Nat \ {0}, NEW x \in Int
  PROVE  x % m \in 0 .. (m - 1) /\ x \div m \in Int /\ x = (x \div m) * m + (x % m)
<1>1. x % m \in 0 .. (m - 1) /\ x \div m \in Int
  OBVIOUS
<1>2. x = (x \div m) * m + (x % m)
  BY Z3
<1> QED
  BY <1>1, <1>2

LEMMA TakesTurns ==
  ASSUME NEW m \in Nat \ {0}, NEW x \in Nat
  PROVE  /\ \A i, j \in 0 .. (m - 1) : (x + i) % m = (x + j) % m => i = j
         /\ \A r \in 0 .. (m - 1) : \E i \in 0 .. (m - 1) : (x + i) % m = r
<1>1. ASSUME NEW i \in 0 .. (m - 1), NEW j \in 0 .. (m - 1), (x + i) % m = (x + j) % m
      PROVE  i = j
  <2> DEFINE p == (x + i) \div m  q == (x + j) \div m  r == (x + i) % m
  <2>1. /\ x + i \in Int /\ x + j \in Int
        /\ p \in Int /\ q \in Int /\ r \in 0 .. (m - 1)
        /\ x + i = p * m + r /\ x + j = q * m + r
    <3>1. x + i \in Int /\ x + j \in Int
      OBVIOUS
    <3>2. p \in Int /\ r \in 0 .. (m - 1) /\ x + i = p * m + r
      BY <3>1, Remainder, Zenon
    <3>3. q \in Int /\ x + j = q * m + ((x + j) % m)
      BY <3>1, Remainder, Zenon
    <3> QED
      BY <1>1, <3>1, <3>2, <3>3, Zenon
  <2> HIDE DEF p, q, r
  <2>2. i - j = (p - q) * m
    BY <2>1, Z3
  <2>3. p - q \in Int /\ i - j < m /\ j - i < m
    BY <2>1
  <2>4. p - q = 0
    <3>1. p - q >= 1 => (p - q) * m >= m
      BY <2>1, Z3
    <3>2. p - q <= -1 => (p - q) * m <= -m
      BY <2>1, Z3
    <3> QED
      BY <2>2, <2>3, <3>1, <3>2
  <2> QED
    BY <2>2, <2>4
<1>2. ASSUME NEW r \in 0 .. (m - 1) PROVE \E i \in 0 .. (m - 1) : (x + i) % m = r
  <2> DEFINE q == x \div m  s == x % m
  <2>1. q \in Int /\ s \in 0 .. (m - 1) /\ x = q * m + s
    BY Remainder
  <2> HIDE DEF q, s
  <2>2. CASE s <= r
    <3>1. x + (r - s) = q * m + r /\ r - s \in 0 .. (m - 1) /\ x + (r - s) \in Int
      BY <2>1, <2>2
    <3>2. (x + (r - s)) % m = r
      BY <2>1, <3>1, RemainderValue
    <3> QED
      BY <3>1, <3>2
  <2>3. CASE r < s
    <3>1. (q + 1) * m = q * m + m
      BY <2>1, Z3
    <3>2. /\ x + ((r - s) + m) = (q + 1) * m + r /\ (r - s) + m \in 0 .. (m - 1)
          /\ x + ((r - s) + m) \in Int /\ q + 1 \in Int
      BY <2>1, <2>3, <3>1
    <3>3. (x + ((r - s) + m)) % m = r
      BY <2>1, <3>2, RemainderValue
    <3> QED
      BY <3>2, <3>3
  <2> QED
    BY <2>1, <2>2, <2>3
<1> QED
  BY <1>1, <1>2

\* Of any round of packets a WAN gets its share.
LEMMA RoundShares ==
  ASSUME NEW l, IsWanList(l), Len(Allowed(l)) > 0, NEW n \in Nat, NEW w
  PROVE  Cardinality({j \in 1 .. Round(l) : PickPerPacket(l, n + (j - 1)) = w})
           = Cardinality(Parts(l, w))
<1> DEFINE R == Round(l)
           a == Allowed(l)
           N == Len(a)
           to == SharesTo(l)
           Slot(j) == (n + (j - 1)) % R
           Picked == {j \in 1 .. R : PickPerPacket(l, n + (j - 1)) = w}
           Place(j) == CHOOSE i \in 1 .. N : InShare(l, i, Slot(j))
           g == [j \in Picked |-> <<Place(j), (Slot(j) - to[Place(j) - 1]) + 1>>]
<1>1. N \in Nat /\ N > 0 /\ DOMAIN a = 1 .. N /\ to \in [0 .. N -> Nat]
  BY SharesFacts
<1>2. R \in Nat \ {0} /\ R = to[N]
  <2>1. 0 \in Nat
    OBVIOUS
  <2> QED
    BY <2>1, PickIs DEF Round
<1>3. ASSUME NEW i \in 1 .. N
      PROVE  /\ to[i - 1] \in Nat /\ to[i] = to[i - 1] + Share(l, a[i]) /\ to[i] <= R
             /\ Share(l, a[i]) \in Nat \ {0}
  <2>1. i - 1 \in 0 .. N /\ i \in 0 .. N /\ N \in 0 .. N /\ i \in DOMAIN a
    BY <1>1
  <2>2. to[i - 1] \in Nat /\ to[i] \in Nat /\ Share(l, a[i]) \in Nat \ {0}
    BY <1>1, <2>1, SharesFacts
  <2>3. to[i] = to[i - 1] + Share(l, a[i])
    BY SharesFacts
  <2>5. i < N => to[i] < to[N]
    BY <2>1, SharesGrow
  <2> HIDE DEF R, to, N, a
  <2>4. i = N \/ i < N
    BY <1>1
  <2> QED
    BY <1>2, <2>2, <2>3, <2>4, <2>5
<1>4. ASSUME NEW j \in 1 .. R
      PROVE  /\ n + (j - 1) \in Nat /\ Slot(j) \in 0 .. (R - 1)
             /\ \E i \in 1 .. N : InShare(l, i, Slot(j))
             /\ \A i \in 1 .. N : InShare(l, i, Slot(j)) => PickPerPacket(l, n + (j - 1)) = a[i].wan
             /\ \A i, m \in 1 .. N : InShare(l, i, Slot(j)) /\ InShare(l, m, Slot(j)) => i = m
  <2>1. n + (j - 1) \in Nat /\ Slot(j) \in 0 .. (R - 1)
    <3> HIDE DEF R
    <3> QED
      BY <1>2
  <2> QED
    BY <1>1, <2>1, PickIs
<1>5. ASSUME NEW i \in 1 .. N, NEW x \in Int
      PROVE  InShare(l, i, x) <=> to[i - 1] <= x /\ x < to[i]
  <2>1. to[i - 1] \in Int /\ to[i] \in Int
    BY <1>3
  <2> HIDE DEF to
  <2> QED
    BY <2>1 DEF InShare, to
<1>6. \A j \in 1 .. R : Place(j) \in 1 .. N /\ InShare(l, Place(j), Slot(j))
  <2> HIDE DEF N, R
  <2> QED
    BY <1>4
<1>7. \A x : x \in Parts(l, w)
             <=> \E i \in 1 .. N : a[i].wan = w /\ \E u \in 1 .. Share(l, a[i]) : x = <<i, u>>
  BY <1>1 DEF Parts
<1> HIDE DEF R, to, a, N, Slot, Place
<1>8. \A j \in Picked : j \in 1 .. R /\ PickPerPacket(l, n + (j - 1)) = w
  OBVIOUS
<1>9. ASSUME NEW j \in Picked
      PROVE  /\ Place(j) \in 1 .. N /\ a[Place(j)].wan = w
             /\ (Slot(j) - to[Place(j) - 1]) + 1 \in 1 .. Share(l, a[Place(j)])
             /\ g[j] \in Parts(l, w)
  <2>1. j \in 1 .. R /\ Place(j) \in 1 .. N /\ InShare(l, Place(j), Slot(j)) /\ Slot(j) \in Int
    BY <1>2, <1>4, <1>6, <1>8
  <2>2. a[Place(j)].wan = w
    BY <1>4, <1>8, <2>1
  <2>3. to[Place(j) - 1] <= Slot(j) /\ Slot(j) < to[Place(j)]
    BY <1>5, <2>1
  <2>4. (Slot(j) - to[Place(j) - 1]) + 1 \in 1 .. Share(l, a[Place(j)])
    BY SMTT(30), <1>3, <2>1, <2>3
  <2>5. g[j] = <<Place(j), (Slot(j) - to[Place(j) - 1]) + 1>>
    OBVIOUS
  <2> HIDE DEF g
  <2> QED
    BY <1>7, <2>1, <2>2, <2>4, <2>5
<1>10. g \in [Picked -> Parts(l, w)]
  BY <1>9
<1>11. ASSUME NEW i \in Picked, NEW j \in Picked, g[i] = g[j] PROVE i = j
  <2>1. Place(i) = Place(j) /\ (Slot(i) - to[Place(i) - 1]) + 1 = (Slot(j) - to[Place(j) - 1]) + 1
    BY <1>11
  <2>2. Slot(i) \in Int /\ Slot(j) \in Int /\ to[Place(i) - 1] \in Int
        /\ i \in 1 .. R /\ j \in 1 .. R
    <3>1. i \in 1 .. R /\ j \in 1 .. R
      BY <1>8
    <3>2. Slot(i) \in 0 .. (R - 1) /\ Slot(j) \in 0 .. (R - 1)
      BY <1>4, <3>1
    <3>3. to[Place(i) - 1] \in Nat
      BY <1>3, <1>9
    <3> QED
      BY <1>2, <3>1, <3>2, <3>3
  <2>3. Slot(i) = Slot(j)
    BY <2>1, <2>2
  <2>4. i - 1 \in 0 .. (R - 1) /\ j - 1 \in 0 .. (R - 1) /\ i \in Int /\ j \in Int
    BY <1>2, <2>2
  <2>5. i - 1 = j - 1
    BY <1>2, <2>3, <2>4, TakesTurns DEF Slot
  <2> QED
    BY <2>4, <2>5
<1>12. ASSUME NEW r \in 0 .. (R - 1) PROVE \E d \in 0 .. (R - 1) : (n + d) % R = r
  <2>1. R \in Nat \ {0}
    BY <1>2
  <2>2. \A s \in 0 .. (R - 1) : \E d \in 0 .. (R - 1) : (n + d) % R = s
    BY <2>1, TakesTurns
  <2> QED
    BY <2>2
<1>13. ASSUME NEW x \in Parts(l, w) PROVE \E j \in Picked : g[j] = x
  <2>0. PICK i \in 1 .. N : a[i].wan = w /\ \E u \in 1 .. Share(l, a[i]) : x = <<i, u>>
    BY <1>7
  <2>1. PICK u \in 1 .. Share(l, a[i]) : a[i].wan = w /\ x = <<i, u>>
    BY <2>0
  <2> DEFINE y == to[i - 1] + (u - 1)
  <2>2. y \in 0 .. (R - 1) /\ to[i - 1] <= y /\ y < to[i] /\ (y - to[i - 1]) + 1 = u
    <3>1. /\ to[i - 1] \in Nat /\ to[i] = to[i - 1] + Share(l, a[i]) /\ to[i] <= R
          /\ Share(l, a[i]) \in Nat
      BY <1>3
    <3>2. PICK f, h \in Nat : f = to[i - 1] /\ h = Share(l, a[i])
      BY <3>1
    <3>3. y = f + (u - 1) /\ u \in 1 .. h /\ f + h <= R
      BY <2>1, <3>1, <3>2
    <3>4. y \in 0 .. (R - 1) /\ f <= y /\ y < f + h /\ (y - f) + 1 = u
      <4>1. PICK q \in Nat : q = R
        BY <1>2
      <4>2. u \in Nat /\ 1 <= u /\ u <= h
        BY <3>3
      <4>3. y = f + (u - 1) /\ f + h <= q
        BY <3>3, <4>1
      <4> HIDE DEF y, R
      <4>4. y \in 0 .. (q - 1) /\ f <= y /\ y < f + h /\ (y - f) + 1 = u
        BY <4>2, <4>3
      <4> QED
        BY <4>1, <4>4
    <3> HIDE DEF y
    <3> QED
      BY <3>1, <3>2, <3>4
  <2> HIDE DEF y
  <2>3. PICK d \in 0 .. (R - 1) : (n + d) % R = y
    BY <1>12, <2>2
  <2>4. PICK j \in 1 .. R : j = d + 1 /\ j - 1 = d
    BY <1>2
  <2>5. Slot(j) = y
    BY <2>3, <2>4 DEF Slot
  <2>6. InShare(l, i, Slot(j))
    BY <1>2, <1>5, <2>1, <2>2, <2>5
  <2>7. Place(j) = i /\ j \in Picked
    BY <1>4, <1>6, <2>1, <2>6
  <2>8. g[j] = <<i, (y - to[i - 1]) + 1>>
    BY <2>5, <2>7
  <2> QED
    BY <2>1, <2>2, <2>7, <2>8
<1> HIDE DEF g, Picked
<1>14. ExistsBijection(Picked, Parts(l, w))
  <2>1. DOMAIN g = Picked
    BY <1>10
  <2>2. g \in Bijection(Picked, Parts(l, w))
    BY <1>10, <1>11, <1>13, <2>1 DEF Bijection, Injection, Surjection, IsInjective
  <2> QED
    BY <2>2 DEF ExistsBijection
<1>15. IsFiniteSet(Picked)
  <2>1. 1 \in Int /\ R \in Int /\ Picked \in SUBSET (1 .. R)
    BY <1>2, <1>8
  <2>2. IsFiniteSet(1 .. R)
    BY <2>1, FS_Interval, Zenon
  <2> QED
    BY <2>1, <2>2, FS_Subset, Zenon
<1>16. Cardinality(Parts(l, w)) = Cardinality(Picked)
  BY <1>14, <1>15, FS_Bijection
<1> QED
  BY <1>16 DEF Picked, R

-----------------------------------------------------------------------------
(* The windows *)

\* The loop over a profile's weights, as AllowedLoop for its WANs.
LEMMA WeightSumLoop ==
  ASSUME NEW l \in Seq(WanRow)
  PROVE  \E f : /\ f[0] = 0 /\ WeightSum(l) = f[Len(l)]
                /\ \A n \in 1 .. Len(l) :
                     f[n] = IF l[n].weight > 0 THEN f[n - 1] + l[n].weight ELSE f[n - 1]
<1> DEFINE N == Len(l)
           op(s, e) == IF e.weight > 0 THEN s + e.weight ELSE s
           G == [x \in Nat \X (1 .. N) |-> op(x[1], l[x[2]])]
           Is(t) == t = [D \in SUBSET DOMAIN l |->
                           IF D = {} THEN 0 ELSE op(t[D \ {Max(D)}], l[Max(D)])]
           iter == CHOOSE t : Is(t)
<1>1. N \in Nat /\ DOMAIN l = 1 .. N /\ 0 \in Nat /\ \A n \in 1 .. N : l[n] \in WanRow
  OBVIOUS
<1>2. G \in [Nat \X (1 .. N) -> Nat]
  <2>1. ASSUME NEW s \in Nat, NEW n \in 1 .. N PROVE op(s, l[n]) \in Nat
    BY <1>1 DEF WanRow
  <2> QED
    BY <2>1
<1>3. PICK it \in [SUBSET (1 .. N) -> Nat] : FoldTable(it, N, G, 0)
  <2> HIDE DEF N, G
  <2> QED
    BY <1>1, <1>2, FoldTableExists
<1>4. ASSUME NEW D \in SUBSET (1 .. N), D # {}
      PROVE  it[D] = op(it[D \ {Max(D)}], l[Max(D)])
  <2>1. it[D] = G[<<it[D \ {Max(D)}], Max(D)>>]
    BY <1>3, <1>4 DEF FoldTable
  <2>2. Max(D) \in 1 .. N
    <3>1. D \in SUBSET (0 .. N)
      OBVIOUS
    <3> HIDE DEF N
    <3> QED
      BY <1>1, <1>4, <3>1, MaxUpTo
  <2>3. it[D \ {Max(D)}] \in Nat
    BY <1>3
  <2> HIDE DEF N
  <2> QED
    BY <2>1, <2>2, <2>3
<1>5. Is(it)
  <2>1. it[{}] = 0
    BY <1>3 DEF FoldTable
  <2> HIDE DEF op, N
  <2> QED
    BY <1>1, <1>3, <1>4, <2>1
<1>6. Is(iter)
  <2> HIDE DEF Is
  <2> QED
    BY <1>5
<1>7. WeightSum(l) = iter[DOMAIN l]
  BY DEF WeightSum, FoldLeft, MapThenFoldSet
<1> DEFINE f == [n \in 0 .. N |-> iter[1 .. n]]
<1>8. ASSUME NEW n \in 1 .. N PROVE f[n] = op(f[n - 1], l[n])
  <2>1. iter[1 .. n] = op(iter[(1 .. n) \ {Max(1 .. n)}], l[Max(1 .. n)])
    <3>1. 1 .. n \in SUBSET DOMAIN l /\ 1 .. n # {}
      BY <1>1, LoopSets
    <3> HIDE DEF op, iter
    <3> QED
      BY <1>6, <3>1
  <2> HIDE DEF op, iter
  <2>2. f[n] = iter[1 .. n] /\ f[n - 1] = iter[1 .. (n - 1)]
    BY <1>1
  <2> HIDE DEF f, N
  <2> QED
    BY <1>1, <2>1, <2>2, LoopSets
<1>9. f[0] = 0
  <2>1. iter[{}] = 0
    <3> HIDE DEF iter, op
    <3> QED
      BY <1>6
  <2>2. f[0] = iter[1 .. 0] /\ 1 .. 0 = {}
    BY <1>1
  <2> HIDE DEF f, iter
  <2> QED
    BY <2>1, <2>2
<1>10. f[N] = WeightSum(l)
  <2> HIDE DEF iter
  <2> QED
    BY <1>1, <1>7
<1> HIDE DEF f
<1> QED
  BY <1>8, <1>9, <1>10

LEMMA RowOf ==
  ASSUME NEW l \in Seq(WanRow)
  PROVE  /\ Len(l) \in Nat /\ DOMAIN l = 1 .. Len(l)
         /\ \A i \in DOMAIN l : l[i] \in WanRow /\ l[i].wan \in Int /\ l[i].weight \in Int
<1>1. Len(l) \in Nat /\ DOMAIN l = 1 .. Len(l) /\ \A i \in DOMAIN l : l[i] \in WanRow
  OBVIOUS
<1>2. \A r \in WanRow : r.wan \in Int /\ r.weight \in Int
  BY DEF WanRow
<1> QED
  BY <1>1, <1>2, Zenon

LEMMA WeightSumPositive ==
  ASSUME NEW l \in Seq(WanRow), NEW i \in DOMAIN l, l[i].weight > 0
  PROVE  WeightSum(l) \in Nat \ {0}
<1> DEFINE N == Len(l)
<1>1. /\ N \in Nat /\ DOMAIN l = 1 .. N /\ i \in 1 .. N
      /\ \A n \in 1 .. N : l[n].weight \in Int
  <2>1. \A n \in DOMAIN l : l[n].weight \in Int
    BY RowOf, Zenon
  <2> QED
    BY <2>1, RowOf
<1>2. PICK f : /\ f[0] = 0 /\ WeightSum(l) = f[N]
               /\ \A n \in 1 .. N :
                    f[n] = IF l[n].weight > 0 THEN f[n - 1] + l[n].weight ELSE f[n - 1]
  BY WeightSumLoop
<1> DEFINE S == {n \in Nat : n <= N => f[n] \in Nat /\ (i <= n => f[n] > 0)}
<1>3. 0 \in S
  BY <1>1, <1>2
<1>4. ASSUME NEW n \in Nat, n \in S PROVE n + 1 \in S
  <2>1. SUFFICES ASSUME n + 1 <= N
                 PROVE  f[n + 1] \in Nat /\ (i <= n + 1 => f[n + 1] > 0)
    OBVIOUS
  <2>2. n + 1 \in 1 .. N /\ (n + 1) - 1 = n /\ f[n] \in Nat /\ (i <= n => f[n] > 0)
    BY <1>1, <1>4, <2>1
  <2>3. f[n + 1] = IF l[n + 1].weight > 0 THEN f[n] + l[n + 1].weight ELSE f[n]
    BY <1>2, <2>2
  <2>4. i <= n + 1 => i <= n \/ l[n + 1].weight > 0
    <3>1. i <= n + 1 => i <= n \/ i = n + 1
      BY <1>1
    <3> QED
      BY <3>1
  <2> HIDE DEF N
  <2> QED
    BY <1>1, <2>2, <2>3, <2>4
<1> HIDE DEF S
<1>5. N \in S
  BY <1>1, <1>3, <1>4, Induction
<1> QED
  BY <1>1, <1>2, <1>5 DEF S

LEMMA ListsGiven ==
  ASSUME NEW p \in Profile, NEW l \in WanLists[p]
  PROVE  IsWanList(l) /\ l \in Seq(WanRow)
BY WanSelectAssumption DEF IsWanList, WanRow

\* A window is within its two limits, whatever the weights.
LEMMA WindowSizeTyped ==
  ASSUME NEW ws, \A p \in Profile : ws[p] \in WanLists[p], NEW w \in Wan
  PROVE  WindowSize(ws, w) \in MinWindow .. BaseWindow
<1>1. MinWindow \in Nat /\ BaseWindow \in Nat /\ MinWindow <= BaseWindow /\ NProfile \in Nat
  BY WanSelectAssumption
<1>2. CASE Weighing(ws, w) = {}
  BY <1>1, <1>2 DEF WindowSize
<1>3. CASE Weighing(ws, w) # {}
  <2> DEFINE Ps == Weighing(ws, w)
             p == CHOOSE q \in Ps : \A r \in Ps : r <= q
             l == ws[p]
             Js == {j \in DOMAIN l : l[j].wan = w /\ l[j].weight > 0}
             i == Max(Js)
  <2>1. Ps \in SUBSET (0 .. NProfile) /\ Ps # {} /\ Ps \in SUBSET Profile
    BY <1>1, <1>3 DEF Weighing, Profile
  <2>2. p \in Ps
    <3>1. PICK m : m = Max(Ps)
      OBVIOUS
    <3>2. m \in Ps /\ \A r \in Ps : r <= m
      <4> HIDE DEF Ps
      <4> QED
        BY <1>1, <2>1, <3>1, MaxUpTo
    <3>3. \E q \in Ps : \A r \in Ps : r <= q
      BY <3>2
    <3> HIDE DEF Ps
    <3> QED
      BY <3>3
  <2>3. PICK j \in DOMAIN l : l[j].wan = w /\ l[j].weight > 0
    <3> HIDE DEF p
    <3> QED
      BY <2>2 DEF Weighing
  <2>4. l \in Seq(WanRow)
    <3>1. p \in Profile
      BY <2>1, <2>2
    <3>2. ws[p] \in WanLists[p]
      BY <3>1
    <3> HIDE DEF p
    <3> QED
      BY <3>1, <3>2, ListsGiven
  <2> HIDE DEF p, l
  <2>5. WeightSum(l) \in Nat \ {0}
    BY <2>3, <2>4, WeightSumPositive
  <2>6. i \in DOMAIN l
    <3>1. Len(l) \in Nat /\ Js \in SUBSET (0 .. Len(l)) /\ Js # {} /\ Js \in SUBSET DOMAIN l
      BY <2>3, <2>4, RowOf
    <3> HIDE DEF Js
    <3> QED
      BY <3>1, MaxUpTo
  <2> HIDE DEF i
  <2>7. l[i].weight \in Int
    BY <2>4, <2>6, RowOf, Zenon
  <2>8. PICK b \in Int : b = BaseWindow * l[i].weight
    BY <1>1, <2>7
  <2>9. PICK c \in Int : c = b \div WeightSum(l)
    BY <2>5
  <2>10. WindowSize(ws, w) = Clamped(c)
    <3>1. WindowSize(ws, w) = Clamped((BaseWindow * l[i].weight) \div WeightSum(l))
      BY <1>3 DEF WindowSize, p, l, i, Js
    <3> QED
      BY <2>8, <2>9, <3>1
  <2> QED
    BY <1>1, <2>9, <2>10 DEF Clamped
<1> QED
  BY <1>2, <1>3

-----------------------------------------------------------------------------
(* Type correctness *)

JobOk(j) ==
  /\ j = NoJob \/ j \in [flow : Flow, len : Lens, now : 0 .. MaxClock]
  /\ j.now <= clock

WanTypeInv ==
  /\ DOMAIN wans = Profile /\ \A p \in Profile : wans[p] \in WanLists[p]
  /\ seq \in 0 .. MaxPicks /\ clock \in 0 .. MaxClock
  /\ next_wan \in (-IntMax - 1) .. IntMax
  /\ window \in [Wan -> MinWindow .. BaseWindow]
  /\ entry \in [Flow -> [live : BOOLEAN, wan : (1 - NWan) .. (NWan - 1), bytes : Nat,
                         seen : 0 .. MaxClock]]
  /\ DOMAIN job = Worker /\ \A t \in Worker : JobOk(job[t])
  /\ gc \in [on : BOOLEAN, now : 0 .. MaxClock, i : Nat] /\ gc.now <= clock
  /\ stay \in [Flow -> Nat] /\ last \in [Flow -> 0 .. MaxClock]

\* No thread takes longer than MaxDelay from its clock_gettime to the lock.
DelayInv == \A t \in Worker : job[t] # NoJob => clock - job[t].now <= MaxDelay

\* When a flow was last seen, by its entry and by the clock.
SeenInv ==
  \A f \in Flow :
    entry[f].live => /\ last[f] <= entry[f].seen + MaxDelay
                     /\ entry[f].seen <= clock

\* A flow has sent over its WAN what its entry counts there; or that and the
\* packet that moved it.
StayInv ==
  \A f \in Flow :
    entry[f].live /\ entry[f].wan \in Wan =>
      LET e == entry[f]  size == window[e.wan]
      IN  \/ stay[f] = e.bytes /\ (e.bytes < size \/ e.bytes \in Lens)
          \/ \E n \in Lens : stay[f] = e.bytes + n /\ e.bytes < size

\* The last picks of a profile are those of the counter's last values.
PicksOk(l, s, q) ==
  /\ s \in Seq(Int) /\ Len(s) <= Round(l)
  /\ Len(Allowed(l)) = 1 => \A j \in DOMAIN s : s[j] = Allowed(l)[1].wan
  /\ Len(Allowed(l)) > 1 =>
       Len(s) <= q /\ \A j \in DOMAIN s : s[j] = PickPerPacket(l, (q - Len(s)) + (j - 1))

PickInv == DOMAIN picked = Profile /\ \A p \in Profile : PicksOk(wans[p], picked[p], seq)

LEMMA WanConstants ==
  /\ NWan \in Nat \ {0} /\ IntMax \in Nat \ {0} /\ MinWindow \in Nat \ {0} /\ BaseWindow \in Nat
  /\ FLOW_TIMEOUT_SEC \in Nat /\ MaxDelay \in Nat /\ MaxClock \in Nat /\ MaxPicks \in Nat
  /\ MinWindow <= BaseWindow /\ Wrap \in Nat /\ Wrap > FLOW_TIMEOUT_SEC + MaxClock
  /\ ByteWrap \in Nat /\ \A n \in Lens : n \in Nat \ {0} /\ ByteWrap > BaseWindow + n
  /\ \A b \in Bucket : b \in Nat
BY WanSelectAssumption

LEMMA WanInit == Init => WanTypeInv /\ DelayInv /\ SeenInv /\ StayInv
<1> SUFFICES ASSUME Init PROVE WanTypeInv /\ DelayInv /\ SeenInv /\ StayInv
  OBVIOUS
<1>1. DOMAIN wans = Profile /\ \A p \in Profile : wans[p] \in WanLists[p]
  BY DEF Init
<1>2. window \in [Wan -> MinWindow .. BaseWindow]
  <2>1. \A w \in Wan : WindowSize(wans, w) \in MinWindow .. BaseWindow
    BY <1>1, WindowSizeTyped, Zenon
  <2>2. window = [w \in Wan |-> WindowSize(wans, w)]
    BY DEF Init
  <2> QED
    BY <2>1, <2>2
<1>3. entry \in [Flow -> [live : BOOLEAN, wan : (1 - NWan) .. (NWan - 1), bytes : Nat,
                          seen : 0 .. MaxClock]]
  <2>1. NoEntry \in [live : BOOLEAN, wan : (1 - NWan) .. (NWan - 1), bytes : Nat,
                     seen : 0 .. MaxClock]
    BY WanConstants DEF NoEntry
  <2> QED
    BY <2>1 DEF Init
<1>4. DOMAIN job = Worker /\ \A t \in Worker : JobOk(job[t])
  <2>1. NoJob.now <= 0
    BY DEF NoJob
  <2> QED
    BY <2>1 DEF Init, JobOk
<1>5. gc \in [on : BOOLEAN, now : 0 .. MaxClock, i : Nat] /\ gc.now <= clock
  BY WanConstants DEF Init, NoGc
<1>6. /\ seq \in 0 .. MaxPicks /\ clock \in 0 .. MaxClock
      /\ next_wan \in (-IntMax - 1) .. IntMax
      /\ stay \in [Flow -> Nat] /\ last \in [Flow -> 0 .. MaxClock]
  BY WanConstants DEF Init
<1>7. WanTypeInv
  BY <1>1, <1>2, <1>3, <1>4, <1>5, <1>6 DEF WanTypeInv
<1>8. \A t \in Worker : job[t] = NoJob
  BY DEF Init
<1>9. \A f \in Flow : ~entry[f].live
  BY DEF Init, NoEntry
<1> QED
  BY <1>7, <1>8, <1>9 DEF DelayInv, SeenInv, StayInv

\* What a packet leaves in its flow's entry.
LEMMA CountedIs ==
  ASSUME WanTypeInv, NEW f \in Flow, NEW n \in Lens, NEW x
  PROVE  [Counted(f, n) EXCEPT !.seen = x]
           = [live |-> entry[f].live,
              wan |-> IF Spent(f, n) THEN (entry[f].wan + 1) % NWan ELSE entry[f].wan,
              bytes |-> IF Spent(f, n) THEN 0 ELSE (entry[f].bytes + n) % ByteWrap,
              seen |-> x]
<1>1. entry[f] \in [live : BOOLEAN, wan : (1 - NWan) .. (NWan - 1), bytes : Nat,
                    seen : 0 .. MaxClock]
  BY DEF WanTypeInv
<1>2. PICK e : e = entry[f]
  OBVIOUS
<1>3. ASSUME NEW b, NEW w
      PROVE  [[e EXCEPT !.bytes = b, !.wan = w] EXCEPT !.seen = x]
               = [live |-> e.live, wan |-> w, bytes |-> b, seen |-> x]
  <2>1. e = [live |-> e.live, wan |-> e.wan, bytes |-> e.bytes, seen |-> e.seen]
    BY <1>1, <1>2
  <2>2. PICK l0, w0, b0, s0 : e = [live |-> l0, wan |-> w0, bytes |-> b0, seen |-> s0]
    BY <2>1
  <2>3. PICK g : g = [e EXCEPT !.bytes = b, !.wan = w]
    OBVIOUS
  <2>4. g = [live |-> l0, wan |-> w, bytes |-> b, seen |-> s0] /\ e.live = l0
    BY <2>2, <2>3
  <2>5. [g EXCEPT !.seen = x] = [live |-> l0, wan |-> w, bytes |-> b, seen |-> x]
    BY <2>4
  <2> QED
    BY <2>3, <2>4, <2>5, Zenon
<1>4. ASSUME NEW b
      PROVE  [[e EXCEPT !.bytes = b] EXCEPT !.seen = x]
               = [live |-> e.live, wan |-> e.wan, bytes |-> b, seen |-> x]
  <2>1. e = [live |-> e.live, wan |-> e.wan, bytes |-> e.bytes, seen |-> e.seen]
    BY <1>1, <1>2
  <2>2. PICK l0, w0, b0, s0 : e = [live |-> l0, wan |-> w0, bytes |-> b0, seen |-> s0]
    BY <2>1
  <2>3. PICK g : g = [e EXCEPT !.bytes = b]
    OBVIOUS
  <2>4. g = [live |-> l0, wan |-> w0, bytes |-> b, seen |-> s0] /\ e.live = l0 /\ e.wan = w0
    BY <2>2, <2>3
  <2>5. [g EXCEPT !.seen = x] = [live |-> l0, wan |-> w0, bytes |-> b, seen |-> x]
    BY <2>4
  <2> QED
    BY <2>3, <2>4, <2>5, Zenon
<1>5. CASE Spent(f, n)
  <2>1. Counted(f, n) = [e EXCEPT !.bytes = 0, !.wan = (e.wan + 1) % NWan]
    BY <1>2, <1>5 DEF Counted
  <2> QED
    BY <1>2, <1>3, <1>5, <2>1
<1>6. CASE ~Spent(f, n)
  <2>1. Counted(f, n) = [e EXCEPT !.bytes = (e.bytes + n) % ByteWrap]
    BY <1>2, <1>6 DEF Counted
  <2>2. PICK b : b = (e.bytes + n) % ByteWrap
    OBVIOUS
  <2> QED
    BY <1>2, <1>4, <1>6, <2>1, <2>2
<1> QED
  BY <1>5, <1>6

LEMMA SpentIs ==
  ASSUME WanTypeInv, NEW f \in Flow, NEW n \in Lens
  PROVE  Spent(f, n) <=> /\ entry[f].wan \in Wan
                         /\ entry[f].bytes + n >= window[entry[f].wan]
<1>1. CASE entry[f].wan \in Wan
  <2>1. window[entry[f].wan] > 0
    BY <1>1, WanConstants DEF WanTypeInv
  <2> QED
    BY <1>1, <2>1 DEF Spent, WindowOf
<1>2. CASE entry[f].wan \notin Wan
  BY <1>2 DEF Spent, WindowOf
<1> QED
  BY <1>1, <1>2

\* A thread's packet, and what it does to its flow and to no other.
LEMMA JobIs ==
  ASSUME WanTypeInv, NEW t \in Worker, job[t] # NoJob
  PROVE  job[t].flow \in Flow /\ job[t].len \in Lens /\ job[t].now \in 0 .. clock
         /\ job[t].now \in 0 .. MaxClock
<1>1. job[t] \in [flow : Flow, len : Lens, now : 0 .. MaxClock] /\ job[t].now <= clock
  BY DEF WanTypeInv, JobOk
<1>2. clock \in Nat
  BY WanConstants DEF WanTypeInv
<1>3. \A j \in [flow : Flow, len : Lens, now : 0 .. MaxClock] :
        j.flow \in Flow /\ j.len \in Lens /\ j.now \in 0 .. MaxClock
  OBVIOUS
<1> QED
  BY <1>1, <1>2, <1>3

\* A function on the flows.
IsTable(t) == t = [f \in Flow |-> t[f]]

LEMMA LookupIs ==
  ASSUME WanTypeInv, NEW t \in Worker, Lookup(t), NEW f, f = job[t].flow, NEW n, n = job[t].len
  PROVE  /\ f \in Flow /\ n \in Lens /\ entry[f].live
         /\ \A g \in Flow \ {f} : entry'[g] = entry[g] /\ stay'[g] = stay[g] /\ last'[g] = last[g]
         /\ entry'[f] = [live |-> TRUE,
                         wan |-> IF Spent(f, n) THEN (entry[f].wan + 1) % NWan ELSE entry[f].wan,
                         bytes |-> IF Spent(f, n) THEN 0 ELSE (entry[f].bytes + n) % ByteWrap,
                         seen |-> job[t].now]
         /\ stay'[f] = IF entry'[f].wan # entry[f].wan THEN n
                       ELSE IF entry[f].wan \in Wan THEN stay[f] + n ELSE stay[f]
         /\ last'[f] = clock
         /\ IsTable(entry') /\ IsTable(stay') /\ IsTable(last')
         /\ job' = [job EXCEPT ![t] = NoJob]
<1>1. f \in Flow /\ n \in Lens
  BY JobIs DEF Lookup
<1>2. /\ IsTable(entry) /\ IsTable(stay) /\ IsTable(last)
      /\ entry[f].live \in BOOLEAN
  BY <1>1 DEF WanTypeInv, IsTable
<1>3. /\ entry[f].live
      /\ entry' = [entry EXCEPT ![f] = [Counted(f, n) EXCEPT !.seen = job[t].now]]
      /\ stay' = [stay EXCEPT ![f] = IF entry'[f].wan # entry[f].wan THEN n
                                     ELSE IF entry[f].wan \in Wan THEN stay[f] + n ELSE stay[f]]
      /\ last' = [last EXCEPT ![f] = clock]
      /\ job' = [job EXCEPT ![t] = NoJob]
  BY DEF Lookup, Done, Handled
<1>4. PICK e : e = [Counted(f, n) EXCEPT !.seen = job[t].now]
  OBVIOUS
<1>5. entry' = [entry EXCEPT ![f] = e]
  BY <1>3, <1>4
<1>6. entry'[f] = e /\ IsTable(entry') /\ \A g \in Flow \ {f} : entry'[g] = entry[g]
  BY <1>1, <1>2, <1>5 DEF IsTable
<1>7. e = [live |-> entry[f].live,
           wan |-> IF Spent(f, n) THEN (entry[f].wan + 1) % NWan ELSE entry[f].wan,
           bytes |-> IF Spent(f, n) THEN 0 ELSE (entry[f].bytes + n) % ByteWrap,
           seen |-> job[t].now]
  BY <1>1, <1>4, CountedIs
<1>8. entry[f].live = TRUE
  BY <1>2, <1>3
<1>9. PICK s : s = IF entry'[f].wan # entry[f].wan THEN n
                   ELSE IF entry[f].wan \in Wan THEN stay[f] + n ELSE stay[f]
  OBVIOUS
<1>10. stay' = [stay EXCEPT ![f] = s]
  BY <1>3, <1>9
<1>11. stay'[f] = s /\ IsTable(stay') /\ \A g \in Flow \ {f} : stay'[g] = stay[g]
  BY <1>1, <1>2, <1>10 DEF IsTable
<1>12. last'[f] = clock /\ IsTable(last') /\ \A g \in Flow \ {f} : last'[g] = last[g]
  BY <1>1, <1>2, <1>3 DEF IsTable
<1> QED
  BY <1>1, <1>3, <1>6, <1>7, <1>8, <1>9, <1>11, <1>12, Zenon

LEMMA FirstWanTyped ==
  ASSUME NEW n \in (-IntMax - 1) .. IntMax
  PROVE  FirstWan(n) \in (1 - NWan) .. (NWan - 1)
<1>1. NWan \in Nat \ {0} /\ IntMax \in Nat
  BY WanConstants
<1>2. \A m \in Int : m % NWan \in 0 .. (NWan - 1)
  BY <1>1
<1>3. n \in Int /\ -n \in Int
  BY <1>1
<1>4. n % NWan \in 0 .. (NWan - 1) /\ (-n) % NWan \in 0 .. (NWan - 1)
  BY <1>2, <1>3
<1> QED
  BY <1>1, <1>4 DEF FirstWan

LEMMA InsertIs ==
  ASSUME WanTypeInv, NEW t \in Worker, Insert(t), NEW f, f = job[t].flow, NEW n, n = job[t].len
  PROVE  /\ f \in Flow /\ n \in Lens /\ ~entry[f].live
         /\ \A g \in Flow \ {f} : entry'[g] = entry[g] /\ stay'[g] = stay[g] /\ last'[g] = last[g]
         /\ entry'[f] = [live |-> TRUE, wan |-> FirstWan(next_wan), bytes |-> n,
                         seen |-> job[t].now]
         /\ stay'[f] = n /\ last'[f] = clock
         /\ IsTable(entry') /\ IsTable(stay') /\ IsTable(last')
         /\ job' = [job EXCEPT ![t] = NoJob]
<1>1. f \in Flow /\ n \in Lens
  BY JobIs DEF Insert
<1>2. IsTable(entry) /\ IsTable(stay) /\ IsTable(last)
  BY DEF WanTypeInv, IsTable
<1>3. PICK e : e = [live |-> TRUE, wan |-> FirstWan(next_wan), bytes |-> n, seen |-> job[t].now]
  OBVIOUS
<1>4. /\ ~entry[f].live
      /\ entry' = [entry EXCEPT ![f] = e] /\ stay' = [stay EXCEPT ![f] = n]
      /\ last' = [last EXCEPT ![f] = clock] /\ job' = [job EXCEPT ![t] = NoJob]
  BY <1>3 DEF Insert, Done, Handled
<1>5. entry'[f] = e /\ IsTable(entry') /\ \A g \in Flow \ {f} : entry'[g] = entry[g]
  BY <1>1, <1>2, <1>4 DEF IsTable
<1>6. stay'[f] = n /\ IsTable(stay') /\ \A g \in Flow \ {f} : stay'[g] = stay[g]
  BY <1>1, <1>2, <1>4 DEF IsTable
<1>7. last'[f] = clock /\ IsTable(last') /\ \A g \in Flow \ {f} : last'[g] = last[g]
  BY <1>1, <1>2, <1>4 DEF IsTable
<1> QED
  BY <1>1, <1>3, <1>4, <1>5, <1>6, <1>7, Zenon

LEMMA PacketIs ==
  ASSUME WanTypeInv, NEW t \in Worker, Lookup(t) \/ Insert(t), NEW f, f = job[t].flow
  PROVE  /\ f \in Flow /\ last'[f] = clock /\ entry'[f].live /\ entry'[f].seen = job[t].now
         /\ \A g \in Flow \ {f} : entry'[g] = entry[g] /\ last'[g] = last[g]
<1>1. PICK n : n = job[t].len
  OBVIOUS
<1>2. CASE Lookup(t)
  <2>1. /\ f \in Flow /\ last'[f] = clock
        /\ entry'[f] = [live |-> TRUE,
                        wan |-> IF Spent(f, n) THEN (entry[f].wan + 1) % NWan ELSE entry[f].wan,
                        bytes |-> IF Spent(f, n) THEN 0 ELSE (entry[f].bytes + n) % ByteWrap,
                        seen |-> job[t].now]
        /\ \A g \in Flow \ {f} : entry'[g] = entry[g] /\ last'[g] = last[g]
    BY <1>1, <1>2, LookupIs
  <2> QED
    BY <2>1
<1>3. CASE Insert(t)
  <2>1. /\ f \in Flow /\ last'[f] = clock
        /\ entry'[f] = [live |-> TRUE, wan |-> FirstWan(next_wan), bytes |-> n,
                        seen |-> job[t].now]
        /\ \A g \in Flow \ {f} : entry'[g] = entry[g] /\ last'[g] = last[g]
    BY <1>1, <1>3, InsertIs
  <2> QED
    BY <2>1
<1> QED
  BY <1>2, <1>3

\* A thread that is done leaves the others' packets alone.
LEMMA DoneTyped ==
  ASSUME WanTypeInv, NEW t \in Worker, job' = [job EXCEPT ![t] = NoJob], clock' = clock
  PROVE  /\ DOMAIN job' = Worker /\ \A u \in Worker : JobOk(job[u])'
         /\ DelayInv => DelayInv'
<1>1. /\ DOMAIN job = Worker /\ \A u \in Worker : JobOk(job[u])
      /\ clock \in Nat
  BY WanConstants DEF WanTypeInv
<1>2. /\ DOMAIN job' = Worker /\ job'[t] = NoJob
      /\ \A u \in Worker \ {t} : job'[u] = job[u]
  BY <1>1
<1>3. NoJob.now = 0
  BY DEF NoJob
<1>4. \A u \in Worker : JobOk(job[u])'
  BY <1>1, <1>2, <1>3 DEF JobOk
<1> QED
  BY <1>2, <1>4 DEF DelayInv

Entries == [live : BOOLEAN, wan : (1 - NWan) .. (NWan - 1), bytes : Nat, seen : 0 .. MaxClock]

LEMMA LookupTyped == ASSUME WanTypeInv, NEW t \in Worker, Lookup(t) PROVE WanTypeInv'
<1> DEFINE f == job[t].flow  n == job[t].len
<1>1. /\ f \in Flow /\ n \in Lens /\ entry[f].live
      /\ \A g \in Flow \ {f} : entry'[g] = entry[g] /\ stay'[g] = stay[g] /\ last'[g] = last[g]
      /\ entry'[f] = [live |-> TRUE,
                      wan |-> IF Spent(f, n) THEN (entry[f].wan + 1) % NWan ELSE entry[f].wan,
                      bytes |-> IF Spent(f, n) THEN 0 ELSE (entry[f].bytes + n) % ByteWrap,
                      seen |-> job[t].now]
      /\ stay'[f] = IF entry'[f].wan # entry[f].wan THEN n
                    ELSE IF entry[f].wan \in Wan THEN stay[f] + n ELSE stay[f]
      /\ last'[f] = clock
      /\ IsTable(entry') /\ IsTable(stay') /\ IsTable(last')
      /\ job' = [job EXCEPT ![t] = NoJob]
  BY LookupIs
<1>2. job[t].now \in 0 .. MaxClock
  BY JobIs DEF Lookup
<1> HIDE DEF f, n
<1>3. UNCHANGED <<wans, seq, picked, window, next_wan, gc, clock>>
  BY DEF Lookup, pick
<1>4. /\ \A g \in Flow : entry[g] \in Entries /\ stay[g] \in Nat /\ last[g] \in 0 .. MaxClock
      /\ clock \in 0 .. MaxClock
  BY DEF WanTypeInv, Entries
<1>5. entry'[f] \in Entries
  <2>1. entry[f].wan \in (1 - NWan) .. (NWan - 1) /\ entry[f].bytes \in Nat
    BY <1>1, <1>4 DEF Entries
  <2>2. NWan \in Nat \ {0} /\ n \in Nat \ {0} /\ ByteWrap \in Nat \ {0}
    BY <1>1, WanConstants
  <2>3. PICK w : w = (entry[f].wan + 1) % NWan
    OBVIOUS
  <2>4. w \in 0 .. (NWan - 1)
    BY <2>1, <2>2, <2>3
  <2>5. PICK b : b = (entry[f].bytes + n) % ByteWrap
    OBVIOUS
  <2>6. b \in Nat
    BY <2>1, <2>2, <2>5
  <2>7. \A w2 \in (1 - NWan) .. (NWan - 1), b2 \in Nat :
          [live |-> TRUE, wan |-> w2, bytes |-> b2, seen |-> job[t].now] \in Entries
    BY <1>2 DEF Entries
  <2>8. w \in (1 - NWan) .. (NWan - 1)
    BY <2>2, <2>4
  <2>9. CASE Spent(f, n)
    <3>1. entry'[f] = [live |-> TRUE, wan |-> w, bytes |-> 0, seen |-> job[t].now]
      BY <1>1, <2>3, <2>9
    <3> QED
      BY <2>7, <2>8, <3>1
  <2>10. CASE ~Spent(f, n)
    <3>1. entry'[f] = [live |-> TRUE, wan |-> entry[f].wan, bytes |-> b, seen |-> job[t].now]
      BY <1>1, <2>5, <2>10
    <3> QED
      BY <2>1, <2>6, <2>7, <3>1
  <2> QED
    BY <2>9, <2>10
<1>6. stay'[f] \in Nat /\ last'[f] \in 0 .. MaxClock
  BY <1>1, <1>4, WanConstants
<1>7. entry' \in [Flow -> Entries] /\ stay' \in [Flow -> Nat] /\ last' \in [Flow -> 0 .. MaxClock]
  <2>1. \A g \in Flow : entry'[g] \in Entries /\ stay'[g] \in Nat /\ last'[g] \in 0 .. MaxClock
    BY <1>1, <1>4, <1>5, <1>6
  <2>2. entry' = [g \in Flow |-> entry'[g]] /\ stay' = [g \in Flow |-> stay'[g]]
        /\ last' = [g \in Flow |-> last'[g]]
    BY <1>1 DEF IsTable
  <2> QED
    BY <2>1, <2>2
<1>8. DOMAIN job' = Worker /\ \A u \in Worker : JobOk(job[u])'
  BY <1>1, <1>3, DoneTyped
<1> QED
  BY <1>3, <1>7, <1>8 DEF WanTypeInv, Entries

LEMMA InsertTyped == ASSUME WanTypeInv, NEW t \in Worker, Insert(t) PROVE WanTypeInv'
<1> DEFINE f == job[t].flow  n == job[t].len
<1>1. /\ f \in Flow /\ n \in Lens
      /\ \A g \in Flow \ {f} : entry'[g] = entry[g] /\ stay'[g] = stay[g] /\ last'[g] = last[g]
      /\ entry'[f] = [live |-> TRUE, wan |-> FirstWan(next_wan), bytes |-> n,
                      seen |-> job[t].now]
      /\ stay'[f] = n /\ last'[f] = clock
      /\ IsTable(entry') /\ IsTable(stay') /\ IsTable(last')
      /\ job' = [job EXCEPT ![t] = NoJob]
  BY InsertIs
<1>2. job[t].now \in 0 .. MaxClock
  BY JobIs DEF Insert
<1> HIDE DEF f, n
<1>3. /\ UNCHANGED <<wans, seq, picked, window, gc, clock>>
      /\ next_wan' = IF next_wan = IntMax THEN -IntMax - 1 ELSE next_wan + 1
  BY DEF Insert, pick
<1>4. /\ \A g \in Flow : entry[g] \in Entries /\ stay[g] \in Nat /\ last[g] \in 0 .. MaxClock
      /\ clock \in 0 .. MaxClock /\ next_wan \in (-IntMax - 1) .. IntMax
  BY DEF WanTypeInv, Entries
<1>5. entry'[f] \in Entries
  <2>1. PICK w : w = FirstWan(next_wan)
    OBVIOUS
  <2>2. w \in (1 - NWan) .. (NWan - 1)
    BY <1>4, <2>1, FirstWanTyped
  <2>3. n \in Nat
    BY <1>1, WanConstants
  <2>4. entry'[f] = [live |-> TRUE, wan |-> w, bytes |-> n, seen |-> job[t].now]
    BY <1>1, <2>1
  <2> QED
    BY <1>2, <2>2, <2>3, <2>4 DEF Entries
<1>6. stay'[f] \in Nat /\ last'[f] \in 0 .. MaxClock
  BY <1>1, <1>4, WanConstants
<1>7. entry' \in [Flow -> Entries] /\ stay' \in [Flow -> Nat] /\ last' \in [Flow -> 0 .. MaxClock]
  <2>1. \A g \in Flow : entry'[g] \in Entries /\ stay'[g] \in Nat /\ last'[g] \in 0 .. MaxClock
    BY <1>1, <1>4, <1>5, <1>6
  <2>2. entry' = [g \in Flow |-> entry'[g]] /\ stay' = [g \in Flow |-> stay'[g]]
        /\ last' = [g \in Flow |-> last'[g]]
    BY <1>1 DEF IsTable
  <2> QED
    BY <2>1, <2>2
<1>8. DOMAIN job' = Worker /\ \A u \in Worker : JobOk(job[u])'
  BY <1>1, <1>3, DoneTyped
<1>9. next_wan' \in (-IntMax - 1) .. IntMax
  BY <1>3, <1>4, WanConstants
<1> QED
  BY <1>3, <1>7, <1>8, <1>9 DEF WanTypeInv, Entries

\* What flow_table_gc leaves of an entry.
LEMMA GcBucketIs ==
  ASSUME WanTypeInv, GcBucket
  PROVE  /\ IsTable(entry')
         /\ \A f \in Flow : \/ entry'[f] = entry[f]
                            \/ entry[f].live /\ Stale(f) /\ entry'[f] = NoEntry
         /\ gc.on /\ gc' \in [on : BOOLEAN, now : 0 .. MaxClock, i : Nat] /\ gc'.now = gc.now
<1> DEFINE b == CHOOSE c \in Bucket : c >= gc.i /\ \A d \in Bucket : d >= gc.i => c <= d
<1>1. /\ gc.on /\ \E c \in Bucket : c >= gc.i
      /\ entry' = [f \in Flow |-> IF BucketOf[f] = b /\ entry[f].live /\ Stale(f)
                                  THEN NoEntry ELSE entry[f]]
      /\ gc' = [gc EXCEPT !.i = b + 1]
  BY DEF GcBucket
<1>2. gc \in [on : BOOLEAN, now : 0 .. MaxClock, i : Nat]
  BY DEF WanTypeInv
<1>3. b \in Nat
  <2> DEFINE T == {c \in Bucket : c >= gc.i}
  <2>1. T \in SUBSET Nat /\ T # {}
    BY <1>1, WanConstants
  <2>2. PICK m \in T : \A d \in T : m <= d
    <3> HIDE DEF T
    <3> QED
      BY <2>1, LeastExists
  <2>3. \E c \in Bucket : c >= gc.i /\ \A d \in Bucket : d >= gc.i => c <= d
    BY <2>2
  <2>4. b \in Bucket
    BY <2>3
  <2> QED
    BY <2>4, WanConstants
<1> HIDE DEF b
<1>4. b + 1 \in Nat
  BY <1>3
<1>5. gc' \in [on : BOOLEAN, now : 0 .. MaxClock, i : Nat] /\ gc'.now = gc.now
  BY <1>1, <1>2, <1>4
<1>6. IsTable(entry')
  BY <1>1 DEF IsTable
<1>7. \A f \in Flow : entry'[f] = IF BucketOf[f] = b /\ entry[f].live /\ Stale(f)
                                  THEN NoEntry ELSE entry[f]
  BY <1>1
<1> QED
  BY <1>1, <1>5, <1>6, <1>7

LEMMA WanTypeStep == WanTypeInv /\ [Next]_vars => WanTypeInv'
<1> SUFFICES ASSUME WanTypeInv, [Next]_vars PROVE WanTypeInv'
  OBVIOUS
<1>1. CASE UNCHANGED vars
  BY <1>1 DEF vars, WanTypeInv, JobOk
<1>2. ASSUME NEW p \in Profile, PickOnly(p) \/ PickNext(p) PROVE WanTypeInv'
  <2>1. UNCHANGED <<wans, window, next_wan, entry, job, gc, clock, stay, last>>
    BY <1>2 DEF PickOnly, PickNext, flows
  <2>2. seq' \in 0 .. MaxPicks
    BY <1>2, WanConstants DEF PickOnly, PickNext, WanTypeInv
  <2> QED
    BY <2>1, <2>2 DEF WanTypeInv, JobOk
<1>3. ASSUME NEW p \in Profile, Reload(p) PROVE WanTypeInv'
  <2>1. UNCHANGED <<seq, window, next_wan, entry, job, gc, clock, stay, last>>
    BY <1>3 DEF Reload, flows
  <2>2. PICK l \in WanLists[p] : wans' = [wans EXCEPT ![p] = l]
    BY <1>3 DEF Reload
  <2>3. DOMAIN wans' = Profile /\ \A q \in Profile : wans'[q] \in WanLists[q]
    BY <2>2 DEF WanTypeInv
  <2> QED
    BY <2>1, <2>3 DEF WanTypeInv, JobOk
<1>4. ASSUME NEW t \in Worker, ReadClock(t) PROVE WanTypeInv'
  <2>1. UNCHANGED <<wans, seq, window, next_wan, entry, gc, clock, stay, last>>
    BY <1>4 DEF ReadClock, pick
  <2>2. PICK f \in Flow, n \in Lens :
          job' = [job EXCEPT ![t] = [flow |-> f, len |-> n, now |-> clock]]
    BY <1>4 DEF ReadClock
  <2>3. PICK j : j = [flow |-> f, len |-> n, now |-> clock]
    OBVIOUS
  <2>4. clock \in 0 .. MaxClock
    BY DEF WanTypeInv
  <2>5. JobOk(j)
    BY <2>3, <2>4, WanConstants DEF JobOk
  <2>6. /\ DOMAIN job = Worker /\ \A u \in Worker : JobOk(job[u])
        /\ job' = [job EXCEPT ![t] = j]
    BY <2>2, <2>3 DEF WanTypeInv
  <2>7. DOMAIN job' = Worker /\ \A u \in Worker : JobOk(job'[u])
    BY <2>5, <2>6
  <2> QED
    BY <2>1, <2>7 DEF WanTypeInv, JobOk
<1>5. ASSUME NEW t \in Worker, InsertFails(t) PROVE WanTypeInv'
  <2>1. UNCHANGED <<wans, seq, window, next_wan, entry, gc, clock, stay, last>>
    BY <1>5 DEF InsertFails, pick
  <2>2. DOMAIN job' = Worker /\ \A u \in Worker : JobOk(job[u])'
    <3>1. job' = [job EXCEPT ![t] = NoJob]
      BY <1>5 DEF InsertFails, Done
    <3> QED
      BY <2>1, <3>1, DoneTyped
  <2> QED
    BY <2>1, <2>2 DEF WanTypeInv
<1>6. CASE GcBegin \/ GcEnd
  <2>1. UNCHANGED <<wans, seq, window, next_wan, entry, job, clock, stay, last>>
    BY <1>6 DEF GcBegin, GcEnd, pick
  <2>2. gc' \in [on : BOOLEAN, now : 0 .. MaxClock, i : Nat] /\ gc'.now <= clock
    <3>1. clock \in 0 .. MaxClock
      BY DEF WanTypeInv
    <3>2. CASE gc' = [on |-> TRUE, now |-> clock, i |-> 0]
      BY <3>1, <3>2
    <3>3. CASE gc' = [on |-> FALSE, now |-> 0, i |-> 0]
      BY <3>1, <3>3, WanConstants
    <3> QED
      BY <1>6, <3>2, <3>3 DEF GcBegin, GcEnd, NoGc
  <2> QED
    BY <2>1, <2>2 DEF WanTypeInv, JobOk
<1>7. CASE GcBucket
  <2>1. UNCHANGED <<wans, seq, window, next_wan, job, clock, stay, last>>
    BY <1>7 DEF GcBucket, pick
  <2>2. /\ IsTable(entry')
        /\ \A f \in Flow : entry'[f] = entry[f] \/ entry'[f] = NoEntry
        /\ gc' \in [on : BOOLEAN, now : 0 .. MaxClock, i : Nat] /\ gc'.now <= clock
    BY <1>7, GcBucketIs DEF WanTypeInv
  <2>3. NoEntry \in Entries
    BY WanConstants DEF NoEntry, Entries
  <2>4. \A f \in Flow : entry'[f] \in Entries
    BY <2>2, <2>3 DEF WanTypeInv, Entries
  <2>5. entry' \in [Flow -> Entries]
    BY <2>2, <2>4 DEF IsTable
  <2> QED
    BY <2>1, <2>2, <2>5 DEF WanTypeInv, JobOk, Entries
<1>8. CASE Tick
  <2>1. UNCHANGED <<wans, seq, window, next_wan, entry, job, gc, stay, last>>
    BY <1>8 DEF Tick, pick
  <2>2. clock' \in 0 .. MaxClock /\ clock' = clock + 1 /\ clock \in Nat
    BY <1>8, WanConstants DEF Tick, WanTypeInv
  <2>3. \A t \in Worker : JobOk(job[t])'
    <3>1. \A t \in Worker : job[t].now \in Nat
      <4>1. NoJob.now = 0
        BY DEF NoJob
      <4> QED
        BY <4>1, WanConstants DEF WanTypeInv, JobOk
    <3> QED
      BY <2>1, <2>2, <3>1 DEF WanTypeInv, JobOk
  <2>4. gc.now \in Nat
    BY WanConstants DEF WanTypeInv
  <2> QED
    BY <2>1, <2>2, <2>3, <2>4 DEF WanTypeInv
<1> QED
  BY <1>1, <1>2, <1>3, <1>4, <1>5, <1>6, <1>7, <1>8, LookupTyped, InsertTyped DEF Next

THEOREM WanTypeCorrect == Spec => []WanTypeInv
<1>1. Init => WanTypeInv
  BY WanInit
<1> QED
  BY <1>1, WanTypeStep, PTL DEF Spec

\* TypeOK of the specification: the counters, the table and the threads hold
\* what the code's types do.
THEOREM WanTypesCorrect == Spec => []TypeOK
<1>1. WanTypeInv => TypeOK
  <2> SUFFICES ASSUME WanTypeInv PROVE TypeOK
    OBVIOUS
  <2>1. \A f \in Flow : entry[f].wan \in (1 - NWan) .. (NWan - 1)
    BY DEF WanTypeInv
  <2>2. \A t \in Worker : job[t] = NoJob \/ (job[t].flow \in Flow /\ job[t].now <= clock)
    BY DEF WanTypeInv, JobOk
  <2> QED
    BY <2>1, <2>2 DEF WanTypeInv, TypeOK
<1> QED
  BY <1>1, WanTypeCorrect, PTL

-----------------------------------------------------------------------------
(* Only idle flows are forgotten *)

LEMMA DelayStep == WanTypeInv /\ DelayInv /\ [Next]_vars => DelayInv'
<1> SUFFICES ASSUME WanTypeInv, DelayInv, [Next]_vars PROVE DelayInv'
  OBVIOUS
<1>1. CASE UNCHANGED <<job, clock>>
  BY <1>1 DEF DelayInv
<1>2. ASSUME NEW t \in Worker, ReadClock(t) PROVE DelayInv'
  <2>1. PICK f \in Flow, n \in Lens :
          job' = [job EXCEPT ![t] = [flow |-> f, len |-> n, now |-> clock]]
    BY <1>2 DEF ReadClock
  <2>2. PICK j : j = [flow |-> f, len |-> n, now |-> clock]
    OBVIOUS
  <2>3. DOMAIN job = Worker /\ clock \in Nat /\ clock' = clock
    BY <1>2, WanConstants DEF WanTypeInv, ReadClock
  <2>4. job'[t] = j /\ \A u \in Worker \ {t} : job'[u] = job[u]
    BY <2>1, <2>2, <2>3
  <2>5. clock' - j.now <= MaxDelay
    BY <2>2, <2>3, WanConstants
  <2> QED
    BY <2>3, <2>4, <2>5 DEF DelayInv
<1>3. ASSUME NEW t \in Worker, Lookup(t) \/ Insert(t) \/ InsertFails(t) PROVE DelayInv'
  <2>1. job' = [job EXCEPT ![t] = NoJob] /\ clock' = clock
    BY <1>3 DEF Lookup, Insert, InsertFails, Done
  <2> QED
    BY <2>1, DoneTyped
<1>4. CASE Tick
  <2>1. /\ job' = job /\ clock' = clock + 1 /\ clock \in Nat
        /\ \A t \in Worker : job[t] # NoJob => clock - job[t].now < MaxDelay
    BY <1>4, WanConstants DEF Tick, WanTypeInv
  <2>2. \A t \in Worker : job[t] # NoJob => job[t].now \in Nat
    BY JobIs, WanConstants
  <2> QED
    BY <2>1, <2>2, WanConstants DEF DelayInv
<1>5. ASSUME NEW p \in Profile, PickOnly(p) \/ PickNext(p) \/ Reload(p)
      PROVE  UNCHANGED <<job, clock>>
  BY <1>5 DEF PickOnly, PickNext, Reload, flows
<1>6. CASE GcBegin \/ GcBucket \/ GcEnd
  <2>1. UNCHANGED <<job, clock>>
    BY <1>6 DEF GcBegin, GcBucket, GcEnd
  <2> QED
    BY <1>1, <2>1
<1>7. UNCHANGED vars => UNCHANGED <<job, clock>>
  BY DEF vars
<1> QED
  BY <1>1, <1>2, <1>3, <1>4, <1>5, <1>6, <1>7 DEF Next

\* Every step that touches the table is a packet's or the gc's.
LEMMA TableSteps ==
  ASSUME [Next]_vars
  PROVE  \/ \E t \in Worker : Lookup(t) \/ Insert(t)
         \/ GcBucket
         \/ Tick
         \/ UNCHANGED <<entry, stay, last, window, clock>>
<1>1. CASE UNCHANGED vars
  BY <1>1 DEF vars
<1>2. ASSUME NEW p \in Profile, PickOnly(p) \/ PickNext(p) \/ Reload(p)
      PROVE  UNCHANGED <<entry, stay, last, window, clock>>
  BY <1>2 DEF PickOnly, PickNext, Reload, flows
<1>3. ASSUME NEW t \in Worker, ReadClock(t) \/ InsertFails(t)
      PROVE  UNCHANGED <<entry, stay, last, window, clock>>
  BY <1>3 DEF ReadClock, InsertFails
<1>4. CASE GcBegin \/ GcEnd
  BY <1>4 DEF GcBegin, GcEnd
<1> QED
  BY <1>1, <1>2, <1>3, <1>4 DEF Next

LEMMA SeenStep == WanTypeInv /\ DelayInv /\ SeenInv /\ [Next]_vars => SeenInv'
<1> SUFFICES ASSUME WanTypeInv, DelayInv, SeenInv, [Next]_vars PROVE SeenInv'
  OBVIOUS
<1>1. /\ clock \in Nat /\ MaxDelay \in Nat
      /\ \A f \in Flow : last[f] \in Nat /\ entry[f].seen \in Nat
  BY WanConstants DEF WanTypeInv
<1>2. ASSUME NEW t \in Worker, Lookup(t) \/ Insert(t) PROVE SeenInv'
  <2> DEFINE f == job[t].flow
  <2>1. /\ f \in Flow /\ last'[f] = clock /\ entry'[f].seen = job[t].now
        /\ \A g \in Flow \ {f} : entry'[g] = entry[g] /\ last'[g] = last[g]
    BY <1>2, PacketIs
  <2>2. job[t] # NoJob /\ clock' = clock
    BY <1>2 DEF Lookup, Insert
  <2>3. job[t].now \in 0 .. clock /\ clock - job[t].now <= MaxDelay
    BY <2>2, JobIs DEF DelayInv
  <2> HIDE DEF f
  <2> QED
    BY <1>1, <2>1, <2>2, <2>3 DEF SeenInv
<1>3. CASE GcBucket
  <2>1. UNCHANGED <<clock, last>>
    BY <1>3 DEF GcBucket
  <2>2. ~NoEntry.live
    BY DEF NoEntry
  <2> QED
    BY <1>3, <2>1, <2>2, GcBucketIs DEF SeenInv
<1>4. CASE Tick
  <2>1. UNCHANGED <<entry, last>> /\ clock' = clock + 1
    BY <1>4 DEF Tick
  <2> QED
    BY <1>1, <2>1 DEF SeenInv
<1>5. CASE UNCHANGED <<entry, stay, last, window, clock>>
  BY <1>5 DEF SeenInv
<1> QED
  BY <1>2, <1>3, <1>4, <1>5, TableSteps

\* The unsigned difference of two times is the time between them.
LEMMA IdleIs ==
  ASSUME NEW now \in 0 .. MaxClock, NEW seen \in 0 .. MaxClock, seen <= now
  PROVE  Idle(now, seen) = now - seen
<1>1. Wrap \in Nat \ {0} /\ now - seen \in 0 .. (Wrap - 1) /\ now - seen \in Int
      /\ now - seen = 0 * Wrap + (now - seen)
  BY WanConstants
<1>2. (now - seen) % Wrap = now - seen
  BY <1>1, RemainderValue
<1> QED
  BY <1>2 DEF Idle

LEMMA ForgottenStep ==
  ASSUME WanTypeInv, SeenInv, [Next]_vars, NEW f \in Flow, entry[f].live, ~entry'[f].live
  PROVE  clock - last[f] > FLOW_TIMEOUT_SEC - MaxDelay \/ gc.now < entry[f].seen
<1>1. GcBucket
  <2>1. ASSUME NEW t \in Worker, Lookup(t) \/ Insert(t) PROVE FALSE
    <3>1. f = job[t].flow => entry'[f].live
      BY <2>1, PacketIs
    <3>2. f # job[t].flow => entry'[f] = entry[f]
      BY <2>1, PacketIs
    <3> QED
      BY <3>1, <3>2
  <2>2. ~Tick /\ ~UNCHANGED <<entry, stay, last, window, clock>>
    BY DEF Tick
  <2> QED
    BY <2>1, <2>2, TableSteps
<1>2. Stale(f)
  BY <1>1, GcBucketIs
<1>3. /\ gc.now \in 0 .. MaxClock /\ gc.now <= clock /\ clock \in Nat
      /\ entry[f].seen \in 0 .. MaxClock /\ last[f] \in Nat
  BY WanConstants DEF WanTypeInv
<1>4. last[f] <= entry[f].seen + MaxDelay
  BY DEF SeenInv
<1>5. CASE entry[f].seen <= gc.now
  <2>1. Idle(gc.now, entry[f].seen) = gc.now - entry[f].seen
    BY <1>3, <1>5, IdleIs
  <2>2. gc.now - entry[f].seen > FLOW_TIMEOUT_SEC
    BY <1>2, <2>1 DEF Stale
  <2> QED
    BY <1>3, <1>4, <2>2, WanConstants
<1>6. CASE ~(entry[f].seen <= gc.now)
  BY <1>3, <1>6
<1> QED
  BY <1>5, <1>6

\* IdleForgotten: flow_table_gc forgets a flow only when it was idle for the
\* timeout, less a thread's delay, or was seen after the gc's clock.
THEOREM IdleForgottenCorrect == Spec => IdleForgotten
<1> DEFINE Good == \A f \in Flow :
                     entry[f].live /\ ~entry'[f].live =>
                       \/ clock - last[f] > FLOW_TIMEOUT_SEC - MaxDelay
                       \/ gc.now < entry[f].seen
<1>1. Init => DelayInv /\ SeenInv
  BY WanInit
<1>2. WanTypeInv /\ SeenInv /\ [Next]_vars => [Good]_vars
  BY ForgottenStep
<1>3. Spec => [][Good]_vars
  <2> HIDE DEF Good
  <2> QED
    BY <1>1, <1>2, WanTypeCorrect, DelayStep, SeenStep, PTL DEF Spec
<1> QED
  BY <1>3 DEF IdleForgotten

-----------------------------------------------------------------------------
(* A flow stays on a WAN for the WAN's window *)

\* What the packet of a flow over a WAN of ours does to the count of the flow's
\* bytes, where there is another WAN to go to.
LEMMA StayLookup ==
  ASSUME NWan > 1, WanTypeInv, StayInv, NEW t \in Worker, Lookup(t)
  PROVE  /\ StayInv'
         /\ \A f \in Flow :
              entry'[f].wan # entry[f].wan =>
                /\ entry'[f].wan = (entry[f].wan + 1) % NWan
                /\ entry[f].live => stay[f] + stay'[f] >= window[entry[f].wan]
<1>1. PICK f, n : f = job[t].flow /\ n = job[t].len
  OBVIOUS
<1>2. /\ f \in Flow /\ n \in Lens /\ entry[f].live
      /\ \A g \in Flow \ {f} : entry'[g] = entry[g] /\ stay'[g] = stay[g] /\ last'[g] = last[g]
      /\ entry'[f] = [live |-> TRUE,
                      wan |-> IF Spent(f, n) THEN (entry[f].wan + 1) % NWan ELSE entry[f].wan,
                      bytes |-> IF Spent(f, n) THEN 0 ELSE (entry[f].bytes + n) % ByteWrap,
                      seen |-> job[t].now]
      /\ stay'[f] = IF entry'[f].wan # entry[f].wan THEN n
                    ELSE IF entry[f].wan \in Wan THEN stay[f] + n ELSE stay[f]
  BY <1>1, LookupIs
<1>3. window' = window /\ window \in [Wan -> MinWindow .. BaseWindow]
  BY DEF Lookup, WanTypeInv
<1>4. PICK w, b, s : w = entry[f].wan /\ b = entry[f].bytes /\ s = stay[f]
  OBVIOUS
<1>5. w \in Int /\ b \in Nat /\ s \in Nat /\ n \in Nat \ {0} /\ NWan \in Nat
  BY <1>2, <1>4, WanConstants DEF WanTypeInv
<1>6. ASSUME w \in Wan
      PROVE  \/ s = b /\ (b < window[w] \/ b \in Lens)
             \/ \E m \in Lens : s = b + m /\ b < window[w]
  BY <1>2, <1>4, <1>6 DEF StayInv
<1>7. \A v \in Wan : window[v] \in Nat /\ window[v] > 0 /\ window[v] <= BaseWindow
  BY <1>3, WanConstants
<1>8. CASE Spent(f, n)
  <2>1. w \in Wan /\ b + n >= window[w]
    BY <1>2, <1>4, <1>8, SpentIs
  <2>2. PICK v : v = (w + 1) % NWan
    OBVIOUS
  <2>3. v \in Wan /\ v # w
    <3>1. w \in 0 .. (NWan - 1) /\ (w + 1) % NWan \in 0 .. (NWan - 1)
      BY <1>5, <2>1 DEF Wan
    <3>2. w + 1 < NWan => (w + 1) % NWan = w + 1
      <4>1. SUFFICES ASSUME w + 1 < NWan PROVE (w + 1) % NWan = w + 1
        OBVIOUS
      <4>2. PICK x : x = w + 1
        OBVIOUS
      <4>3. NWan \in Nat \ {0} /\ x \in Int /\ x \in 0 .. (NWan - 1) /\ x = 0 * NWan + x
        BY <1>5, <3>1, <4>1, <4>2
      <4>4. 0 \in Int /\ x % NWan = x
        BY <4>3, RemainderValue
      <4> QED
        BY <4>2, <4>4
    <3>3. ~(w + 1 < NWan) => (w + 1) % NWan = 0
      <4>1. ~(w + 1 < NWan) => w + 1 = 1 * NWan + 0
        BY <1>5, <3>1
      <4>2. NWan \in Nat \ {0} /\ w + 1 \in Int /\ 0 \in 0 .. (NWan - 1)
        BY <1>5, <3>1
      <4> QED
        BY <4>1, <4>2, RemainderValue
    <3> QED
      BY <1>5, <2>2, <3>1, <3>2, <3>3 DEF Wan
  <2>4. entry'[f] = [live |-> TRUE, wan |-> v, bytes |-> 0, seen |-> job[t].now]
    BY <1>2, <1>4, <1>8, <2>2
  <2>5. entry'[f].wan = v /\ entry'[f].bytes = 0
    BY <2>4
  <2>6. stay'[f] = n
    BY <1>2, <1>4, <2>3, <2>5
  <2>7. s + n >= window[w]
    BY <1>5, <1>6, <1>7, <2>1, WanConstants
  <2>8. \E m \in Lens : stay'[f] = entry'[f].bytes + m /\ entry'[f].bytes < window'[v]
    BY <1>2, <1>3, <1>5, <1>7, <2>3, <2>5, <2>6
  <2>9. StayInv'
    BY <1>2, <1>3, <2>5, <2>8 DEF StayInv
  <2> QED
    BY <1>2, <1>4, <2>2, <2>5, <2>6, <2>7, <2>9
<1>9. CASE ~Spent(f, n)
  <2>1. PICK c : c = (b + n) % ByteWrap
    OBVIOUS
  <2>2. entry'[f] = [live |-> TRUE, wan |-> w, bytes |-> c, seen |-> job[t].now]
    BY <1>2, <1>4, <1>9, <2>1
  <2>3. entry'[f].wan = w /\ entry'[f].bytes = c
    BY <2>2
  <2>4. ASSUME w \in Wan
        PROVE  \/ stay'[f] = c /\ (c < window[w] \/ c \in Lens)
               \/ \E m \in Lens : stay'[f] = c + m /\ c < window[w]
    <3>1. b + n < window[w]
      <4>1. ~(b + n >= window[w])
        BY <1>2, <1>4, <1>9, <2>4, SpentIs
      <4> QED
        BY <1>5, <1>7, <2>4, <4>1
    <3>2. c = b + n
      <4>1. ByteWrap \in Nat \ {0} /\ b + n \in 0 .. (ByteWrap - 1) /\ b + n \in Int
            /\ b + n = 0 * ByteWrap + (b + n)
        BY <1>2, <1>5, <1>7, <2>4, <3>1, WanConstants
      <4> QED
        BY <2>1, <4>1, RemainderValue
    <3>3. stay'[f] = s + n
      BY <1>2, <1>4, <2>3, <2>4
    <3>4. \A m \in Lens : m \in Nat
      BY WanConstants
    <3> QED
      BY <1>5, <1>6, <2>4, <3>1, <3>2, <3>3, <3>4
  <2>5. StayInv'
    BY <1>2, <1>3, <2>3, <2>4 DEF StayInv
  <2> QED
    BY <1>2, <1>4, <2>3, <2>5
<1> QED
  BY <1>8, <1>9

LEMMA StayStep ==
  ASSUME NWan > 1, WanTypeInv, StayInv, [Next]_vars
  PROVE  /\ StayInv'
         /\ \A f \in Flow :
              entry[f].live /\ entry'[f].live /\ entry'[f].wan # entry[f].wan =>
                /\ entry'[f].wan = (entry[f].wan + 1) % NWan
                /\ stay[f] + stay'[f] >= window[entry[f].wan]
<1>1. CASE \E t \in Worker : Lookup(t)
  BY <1>1, StayLookup
<1>2. ASSUME NEW t \in Worker, Insert(t)
      PROVE  /\ StayInv'
             /\ \A f \in Flow : entry[f].live => entry'[f].wan = entry[f].wan
  <2>1. PICK f, n : f = job[t].flow /\ n = job[t].len
    OBVIOUS
  <2>2. /\ f \in Flow /\ n \in Lens /\ ~entry[f].live
        /\ \A g \in Flow \ {f} : entry'[g] = entry[g] /\ stay'[g] = stay[g] /\ last'[g] = last[g]
        /\ entry'[f] = [live |-> TRUE, wan |-> FirstWan(next_wan), bytes |-> n,
                        seen |-> job[t].now]
        /\ stay'[f] = n
    BY <1>2, <2>1, InsertIs
  <2>3. entry'[f].bytes = n /\ window' = window
    BY <1>2, <2>2 DEF Insert
  <2>4. StayInv'
    BY <2>2, <2>3 DEF StayInv
  <2> QED
    BY <2>2, <2>4
<1>3. CASE GcBucket
  <2>1. UNCHANGED <<window, stay>>
    BY <1>3 DEF GcBucket
  <2>2. ~NoEntry.live
    BY DEF NoEntry
  <2>3. \A f \in Flow : entry'[f] = entry[f] \/ ~entry'[f].live
    BY <1>3, <2>2, GcBucketIs
  <2>4. StayInv'
    BY <2>1, <2>3 DEF StayInv
  <2> QED
    BY <2>3, <2>4
<1>4. CASE Tick \/ UNCHANGED <<entry, stay, last, window, clock>>
  <2>1. UNCHANGED <<entry, stay, window>>
    BY <1>4 DEF Tick
  <2> QED
    BY <2>1 DEF StayInv
<1> QED
  BY <1>1, <1>2, <1>3, <1>4, TableSteps

LEMMA StaySpent == ASSUME WanTypeInv, StayInv PROVE WindowSpent
<1> SUFFICES ASSUME NEW f \in Flow, entry[f].live, entry[f].wan \in Wan,
                    NEW n \in Lens, \A m \in Lens : m <= n
             PROVE  stay[f] < window[entry[f].wan] + n
  BY DEF WindowSpent
<1>1. PICK b, size, s : b = entry[f].bytes /\ size = window[entry[f].wan] /\ s = stay[f]
  OBVIOUS
<1>2. b \in Nat /\ size \in Nat /\ size > 0 /\ s \in Nat
  BY <1>1, WanConstants DEF WanTypeInv
<1>3. \/ s = b /\ (b < size \/ b \in Lens)
      \/ \E m \in Lens : s = b + m /\ b < size
  BY <1>1 DEF StayInv
<1>4. \A m \in Lens : m \in Nat /\ m <= n
  BY WanConstants
<1> QED
  BY <1>1, <1>2, <1>3, <1>4

\* WindowsKept: where there are several WANs, a flow leaves a WAN for the next
\* one when it has sent the WAN's window there, and not before.
THEOREM WindowsKeptCorrect == ASSUME NWan > 1 PROVE Spec => WindowsKept
<1> DEFINE Moves == \A f \in Flow :
                      entry[f].live /\ entry'[f].live /\ entry'[f].wan # entry[f].wan =>
                        /\ entry'[f].wan = (entry[f].wan + 1) % NWan
                        /\ stay[f] + stay'[f] >= window[entry[f].wan]
           Keeps == WindowSpent' /\ Moves
<1>1. Init => StayInv
  BY WanInit
<1>2. WanTypeInv /\ StayInv /\ [Next]_vars => StayInv' /\ [Moves]_vars
  BY StayStep
<1>3. WanTypeInv /\ StayInv => WindowSpent
  BY StaySpent
<1>4. Spec => [][Keeps]_vars
  <2> HIDE DEF Moves
  <2> QED
    BY <1>1, <1>2, <1>3, WanTypeCorrect, PTL DEF Spec
<1> QED
  BY <1>4, PTL DEF WindowsKept

-----------------------------------------------------------------------------
(* Every WAN gets its share *)

\* Of the profiles, one at most ever has several usable WANs.
OneSpread ==
  \A p, q \in Profile : \A l \in WanLists[p], m \in WanLists[q] :
    Len(Allowed(l)) > 1 /\ Len(Allowed(m)) > 1 => p = q

LEMMA RoundTyped == ASSUME NEW l, IsWanList(l) PROVE Round(l) \in Nat /\ Len(Allowed(l)) \in Nat
<1>1. SharesTo(l) \in [0 .. Len(Allowed(l)) -> Nat] /\ Len(Allowed(l)) \in Nat
  BY SharesFacts
<1>2. Len(Allowed(l)) \in 0 .. Len(Allowed(l))
  BY <1>1
<1> QED
  BY <1>1, <1>2 DEF Round

\* The picks that are remembered, when one more is.
Kept(l, s, w) == IF Len(Append(s, w)) > Round(l) THEN Tail(Append(s, w)) ELSE Append(s, w)

\* s and w, without the first d of them.
Shifted(r, s, w, d) ==
  /\ Len(r) = (Len(s) + 1) - d
  /\ \A j \in DOMAIN r : IF j + d <= Len(s) THEN j + d \in DOMAIN s /\ r[j] = s[j + d]
                         ELSE j + d = Len(s) + 1 /\ r[j] = w

LEMMA KeptIs ==
  ASSUME NEW l, IsWanList(l), Len(Allowed(l)) > 0,
         NEW s \in Seq(Int), Len(s) <= Round(l), NEW w \in Int
  PROVE  /\ Kept(l, s, w) \in Seq(Int) /\ Len(Kept(l, s, w)) <= Round(l)
         /\ \E d \in {0, 1} : Shifted(Kept(l, s, w), s, w, d)
<1> DEFINE a == Append(s, w)  n == Len(s)  R == Round(l)
<1>1. R \in Nat \ {0} /\ n \in Nat /\ n <= R /\ DOMAIN s = 1 .. n
  <2>1. R \in Nat \ {0}
    <3>1. 0 \in Nat
      OBVIOUS
    <3> QED
      BY <3>1, PickIs
  <2> QED
    BY <2>1
<1>2. /\ a \in Seq(Int) /\ Len(a) = n + 1 /\ DOMAIN a = 1 .. (n + 1) /\ a # <<>>
      /\ a[n + 1] = w /\ \A j \in 1 .. n : a[j] = s[j]
  <2>1. /\ a \in Seq(Int) /\ Len(a) = n + 1 /\ DOMAIN a = 1 .. (n + 1)
        /\ a[n + 1] = w /\ \A j \in 1 .. n : a[j] = s[j]
    OBVIOUS
  <2>2. a # <<>>
    <3>1. Len(<<>>) = 0
      OBVIOUS
    <3> HIDE DEF a
    <3> QED
      BY <1>1, <2>1, <3>1
  <2> QED
    BY <2>1, <2>2, Zenon
<1> HIDE DEF a, n, R
<1>3. CASE n + 1 > R
  <2> DEFINE b == Tail(a)
  <2>1. Kept(l, s, w) = b
    BY <1>2, <1>3 DEF Kept, a, R
  <2>2. b \in Seq(Int) /\ Len(b) = n /\ DOMAIN b = 1 .. n /\ \A j \in 1 .. n : b[j] = a[j + 1]
    BY <1>1, <1>2
  <2> HIDE DEF b
  <2>3. ASSUME NEW j \in DOMAIN b
        PROVE  IF j + 1 <= n THEN j + 1 \in DOMAIN s /\ b[j] = s[j + 1]
               ELSE j + 1 = n + 1 /\ b[j] = w
    <3>1. j \in 1 .. n /\ b[j] = a[j + 1] /\ j + 1 \in 1 .. (n + 1)
      BY <1>1, <2>2
    <3>2. j + 1 <= n => j + 1 \in 1 .. n
      BY <1>1, <3>1
    <3>3. ~(j + 1 <= n) => j + 1 = n + 1
      BY <1>1, <3>1
    <3> QED
      BY <1>1, <1>2, <3>1, <3>2, <3>3
  <2>4. Len(b) = (n + 1) - 1 /\ Len(b) <= R /\ 1 \in {0, 1}
    BY <1>1, <2>2
  <2> QED
    BY <2>1, <2>2, <2>3, <2>4 DEF n, R, Shifted
<1>4. CASE ~(n + 1 > R)
  <2>1. Kept(l, s, w) = a
    BY <1>2, <1>4 DEF Kept, a, R
  <2>2. ASSUME NEW j \in DOMAIN a
        PROVE  IF j + 0 <= n THEN j + 0 \in DOMAIN s /\ a[j] = s[j + 0]
               ELSE j + 0 = n + 1 /\ a[j] = w
    BY <1>1, <1>2
  <2>3. Len(a) = (n + 1) - 0 /\ Len(a) <= R /\ 0 \in {0, 1}
    BY <1>1, <1>2, <1>4
  <2> QED
    BY <1>2, <2>1, <2>2, <2>3 DEF n, R, Shifted
<1> QED
  BY <1>3, <1>4

LEMMA KeptOne ==
  ASSUME NEW l, IsWanList(l), Len(Allowed(l)) = 1, NEW s, NEW q, PicksOk(l, s, q)
  PROVE  PicksOk(l, Kept(l, s, Allowed(l)[1].wan), q)
<1>1. Len(Allowed(l)) > 0 /\ ~(Len(Allowed(l)) > 1) /\ s \in Seq(Int) /\ Len(s) <= Round(l)
  BY DEF PicksOk
<1>2. PICK w : w = Allowed(l)[1].wan
  OBVIOUS
<1>3. w \in Int
  BY <1>2, SharesFacts, RowOf
<1>4. PICK r : r = Kept(l, s, w)
  OBVIOUS
<1>5. r \in Seq(Int) /\ Len(r) <= Round(l)
  BY <1>1, <1>3, <1>4, KeptIs
<1>6. \A j \in DOMAIN r : r[j] = w \/ \E i \in DOMAIN s : r[j] = s[i]
  <2>1. PICK d \in {0, 1} : Shifted(r, s, w, d)
    BY <1>1, <1>3, <1>4, KeptIs
  <2> QED
    BY <2>1 DEF Shifted
<1>7. \A j \in DOMAIN r : r[j] = w
  BY <1>2, <1>6 DEF PicksOk
<1> QED
  BY <1>1, <1>2, <1>4, <1>5, <1>7 DEF PicksOk

LEMMA KeptNext ==
  ASSUME NEW l, IsWanList(l), Len(Allowed(l)) > 1, NEW s, NEW q \in Nat, PicksOk(l, s, q)
  PROVE  PicksOk(l, Kept(l, s, PickPerPacket(l, q)), q + 1)
<1>1. Len(Allowed(l)) > 0 /\ Len(Allowed(l)) # 1 /\ s \in Seq(Int) /\ Len(s) <= Round(l)
  <2>1. PICK m \in Nat : m = Len(Allowed(l))
    BY RoundTyped
  <2>2. m > 0 /\ m # 1
    BY <2>1
  <2>3. s \in Seq(Int) /\ Len(s) <= Round(l)
    BY DEF PicksOk
  <2> QED
    BY <2>1, <2>2, <2>3, Zenon
<1>2. Len(s) \in Nat /\ DOMAIN s = 1 .. Len(s) /\ Len(s) <= q
      /\ \A j \in DOMAIN s : s[j] = PickPerPacket(l, (q - Len(s)) + (j - 1))
  BY <1>1 DEF PicksOk
<1>3. PICK w : w = PickPerPacket(l, q)
  OBVIOUS
<1>4. w \in Int
  <2>1. Allowed(l) \in Seq(WanRow)
    BY SharesFacts
  <2>2. \A i \in DOMAIN Allowed(l) : Allowed(l)[i].wan \in Int
    BY <2>1, RowOf
  <2>3. \E i \in DOMAIN Allowed(l) : PickPerPacket(l, q) = Allowed(l)[i].wan
    BY <1>1, PickIs
  <2> QED
    BY <1>3, <2>2, <2>3
<1>5. PICK r : r = Kept(l, s, w)
  OBVIOUS
<1>6. r \in Seq(Int) /\ Len(r) <= Round(l)
  BY <1>1, <1>4, <1>5, KeptIs
<1>7. PICK d \in {0, 1} : Shifted(r, s, w, d)
  BY <1>1, <1>4, <1>5, KeptIs
<1>8. Len(r) <= q + 1
  BY <1>2, <1>7 DEF Shifted
<1>9. ASSUME NEW j \in DOMAIN r
      PROVE  r[j] = PickPerPacket(l, ((q + 1) - Len(r)) + (j - 1))
  <2>0. Len(r) = (Len(s) + 1) - d
    BY <1>7 DEF Shifted
  <2>1. j \in Int /\ d \in Int
    BY <1>6
  <2>2. CASE j + d <= Len(s)
    <3>1. r[j] = PickPerPacket(l, (q - Len(s)) + ((j + d) - 1))
      BY <1>2, <1>7, <2>2 DEF Shifted
    <3>2. (q - Len(s)) + ((j + d) - 1) = ((q + 1) - Len(r)) + (j - 1)
      BY <1>2, <2>1, <2>0
    <3> QED
      BY <3>1, <3>2
  <2>3. CASE ~(j + d <= Len(s))
    <3>1. r[j] = w /\ j + d = Len(s) + 1
      BY <1>7, <2>3 DEF Shifted
    <3>2. q = ((q + 1) - Len(r)) + (j - 1)
      <4>0. Len(s) \in Int /\ Len(r) \in Int
        <5>1. Len(s) \in Nat /\ Len(r) \in Nat
          BY <1>2, <1>6
        <5> QED
          BY <5>1
      <4>1. PICK m, n \in Int : m = Len(s) /\ n = Len(r)
        BY <4>0, Zenon
      <4>2. n = (m + 1) - d /\ j + d = m + 1
        BY <2>0, <3>1, <4>1
      <4>3. q = ((q + 1) - n) + (j - 1)
        BY <2>1, <4>1, <4>2
      <4> QED
        BY <4>1, <4>3
    <3> QED
      BY <1>3, <3>1, <3>2
  <2> QED
    BY <2>2, <2>3
<1> QED
  BY <1>1, <1>3, <1>5, <1>6, <1>8, <1>9 DEF PicksOk

LEMMA PickInit == Init => PickInv
<1> SUFFICES ASSUME Init PROVE PickInv
  OBVIOUS
<1>1. DOMAIN picked = Profile /\ \A p \in Profile : picked[p] = <<>>
  BY DEF Init
<1>2. \A p \in Profile : IsWanList(wans[p])
  BY ListsGiven DEF Init
<1>3. <<>> \in Seq(Int) /\ Len(<<>>) = 0 /\ DOMAIN <<>> = {} /\ seq = 0
  BY DEF Init
<1>4. \A p \in Profile : PicksOk(wans[p], <<>>, seq)
  BY <1>2, <1>3, RoundTyped DEF PicksOk
<1> QED
  BY <1>1, <1>4 DEF PickInv

LEMMA PickStep == ASSUME OneSpread, WanTypeInv, PickInv, [Next]_vars PROVE PickInv'
<1>1. /\ DOMAIN picked = Profile /\ DOMAIN wans = Profile /\ seq \in Nat
      /\ \A p \in Profile : PicksOk(wans[p], picked[p], seq)
      /\ \A p \in Profile : wans[p] \in WanLists[p] /\ IsWanList(wans[p])
  BY WanConstants, ListsGiven DEF PickInv, WanTypeInv
<1>2. CASE UNCHANGED <<wans, seq, picked>>
  BY <1>2 DEF PickInv
<1>3. ASSUME NEW p \in Profile, PickOnly(p) PROVE PickInv'
  <2>1. PICK r : r = Kept(wans[p], picked[p], Allowed(wans[p])[1].wan)
    OBVIOUS
  <2>2. picked' = [picked EXCEPT ![p] = r] /\ wans' = wans /\ seq' = seq
    BY <1>3, <2>1 DEF PickOnly, Remember, Kept
  <2>3. PicksOk(wans[p], r, seq)
    BY <1>1, <1>3, <2>1, KeptOne DEF PickOnly
  <2>4. /\ DOMAIN picked' = Profile /\ picked'[p] = r
        /\ \A q \in Profile \ {p} : picked'[q] = picked[q]
    BY <1>1, <2>2
  <2> QED
    BY <1>1, <2>2, <2>3, <2>4 DEF PickInv
<1>4. ASSUME NEW p \in Profile, PickNext(p) PROVE PickInv'
  <2>1. PICK r : r = Kept(wans[p], picked[p], PickPerPacket(wans[p], seq))
    OBVIOUS
  <2>2. picked' = [picked EXCEPT ![p] = r] /\ wans' = wans /\ seq' = seq + 1
    BY <1>4, <2>1 DEF PickNext, Remember, Kept
  <2>3. PicksOk(wans[p], r, seq + 1)
    BY <1>1, <1>4, <2>1, KeptNext DEF PickNext
  <2>4. /\ DOMAIN picked' = Profile /\ picked'[p] = r
        /\ \A q \in Profile \ {p} : picked'[q] = picked[q]
    BY <1>1, <2>2
  <2>5. ASSUME NEW q \in Profile \ {p} PROVE PicksOk(wans[q], picked[q], seq + 1)
    <3>1. ~(Len(Allowed(wans[q])) > 1)
      BY <1>1, <1>4 DEF OneSpread, PickNext
    <3> QED
      BY <1>1, <3>1 DEF PicksOk
  <2> QED
    BY <2>2, <2>3, <2>4, <2>5 DEF PickInv
<1>5. ASSUME NEW p \in Profile, Reload(p) PROVE PickInv'
  <2>1. PICK l \in WanLists[p] : wans' = [wans EXCEPT ![p] = l]
    BY <1>5 DEF Reload
  <2>2. picked' = [picked EXCEPT ![p] = <<>>] /\ seq' = seq
    BY <1>5 DEF Reload
  <2>3. <<>> \in Seq(Int) /\ Len(<<>>) = 0 /\ DOMAIN <<>> = {}
    OBVIOUS
  <2>4. PicksOk(l, <<>>, seq)
    BY <1>1, <2>3, ListsGiven, RoundTyped DEF PicksOk
  <2>5. /\ DOMAIN picked' = Profile /\ picked'[p] = <<>> /\ wans'[p] = l
        /\ \A q \in Profile \ {p} : picked'[q] = picked[q] /\ wans'[q] = wans[q]
    BY <1>1, <2>1, <2>2
  <2> QED
    BY <1>1, <2>2, <2>4, <2>5 DEF PickInv
<1>6. ASSUME NEW t \in Worker, ReadClock(t) \/ Lookup(t) \/ Insert(t) \/ InsertFails(t)
      PROVE  UNCHANGED <<wans, seq, picked>>
  BY <1>6 DEF ReadClock, Lookup, Insert, InsertFails, pick
<1>7. GcBegin \/ GcBucket \/ GcEnd \/ Tick => UNCHANGED <<wans, seq, picked>>
  BY DEF GcBegin, GcBucket, GcEnd, Tick, pick
<1>8. UNCHANGED vars => UNCHANGED <<wans, seq, picked>>
  BY DEF vars
<1> QED
  BY <1>2, <1>3, <1>4, <1>5, <1>6, <1>7, <1>8 DEF Next

LEMMA PicksShare ==
  ASSUME NEW l, IsWanList(l), NEW s, NEW q \in Nat, PicksOk(l, s, q), Len(s) = Round(l), NEW w
  PROVE  Cardinality({j \in DOMAIN s : s[j] = w}) = Cardinality(Parts(l, w))
<1> DEFINE N == Len(Allowed(l))
           R == Round(l)
<1>1. /\ N \in Nat /\ DOMAIN Allowed(l) = 1 .. N
      /\ R \in Nat /\ DOMAIN s = 1 .. R
  BY SharesFacts, RoundTyped DEF PicksOk
<1>2. CASE N = 0
  <2>1. R = 0
    BY <1>2, SharesFacts DEF Round
  <2>2. {j \in DOMAIN s : s[j] = w} = {} /\ Parts(l, w) = {}
    <3> HIDE DEF N, R
    <3> QED
      BY <1>1, <1>2, <2>1 DEF Parts
  <2> QED
    BY <2>2
<1>3. CASE N > 0
  <2>1. PICK n \in Nat : \A j \in 1 .. R : s[j] = PickPerPacket(l, n + (j - 1))
    <3>1. CASE N = 1
      <4>1. ASSUME NEW j \in 1 .. R PROVE s[j] = PickPerPacket(l, 0 + (j - 1))
        <5>1. 0 + (j - 1) \in Nat
          BY <1>1
        <5>2. PICK i \in DOMAIN Allowed(l) : PickPerPacket(l, 0 + (j - 1)) = Allowed(l)[i].wan
          BY <1>3, <5>1, PickIs
        <5>3. i = 1 /\ s[j] = Allowed(l)[1].wan
          BY <1>1, <3>1, <5>2 DEF PicksOk
        <5> QED
          BY <5>2, <5>3
      <4> QED
        BY <4>1
    <3>2. CASE N > 1
      <4>1. R <= q /\ q - R \in Nat
            /\ \A j \in 1 .. R : s[j] = PickPerPacket(l, (q - R) + (j - 1))
        <5>1. R <= q /\ \A j \in DOMAIN s : s[j] = PickPerPacket(l, (q - R) + (j - 1))
          BY <3>2 DEF PicksOk
        <5> HIDE DEF R
        <5> QED
          BY <1>1, <5>1
      <4> QED
        BY <4>1
    <3> HIDE DEF N
    <3> QED
      BY <1>1, <1>3, <3>1, <3>2
  <2>2. {j \in DOMAIN s : s[j] = w} = {j \in 1 .. R : PickPerPacket(l, n + (j - 1)) = w}
    BY <1>1, <2>1
  <2>3. Cardinality({j \in 1 .. R : PickPerPacket(l, n + (j - 1)) = w}) = Cardinality(Parts(l, w))
    BY <1>3, RoundShares
  <2> QED
    BY <2>2, <2>3, Zenon
<1> HIDE DEF N
<1> QED
  BY <1>1, <1>2, <1>3

\* WeightedShare: as long as one profile at most has several usable WANs, each of
\* them gets exactly its weight of every round of the profile's packets.
THEOREM WeightedShareCorrect == ASSUME OneSpread PROVE Spec => []WeightedShare
<1>1. Init => PickInv
  BY PickInit
<1>2. WanTypeInv /\ PickInv /\ [Next]_vars => PickInv'
  BY PickStep
<1>3. WanTypeInv /\ PickInv => WeightedShare
  <2> SUFFICES ASSUME WanTypeInv, PickInv PROVE WeightedShare
    OBVIOUS
  <2>1. SUFFICES ASSUME NEW p \in Profile, Len(picked[p]) = Round(wans[p]), NEW w \in Wan
                 PROVE  Cardinality({j \in DOMAIN picked[p] : picked[p][j] = w})
                          = Cardinality(Parts(wans[p], w))
    BY DEF WeightedShare
  <2>2. IsWanList(wans[p]) /\ seq \in Nat /\ PicksOk(wans[p], picked[p], seq)
    BY WanConstants, ListsGiven DEF WanTypeInv, PickInv
  <2> QED
    BY <2>1, <2>2, PicksShare
<1> QED
  BY <1>1, <1>2, <1>3, WanTypeCorrect, PTL DEF Spec

-----------------------------------------------------------------------------
(* Loading and merging the profiles: lists of interfaces *)

\* A place of a name in a list; 0 when it has none.
LEMMA IndexOfFacts ==
  ASSUME NEW T, NEW l \in Seq(T), NEW x
  PROVE  /\ IndexOf(l, x) \in Nat
         /\ IndexOf(l, x) > 0 => IndexOf(l, x) \in DOMAIN l /\ l[IndexOf(l, x)] = x
         /\ (\E n \in DOMAIN l : l[n] = x) => IndexOf(l, x) > 0
<1> DEFINE I == {i \in 1 .. Len(l) : l[i] = x}
<1>1. IndexOf(l, x) = IF I # {} THEN Min(I) ELSE 0
  BY DEF IndexOf, SelectInSeq
<1>2. I \in SUBSET Nat /\ DOMAIN l = 1 .. Len(l)
  OBVIOUS
<1>3. CASE I = {}
  BY <1>1, <1>2, <1>3
<1>4. CASE I # {}
  <2>1. \E i \in I : \A j \in I : i <= j
    <3> HIDE DEF I
    <3> QED
      BY <1>2, <1>4, LeastExists
  <2>2. Min(I) \in I
    <3> HIDE DEF I
    <3> QED
      BY <2>1 DEF Min
  <2> QED
    BY <1>1, <1>2, <1>4, <2>2
<1> QED
  BY <1>3, <1>4

\* A list that has grown: what it had is where it was.
Grown(r, s) == Len(s) <= Len(r) /\ \A n \in DOMAIN s : n \in DOMAIN r /\ r[n] = s[n]

\* The loop of merge_one_config over the interfaces of a profile.
LEMMA MergedNamesLoop ==
  ASSUME NEW s0 \in Seq(Name), NEW l \in Seq(Name)
  PROVE  \E f : /\ f[0] = s0 /\ MergedNames(s0, l) = f[Len(l)]
                /\ \A n \in 0 .. Len(l) : f[n] \in Seq(Name)
                /\ \A n \in 1 .. Len(l) : f[n] = AppendUnique(f[n - 1], l[n])
<1> DEFINE N == Len(l)
           V == Seq(Name)
           op(s, e) == AppendUnique(s, e)
           G == [x \in V \X (1 .. N) |-> op(x[1], l[x[2]])]
           Is(t) == t = [D \in SUBSET DOMAIN l |->
                           IF D = {} THEN s0 ELSE op(t[D \ {Max(D)}], l[Max(D)])]
           iter == CHOOSE t : Is(t)
<1>1. N \in Nat /\ DOMAIN l = 1 .. N /\ s0 \in V /\ \A n \in 1 .. N : l[n] \in Name
  OBVIOUS
<1>2. G \in [V \X (1 .. N) -> V]
  <2>1. ASSUME NEW s \in V, NEW n \in 1 .. N PROVE op(s, l[n]) \in V
    BY <1>1 DEF AppendUnique
  <2> HIDE DEF op, V
  <2> QED
    BY <2>1
<1> HIDE DEF op, V
<1>3. PICK it \in [SUBSET (1 .. N) -> V] : FoldTable(it, N, G, s0)
  <2> HIDE DEF N, G
  <2> QED
    BY <1>1, <1>2, FoldTableExists
<1>4. ASSUME NEW D \in SUBSET (1 .. N), D # {}
      PROVE  it[D] = op(it[D \ {Max(D)}], l[Max(D)])
  <2>1. it[D] = G[<<it[D \ {Max(D)}], Max(D)>>]
    BY <1>3, <1>4 DEF FoldTable
  <2>2. Max(D) \in 1 .. N
    <3>1. D \in SUBSET (0 .. N)
      OBVIOUS
    <3> HIDE DEF N
    <3> QED
      BY <1>1, <1>4, <3>1, MaxUpTo
  <2>3. it[D \ {Max(D)}] \in V
    BY <1>3
  <2> HIDE DEF N
  <2> QED
    BY <2>1, <2>2, <2>3
<1>5. Is(it)
  <2>1. it[{}] = s0
    BY <1>3 DEF FoldTable
  <2> HIDE DEF N
  <2> QED
    BY <1>1, <1>3, <1>4, <2>1
<1>6. Is(iter)
  <2> HIDE DEF Is
  <2> QED
    BY <1>5
<1>7. MergedNames(s0, l) = iter[DOMAIN l]
  BY DEF MergedNames, FoldLeft, MapThenFoldSet, op
<1> DEFINE f == [n \in 0 .. N |-> iter[1 .. n]]
<1>8. ASSUME NEW n \in 1 .. N PROVE f[n] = op(f[n - 1], l[n])
  <2>1. iter[1 .. n] = op(iter[(1 .. n) \ {Max(1 .. n)}], l[Max(1 .. n)])
    <3>1. 1 .. n \in SUBSET DOMAIN l /\ 1 .. n # {}
      BY <1>1, LoopSets
    <3> HIDE DEF iter
    <3> QED
      BY <1>6, <3>1
  <2> HIDE DEF iter
  <2>2. f[n] = iter[1 .. n] /\ f[n - 1] = iter[1 .. (n - 1)]
    BY <1>1
  <2> HIDE DEF f, N
  <2> QED
    BY <1>1, <2>1, <2>2, LoopSets
<1>9. f[0] = s0
  <2>1. iter[{}] = s0
    <3> HIDE DEF iter
    <3> QED
      BY <1>6
  <2>2. f[0] = iter[1 .. 0] /\ 1 .. 0 = {}
    BY <1>1
  <2> HIDE DEF f, iter
  <2> QED
    BY <2>1, <2>2
<1>10. f[N] = MergedNames(s0, l)
  <2> HIDE DEF iter
  <2> QED
    BY <1>1, <1>7
<1> HIDE DEF f
<1>11. \A n \in 0 .. N : f[n] \in V
  <2> DEFINE S == {n \in Nat : n <= N => f[n] \in V}
  <2>1. 0 \in S
    BY <1>1, <1>9
  <2>2. ASSUME NEW n \in Nat, n \in S PROVE n + 1 \in S
    <3>1. SUFFICES ASSUME n + 1 <= N PROVE f[n + 1] \in V
      OBVIOUS
    <3>2. n + 1 \in 1 .. N /\ (n + 1) - 1 = n /\ f[n] \in V
      BY <1>1, <2>2, <3>1
    <3>3. G[<<f[n], n + 1>>] = op(f[n], l[n + 1]) /\ G[<<f[n], n + 1>>] \in V
      BY <1>2, <3>2
    <3> HIDE DEF G
    <3> QED
      BY <1>8, <3>2, <3>3
  <2> HIDE DEF S
  <2>3. \A n \in Nat : n \in S
    BY <2>1, <2>2, Induction
  <2> QED
    BY <1>1, <2>3 DEF S
<1> QED
  BY <1>8, <1>9, <1>10, <1>11 DEF op, V

\* The loop of profile_append_wans_from_rows.
LEMMA IndicesLoop ==
  ASSUME NEW list \in Seq(Name), NEW l \in Seq(Name)
  PROVE  \E f : /\ f[0] = <<>> /\ Indices(list, l) = f[Len(l)]
                /\ \A n \in 0 .. Len(l) : f[n] \in Seq(Nat)
                /\ \A n \in 1 .. Len(l) : f[n] = IF IndexOf(list, l[n]) > 0 THEN Append(f[n - 1], IndexOf(list, l[n]))
                                   ELSE f[n - 1]
<1> DEFINE N == Len(l)
           V == Seq(Nat)
           op(s, e) == IF IndexOf(list, e) > 0 THEN Append(s, IndexOf(list, e)) ELSE s
           G == [x \in V \X (1 .. N) |-> op(x[1], l[x[2]])]
           Is(t) == t = [D \in SUBSET DOMAIN l |->
                           IF D = {} THEN <<>> ELSE op(t[D \ {Max(D)}], l[Max(D)])]
           iter == CHOOSE t : Is(t)
<1>1. N \in Nat /\ DOMAIN l = 1 .. N /\ <<>> \in V /\ \A n \in 1 .. N : l[n] \in Name
  OBVIOUS
<1>2. G \in [V \X (1 .. N) -> V]
  <2>1. ASSUME NEW s \in V, NEW n \in 1 .. N PROVE op(s, l[n]) \in V
    <3>1. IndexOf(list, l[n]) \in Nat
      BY IndexOfFacts
    <3> QED
      BY <3>1
  <2> HIDE DEF op, V
  <2> QED
    BY <2>1
<1> HIDE DEF op, V
<1>3. PICK it \in [SUBSET (1 .. N) -> V] : FoldTable(it, N, G, <<>>)
  <2> HIDE DEF N, G
  <2> QED
    BY <1>1, <1>2, FoldTableExists
<1>4. ASSUME NEW D \in SUBSET (1 .. N), D # {}
      PROVE  it[D] = op(it[D \ {Max(D)}], l[Max(D)])
  <2>1. it[D] = G[<<it[D \ {Max(D)}], Max(D)>>]
    BY <1>3, <1>4 DEF FoldTable
  <2>2. Max(D) \in 1 .. N
    <3>1. D \in SUBSET (0 .. N)
      OBVIOUS
    <3> HIDE DEF N
    <3> QED
      BY <1>1, <1>4, <3>1, MaxUpTo
  <2>3. it[D \ {Max(D)}] \in V
    BY <1>3
  <2> HIDE DEF N
  <2> QED
    BY <2>1, <2>2, <2>3
<1>5. Is(it)
  <2>1. it[{}] = <<>>
    BY <1>3 DEF FoldTable
  <2> HIDE DEF N
  <2> QED
    BY <1>1, <1>3, <1>4, <2>1
<1>6. Is(iter)
  <2> HIDE DEF Is
  <2> QED
    BY <1>5
<1>7. Indices(list, l) = iter[DOMAIN l]
  BY DEF Indices, FoldLeft, MapThenFoldSet, op
<1> DEFINE f == [n \in 0 .. N |-> iter[1 .. n]]
<1>8. ASSUME NEW n \in 1 .. N PROVE f[n] = op(f[n - 1], l[n])
  <2>1. iter[1 .. n] = op(iter[(1 .. n) \ {Max(1 .. n)}], l[Max(1 .. n)])
    <3>1. 1 .. n \in SUBSET DOMAIN l /\ 1 .. n # {}
      BY <1>1, LoopSets
    <3> HIDE DEF iter
    <3> QED
      BY <1>6, <3>1
  <2> HIDE DEF iter
  <2>2. f[n] = iter[1 .. n] /\ f[n - 1] = iter[1 .. (n - 1)]
    BY <1>1
  <2> HIDE DEF f, N
  <2> QED
    BY <1>1, <2>1, <2>2, LoopSets
<1>9. f[0] = <<>>
  <2>1. iter[{}] = <<>>
    <3> HIDE DEF iter
    <3> QED
      BY <1>6
  <2>2. f[0] = iter[1 .. 0] /\ 1 .. 0 = {}
    BY <1>1
  <2> HIDE DEF f, iter
  <2> QED
    BY <2>1, <2>2
<1>10. f[N] = Indices(list, l)
  <2> HIDE DEF iter
  <2> QED
    BY <1>1, <1>7
<1> HIDE DEF f
<1>11. \A n \in 0 .. N : f[n] \in V
  <2> DEFINE S == {n \in Nat : n <= N => f[n] \in V}
  <2>1. 0 \in S
    BY <1>1, <1>9
  <2>2. ASSUME NEW n \in Nat, n \in S PROVE n + 1 \in S
    <3>1. SUFFICES ASSUME n + 1 <= N PROVE f[n + 1] \in V
      OBVIOUS
    <3>2. n + 1 \in 1 .. N /\ (n + 1) - 1 = n /\ f[n] \in V
      BY <1>1, <2>2, <3>1
    <3>3. G[<<f[n], n + 1>>] = op(f[n], l[n + 1]) /\ G[<<f[n], n + 1>>] \in V
      BY <1>2, <3>2
    <3> HIDE DEF G
    <3> QED
      BY <1>8, <3>2, <3>3
  <2> HIDE DEF S
  <2>3. \A n \in Nat : n \in S
    BY <2>1, <2>2, Induction
  <2> QED
    BY <1>1, <2>3 DEF S
<1> QED
  BY <1>8, <1>9, <1>10, <1>11 DEF op, V

LEMMA GrownTrans ==
  ASSUME NEW T, NEW q \in Seq(T), NEW r \in Seq(T), NEW s \in Seq(T), Grown(q, r), Grown(r, s)
  PROVE  Grown(q, s)
<1>1. Len(s) <= Len(q)
  BY DEF Grown
<1>2. ASSUME NEW n \in DOMAIN s PROVE n \in DOMAIN q /\ q[n] = s[n]
  <2>1. n \in DOMAIN r /\ r[n] = s[n]
    BY DEF Grown
  <2> QED
    BY <2>1 DEF Grown
<1> QED
  BY <1>1, <1>2 DEF Grown

LEMMA SeqIs ==
  ASSUME NEW T, NEW m \in Nat, NEW g \in [1 .. m -> T]
  PROVE  g \in Seq(T) /\ Len(g) = m /\ DOMAIN g = 1 .. m
<1>1. g \in Seq(T)
  BY SeqDef, Zenon
<1> QED
  BY <1>1

LEMMA Appended ==
  ASSUME NEW T, NEW s \in Seq(T), NEW x \in T
  PROVE  /\ Append(s, x) \in Seq(T) /\ Len(s) \in Nat /\ Len(Append(s, x)) = Len(s) + 1
         /\ DOMAIN s = 1 .. Len(s) /\ DOMAIN Append(s, x) = 1 .. (Len(s) + 1)
         /\ Append(s, x)[Len(s) + 1] = x /\ \A n \in DOMAIN s : Append(s, x)[n] = s[n]
         /\ Grown(Append(s, x), s)
BY DEF Grown

\* The merged list keeps what it had and has every interface of the profile.
LEMMA MergedNamesFacts ==
  ASSUME NEW s \in Seq(Name), NEW l \in Seq(Name)
  PROVE  /\ MergedNames(s, l) \in Seq(Name) /\ Grown(MergedNames(s, l), s)
         /\ \A n \in DOMAIN l : \E m \in DOMAIN MergedNames(s, l) : MergedNames(s, l)[m] = l[n]
<1> DEFINE N == Len(l)
<1>1. N \in Nat /\ DOMAIN l = 1 .. N /\ \A n \in 1 .. N : l[n] \in Name
  OBVIOUS
<1>2. PICK f : /\ f[0] = s /\ MergedNames(s, l) = f[N] /\ \A n \in 0 .. N : f[n] \in Seq(Name)
               /\ \A n \in 1 .. N : f[n] = AppendUnique(f[n - 1], l[n])
  BY SMTT(30), MergedNamesLoop
<1> DEFINE Has(r, x) == \E m \in DOMAIN r : r[m] = x
           Good(n) == Grown(f[n], s) /\ \A i \in 1 .. n : Has(f[n], l[i])
           S == {n \in Nat : n <= N => Good(n)}
<1>3. 0 \in S
  <2>1. Grown(s, s)
    BY DEF Grown
  <2> QED
    BY <1>2, <2>1
<1>4. ASSUME NEW n \in Nat, n \in S PROVE n + 1 \in S
  <2> DEFINE r == f[n]  q == f[n + 1]  x == l[n + 1]
  <2>1. SUFFICES ASSUME n + 1 <= N PROVE Good(n + 1)
    <3> HIDE DEF Good
    <3> QED
      OBVIOUS
  <2>2. /\ n + 1 \in 1 .. N /\ (n + 1) - 1 = n /\ x \in Name
        /\ r \in Seq(Name) /\ q \in Seq(Name) /\ Good(n) /\ q = AppendUnique(r, x)
    <3>1. n + 1 \in 1 .. N /\ (n + 1) - 1 = n /\ n \in 0 .. N /\ n + 1 \in 0 .. N
      BY <1>1, <2>1
    <3>2. Good(n)
      <4> HIDE DEF Good
      <4> QED
        BY <1>1, <1>4, <2>1
    <3> HIDE DEF Good, N
    <3> QED
      BY <1>1, <1>2, <3>1, <3>2
  <2> HIDE DEF q, r, x
  <2>3. Grown(q, r) /\ Has(q, x)
    <3>1. CASE \E m \in DOMAIN r : r[m] = x
      BY <2>2, <3>1 DEF AppendUnique, Grown
    <3>2. CASE ~\E m \in DOMAIN r : r[m] = x
      <4>1. q = Append(r, x)
        BY <2>2, <3>2 DEF AppendUnique
      <4>2. Grown(q, r) /\ Len(r) + 1 \in DOMAIN q /\ q[Len(r) + 1] = x
        BY <2>2, <4>1, Appended
      <4> QED
        BY <4>2
    <3> QED
      BY <3>1, <3>2
  <2>4. Grown(q, s)
    BY <2>2, <2>3, GrownTrans DEF r
  <2>5. ASSUME NEW i \in 1 .. (n + 1) PROVE Has(q, l[i])
    <3>1. CASE i = n + 1
      BY <2>3, <3>1 DEF x
    <3>2. CASE i # n + 1
      <4>1. i \in 1 .. n
        BY <3>2
      <4>2. PICK m \in DOMAIN r : r[m] = l[i]
        BY <2>2, <4>1 DEF r
      <4> QED
        BY <2>3, <4>2 DEF Grown
    <3> QED
      BY <3>1, <3>2
  <2> QED
    BY <2>4, <2>5 DEF q
<1> HIDE DEF S
<1>5. N \in S
  BY <1>1, <1>3, <1>4, Induction
<1>6. Good(N) /\ f[N] \in Seq(Name) /\ MergedNames(s, l) = f[N]
  <2>1. N \in 0 .. N
    BY <1>1
  <2>2. Good(N)
    <3> HIDE DEF Good
    <3> QED
      BY <1>1, <1>5 DEF S
  <2> QED
    BY <1>2, <2>1, <2>2
<1> HIDE DEF N
<1> QED
  BY <1>1, <1>6

\* The indices of names are places in the list; all of them, when they are the
\* list's own.
LEMMA IndicesFacts ==
  ASSUME NEW list \in Seq(Name), NEW l \in Seq(Name)
  PROVE  /\ Indices(list, l) \in Seq(Nat)
         /\ \A n \in DOMAIN Indices(list, l) : Indices(list, l)[n] \in DOMAIN list
         /\ list = l => /\ Len(Indices(list, l)) = Len(l)
                        /\ \A n \in DOMAIN Indices(list, l) : list[Indices(list, l)[n]] = l[n]
<1> DEFINE N == Len(l)
<1>1. N \in Nat /\ DOMAIN l = 1 .. N /\ \A n \in 1 .. N : l[n] \in Name
  OBVIOUS
<1>2. PICK f : /\ f[0] = <<>> /\ Indices(list, l) = f[N] /\ \A n \in 0 .. N : f[n] \in Seq(Nat)
               /\ \A n \in 1 .. N : f[n] = IF IndexOf(list, l[n]) > 0
                                           THEN Append(f[n - 1], IndexOf(list, l[n]))
                                           ELSE f[n - 1]
  BY SMTT(30), IndicesLoop
<1> DEFINE Good(r, n) == /\ \A i \in DOMAIN r : r[i] \in DOMAIN list
                         /\ list = l => Len(r) = n /\ \A i \in DOMAIN r : list[r[i]] = l[i]
           S == {n \in Nat : n <= N => Good(f[n], n)}
<1>3. 0 \in S
  <2>1. Len(<<>>) = 0 /\ DOMAIN <<>> = {}
    OBVIOUS
  <2> QED
    BY <1>2, <2>1
<1>4. ASSUME NEW n \in Nat, n \in S PROVE n + 1 \in S
  <2> DEFINE r == f[n]  q == f[n + 1]  x == IndexOf(list, l[n + 1])
  <2>1. SUFFICES ASSUME n + 1 <= N PROVE Good(q, n + 1)
    <3> HIDE DEF Good
    <3> QED
      OBVIOUS
  <2>2. /\ n + 1 \in 1 .. N /\ (n + 1) - 1 = n /\ x \in Nat /\ r \in Seq(Nat)
        /\ Good(r, n) /\ q = IF x > 0 THEN Append(r, x) ELSE r
    <3>1. n + 1 \in 1 .. N /\ (n + 1) - 1 = n /\ n \in 0 .. N
      BY <1>1, <2>1
    <3>2. Good(r, n)
      <4> HIDE DEF Good
      <4> QED
        BY <1>1, <1>4, <2>1
    <3>3. x \in Nat
      BY IndexOfFacts
    <3> HIDE DEF Good, N
    <3> QED
      BY <1>2, <3>1, <3>2, <3>3
  <2>3. /\ x > 0 => x \in DOMAIN list /\ list[x] = l[n + 1]
        /\ list = l => x > 0
    <3>1. n + 1 \in DOMAIN l
      BY <1>1, <2>2
    <3> QED
      BY <3>1, IndexOfFacts
  <2> HIDE DEF q, r, x
  <2>4. CASE x > 0
    <3>1. /\ q = Append(r, x) /\ Len(r) \in Nat /\ Len(q) = Len(r) + 1 /\ DOMAIN r = 1 .. Len(r)
          /\ DOMAIN q = 1 .. (Len(r) + 1) /\ q[Len(r) + 1] = x /\ \A i \in DOMAIN r : q[i] = r[i]
      BY <2>2, <2>4, Appended
    <3>2. \A i \in DOMAIN q : i \in DOMAIN r \/ i = Len(r) + 1
      BY <3>1
    <3>3. \A i \in DOMAIN q : q[i] \in DOMAIN list
      BY <2>2, <2>3, <2>4, <3>1, <3>2
    <3>4. ASSUME list = l PROVE Len(q) = n + 1 /\ \A i \in DOMAIN q : list[q[i]] = l[i]
      <4>1. Len(r) = n /\ \A i \in DOMAIN r : list[r[i]] = l[i]
        BY <2>2, <3>4
      <4>2. \A i \in DOMAIN q : list[q[i]] = l[i]
        BY <2>3, <2>4, <3>1, <3>2, <4>1
      <4> QED
        BY <3>1, <4>1, <4>2
    <3> QED
      BY <3>3, <3>4
  <2>5. CASE ~(x > 0)
    BY <2>2, <2>3, <2>5
  <2> QED
    BY <2>4, <2>5
<1> HIDE DEF S
<1>5. N \in S
  BY <1>1, <1>3, <1>4, Induction
<1>6. Good(f[N], N) /\ f[N] \in Seq(Nat) /\ Indices(list, l) = f[N]
  <2>1. N \in 0 .. N
    BY <1>1
  <2>2. Good(f[N], N)
    <3> HIDE DEF Good
    <3> QED
      BY <1>1, <1>5 DEF S
  <2> QED
    BY <1>2, <2>1, <2>2
<1> HIDE DEF N
<1> QED
  BY <1>6 DEF N

\* A profile's indices into its own list become indices into the merged one, of
\* the same interfaces.
LEMMA MappedFacts ==
  ASSUME NEW list \in Seq(Name), NEW own \in Seq(Name), NEW ix \in Seq(Nat),
         \A n \in DOMAIN ix : ix[n] \in DOMAIN own,
         \A n \in DOMAIN own : \E m \in DOMAIN list : list[m] = own[n]
  PROVE  /\ Mapped(list, own, ix) \in Seq(Nat) /\ Len(Mapped(list, own, ix)) = Len(ix)
         /\ \A n \in DOMAIN Mapped(list, own, ix) :
              /\ Mapped(list, own, ix)[n] \in DOMAIN list
              /\ list[Mapped(list, own, ix)[n]] = own[ix[n]]
<1> DEFINE r == Mapped(list, own, ix)
<1>1. Len(ix) \in Nat /\ DOMAIN ix = 1 .. Len(ix)
  OBVIOUS
<1>2. r = [n \in 1 .. Len(ix) |-> IndexOf(list, own[ix[n]])] /\ r = [n \in 1 .. Len(ix) |-> r[n]]
  BY <1>1 DEF Mapped
<1>3. ASSUME NEW n \in 1 .. Len(ix)
      PROVE  r[n] \in Nat /\ r[n] \in DOMAIN list /\ list[r[n]] = own[ix[n]]
  <2>1. \E m \in DOMAIN list : list[m] = own[ix[n]]
    BY <1>1
  <2>2. r[n] = IndexOf(list, own[ix[n]])
    BY <1>2
  <2> HIDE DEF r
  <2> QED
    BY <2>1, <2>2, IndexOfFacts
<1> HIDE DEF r
<1>4. DOMAIN r = 1 .. Len(ix)
  BY <1>2
<1>5. r \in [1 .. Len(ix) -> Nat]
  <2>1. r = [n \in 1 .. Len(ix) |-> r[n]]
    BY <1>2, Zenon
  <2> QED
    BY <1>3, <2>1
<1>6. r \in Seq(Nat) /\ Len(r) = Len(ix)
  <2>1. PICK m \in Nat : m = Len(ix)
    BY <1>1
  <2>2. r \in [1 .. m -> Nat]
    BY <1>5, <2>1, Zenon
  <2> QED
    BY <2>1, <2>2, SeqIs, Zenon
<1> QED
  BY <1>3, <1>4, <1>6 DEF r

-----------------------------------------------------------------------------
(* Wire ids *)

\* A policy of a configuration.  Its id is a number, or what the search for a
\* free one returns where none is left.
Wid == Int \union {Lowest(1 .. MaxWire)}

Wide == [id : Wid, db_id : Int, key : Key]

IdsOf(s) == {s[n].id : n \in DOMAIN s}

LEMMA Sizes == MaxWire \in Nat /\ MaxPolicies \in Nat /\ MaxInterfaces \in Nat
               /\ KeyMapMax \in Nat /\ MaxPolicies < MaxWire
BY ConfigMergeAssumption DEF ConfigMergeAssumption

\* The search returns a free id where there is one.
LEMMA LowestFacts ==
  ASSUME NEW used
  PROVE  /\ Lowest(used) \in Wid
         /\ (1 .. MaxWire) \ used # {} => Lowest(used) \in (1 .. MaxWire) \ used
<1> DEFINE F == (1 .. MaxWire) \ used
<1>1. CASE F = {}
  <2>1. F = (1 .. MaxWire) \ (1 .. MaxWire)
    BY <1>1
  <2>2. Lowest(used) = Lowest(1 .. MaxWire)
    BY <2>1, Zenon DEF Lowest
  <2> QED
    BY <1>1, <2>2 DEF Wid
<1>2. CASE F # {}
  <2>1. F \in SUBSET Nat
    BY Sizes
  <2>2. \E i \in F : \A j \in F : i <= j
    <3> HIDE DEF F
    <3> QED
      BY <1>2, <2>1, LeastExists
  <2>3. Lowest(used) \in F
    BY <2>2 DEF Lowest
  <2> QED
    BY <1>2, <2>1, <2>3 DEF Wid
<1> QED
  BY <1>1, <1>2

LEMMA FreeId ==
  ASSUME NEW U, IsFiniteSet(U), Cardinality(U) < MaxWire
  PROVE  (1 .. MaxWire) \ U # {}
<1>1. SUFFICES ASSUME 1 .. MaxWire \subseteq U PROVE FALSE
  OBVIOUS
<1>2. Cardinality(1 .. MaxWire) = MaxWire
  BY Sizes, FS_Interval
<1>3. Cardinality(1 .. MaxWire) <= Cardinality(U) /\ Cardinality(U) \in Nat
  BY <1>1, FS_Subset, FS_CardinalityType
<1> QED
  BY Sizes, <1>2, <1>3

\* A list of policies has no more ids than policies.
LEMMA IdsCount ==
  ASSUME NEW s \in Seq(Wide)
  PROVE  IsFiniteSet(IdsOf(s)) /\ Cardinality(IdsOf(s)) \in Nat /\ Cardinality(IdsOf(s)) <= Len(s)
<1> DEFINE m == Len(s)
           g == [n \in 1 .. m |-> s[n].id]
<1>1. m \in Nat /\ DOMAIN s = 1 .. m
  OBVIOUS
<1>2. g \in Surjection(1 .. m, IdsOf(s))
  BY <1>1 DEF Surjection, IdsOf
<1>3. IsFiniteSet(1 .. m) /\ Cardinality(1 .. m) = m
  BY <1>1, FS_Interval
<1> HIDE DEF g, m
<1>4. IsFiniteSet(IdsOf(s)) /\ Cardinality(IdsOf(s)) <= Cardinality(1 .. m)
  BY <1>2, <1>3, FS_Surjection
<1> QED
  BY <1>3, <1>4, FS_CardinalityType DEF m

PolicyMerge(s, l) == FoldLeft(AppendPolicyUnique, s, l)

\* What append_policy_unique adds.
Renamed(s, p) ==
  [p EXCEPT !.id = IF p.id \in (1 .. MaxWire) \ IdsOf(s) THEN @ ELSE Lowest(IdsOf(s))]

LEMMA RenamedFacts ==
  ASSUME NEW s \in Seq(Wide), NEW p \in Wide
  PROVE  /\ Renamed(s, p) \in Wide /\ AppendPolicyUnique(s, p) = Append(s, Renamed(s, p))
         /\ Renamed(s, p).db_id = p.db_id /\ Renamed(s, p).key = p.key
         /\ p.id \in (1 .. MaxWire) \ IdsOf(s) => Renamed(s, p).id = p.id
         /\ Len(s) < MaxWire => Renamed(s, p).id \in (1 .. MaxWire) \ IdsOf(s)
<1> DEFINE new == IF p.id \in (1 .. MaxWire) \ IdsOf(s) THEN p.id ELSE Lowest(IdsOf(s))
<1>1. AppendPolicyUnique(s, p) = Append(s, Renamed(s, p))
  BY DEF AppendPolicyUnique, Renamed, IdsOf
<1>2. Renamed(s, p) = [p EXCEPT !.id = new]
  BY DEF Renamed
<1>3. new \in Wid
  BY LowestFacts, Sizes DEF Wid
<1>4. Len(s) < MaxWire => new \in (1 .. MaxWire) \ IdsOf(s)
  <2>1. SUFFICES ASSUME Len(s) < MaxWire PROVE new \in (1 .. MaxWire) \ IdsOf(s)
    OBVIOUS
  <2>2. IsFiniteSet(IdsOf(s)) /\ Cardinality(IdsOf(s)) < MaxWire
    <3>1. Len(s) \in Nat
      OBVIOUS
    <3> QED
      BY Sizes, <2>1, <3>1, IdsCount
  <2>3. (1 .. MaxWire) \ IdsOf(s) # {}
    BY <2>2, FreeId
  <2> QED
    BY <2>3, LowestFacts
<1>5. p.id \in (1 .. MaxWire) \ IdsOf(s) => new = p.id
  OBVIOUS
<1> HIDE DEF new
<1>6. /\ Renamed(s, p) \in Wide /\ Renamed(s, p).id = new
      /\ Renamed(s, p).db_id = p.db_id /\ Renamed(s, p).key = p.key
  BY <1>2, <1>3 DEF Wide
<1> QED
  BY <1>1, <1>4, <1>5, <1>6

\* The loop of merge_one_config over the policies of a profile.
LEMMA PolicyMergeLoop ==
  ASSUME NEW s0 \in Seq(Wide), NEW l \in Seq(Wide)
  PROVE  \E f : /\ f[0] = s0 /\ PolicyMerge(s0, l) = f[Len(l)]
                /\ \A n \in 0 .. Len(l) : f[n] \in Seq(Wide)
                /\ \A n \in 1 .. Len(l) : f[n] = AppendPolicyUnique(f[n - 1], l[n])
<1> DEFINE N == Len(l)
           V == Seq(Wide)
           op(s, e) == AppendPolicyUnique(s, e)
           G == [x \in V \X (1 .. N) |-> op(x[1], l[x[2]])]
           Is(t) == t = [D \in SUBSET DOMAIN l |->
                           IF D = {} THEN s0 ELSE op(t[D \ {Max(D)}], l[Max(D)])]
           iter == CHOOSE t : Is(t)
<1>1. N \in Nat /\ DOMAIN l = 1 .. N /\ s0 \in V /\ \A n \in 1 .. N : l[n] \in Wide
  OBVIOUS
<1>2. G \in [V \X (1 .. N) -> V]
  <2>1. ASSUME NEW s \in V, NEW n \in 1 .. N PROVE op(s, l[n]) \in V
    <3>1. Renamed(s, l[n]) \in Wide /\ op(s, l[n]) = Append(s, Renamed(s, l[n]))
      BY <1>1, RenamedFacts
    <3> QED
      BY <3>1
  <2> HIDE DEF op, V
  <2> QED
    BY <2>1
<1> HIDE DEF op, V
<1>3. PICK it \in [SUBSET (1 .. N) -> V] : FoldTable(it, N, G, s0)
  <2> HIDE DEF N, G
  <2> QED
    BY <1>1, <1>2, FoldTableExists
<1>4. ASSUME NEW D \in SUBSET (1 .. N), D # {}
      PROVE  it[D] = op(it[D \ {Max(D)}], l[Max(D)])
  <2>1. it[D] = G[<<it[D \ {Max(D)}], Max(D)>>]
    BY <1>3, <1>4 DEF FoldTable
  <2>2. Max(D) \in 1 .. N
    <3>1. D \in SUBSET (0 .. N)
      OBVIOUS
    <3> HIDE DEF N
    <3> QED
      BY <1>1, <1>4, <3>1, MaxUpTo
  <2>3. it[D \ {Max(D)}] \in V
    BY <1>3
  <2> HIDE DEF N
  <2> QED
    BY <2>1, <2>2, <2>3
<1>5. Is(it)
  <2>1. it[{}] = s0
    BY <1>3 DEF FoldTable
  <2> HIDE DEF N
  <2> QED
    BY <1>1, <1>3, <1>4, <2>1
<1>6. Is(iter)
  <2> HIDE DEF Is
  <2> QED
    BY <1>5
<1>7. PolicyMerge(s0, l) = iter[DOMAIN l]
  BY DEF PolicyMerge, FoldLeft, MapThenFoldSet, op
<1> DEFINE f == [n \in 0 .. N |-> iter[1 .. n]]
<1>8. ASSUME NEW n \in 1 .. N PROVE f[n] = op(f[n - 1], l[n])
  <2>1. iter[1 .. n] = op(iter[(1 .. n) \ {Max(1 .. n)}], l[Max(1 .. n)])
    <3>1. 1 .. n \in SUBSET DOMAIN l /\ 1 .. n # {}
      BY <1>1, LoopSets
    <3> HIDE DEF iter
    <3> QED
      BY <1>6, <3>1
  <2> HIDE DEF iter
  <2>2. f[n] = iter[1 .. n] /\ f[n - 1] = iter[1 .. (n - 1)]
    BY <1>1
  <2> HIDE DEF f, N
  <2> QED
    BY <1>1, <2>1, <2>2, LoopSets
<1>9. f[0] = s0
  <2>1. iter[{}] = s0
    <3> HIDE DEF iter
    <3> QED
      BY <1>6
  <2>2. f[0] = iter[1 .. 0] /\ 1 .. 0 = {}
    BY <1>1
  <2> HIDE DEF f, iter
  <2> QED
    BY <2>1, <2>2
<1>10. f[N] = PolicyMerge(s0, l)
  <2> HIDE DEF iter
  <2> QED
    BY <1>1, <1>7
<1> HIDE DEF f
<1>11. \A n \in 0 .. N : f[n] \in V
  <2> DEFINE S == {n \in Nat : n <= N => f[n] \in V}
  <2>1. 0 \in S
    BY <1>1, <1>9
  <2>2. ASSUME NEW n \in Nat, n \in S PROVE n + 1 \in S
    <3>1. SUFFICES ASSUME n + 1 <= N PROVE f[n + 1] \in V
      OBVIOUS
    <3>2. n + 1 \in 1 .. N /\ (n + 1) - 1 = n /\ f[n] \in V
      BY <1>1, <2>2, <3>1
    <3>3. G[<<f[n], n + 1>>] = op(f[n], l[n + 1]) /\ G[<<f[n], n + 1>>] \in V
      BY <1>2, <3>2
    <3> HIDE DEF G
    <3> QED
      BY <1>8, <3>2, <3>3
  <2> HIDE DEF S
  <2>3. \A n \in Nat : n \in S
    BY <2>1, <2>2, Induction
  <2> QED
    BY <1>1, <2>3 DEF S
<1> QED
  BY <1>8, <1>9, <1>10, <1>11 DEF op, V

\* One policy more.
OneMore(q, s, p) ==
  /\ q \in Seq(Wide) /\ Len(s) \in Nat /\ Len(q) = Len(s) + 1 /\ Grown(q, s)
  /\ DOMAIN s = 1 .. Len(s) /\ DOMAIN q = 1 .. (Len(s) + 1)
  /\ \A n \in DOMAIN s : q[n] = s[n]
  /\ q[Len(s) + 1].db_id = p.db_id /\ q[Len(s) + 1].key = p.key
  /\ p.id \in (1 .. MaxWire) \ IdsOf(s) => q[Len(s) + 1].id = p.id
  /\ Len(s) < MaxWire => q[Len(s) + 1].id \in (1 .. MaxWire) \ IdsOf(s)

LEMMA OnePolicyMore ==
  ASSUME NEW s \in Seq(Wide), NEW p \in Wide PROVE OneMore(AppendPolicyUnique(s, p), s, p)
<1> DEFINE q == AppendPolicyUnique(s, p)
           x == Renamed(s, p)
<1>1. q = Append(s, x) /\ x \in Wide
  BY RenamedFacts
<1>2. /\ q \in Seq(Wide) /\ Len(s) \in Nat /\ Len(q) = Len(s) + 1 /\ Grown(q, s)
      /\ DOMAIN s = 1 .. Len(s) /\ DOMAIN q = 1 .. (Len(s) + 1)
      /\ \A n \in DOMAIN s : q[n] = s[n]
      /\ q[Len(s) + 1] = x
  BY <1>1, Appended
<1> HIDE DEF q
<1>3. OneMore(q, s, p)
  BY <1>2, RenamedFacts DEF OneMore
<1> QED
  BY <1>3 DEF q

Unique(s) == \A n, m \in DOMAIN s : s[n].id \in 1 .. MaxWire /\ (n # m => s[n].id # s[m].id)

\* Merging the policies of a profile adds one for each, of the same row and key,
\* after those of the profiles before.
PolicyMerged(r, s, l) ==
  /\ r \in Seq(Wide) /\ Len(r) = Len(s) + Len(l) /\ Grown(r, s)
  /\ \A n \in DOMAIN l : r[Len(s) + n].db_id = l[n].db_id /\ r[Len(s) + n].key = l[n].key
  /\ Unique(s) /\ Len(r) <= MaxPolicies => Unique(r)
  /\ (/\ Unique(l)
      /\ \A n \in DOMAIN l : l[n].id \notin IdsOf(s))
     => \A n \in DOMAIN l : r[Len(s) + n].id = l[n].id

LEMMA PolicyMergeFacts ==
  ASSUME NEW s \in Seq(Wide), NEW l \in Seq(Wide)
  PROVE  PolicyMerged(PolicyMerge(s, l), s, l)
<1> DEFINE N == Len(l)
           m == Len(s)
           r == PolicyMerge(s, l)
<1>1. /\ N \in Nat /\ DOMAIN l = 1 .. N /\ \A n \in 1 .. N : l[n] \in Wide
      /\ m \in Nat /\ DOMAIN s = 1 .. m
  OBVIOUS
<1>2. PICK f : /\ f[0] = s /\ PolicyMerge(s, l) = f[N] /\ \A n \in 0 .. N : f[n] \in Seq(Wide)
               /\ \A n \in 1 .. N : f[n] = AppendPolicyUnique(f[n - 1], l[n])
  BY PolicyMergeLoop
<1> HIDE DEF r
<1> DEFINE Plain(q, n) == /\ Len(q) = m + n /\ Grown(q, s)
                          /\ \A i \in 1 .. n : q[m + i].db_id = l[i].db_id /\ q[m + i].key = l[i].key
           Fresh == Unique(l) /\ \A n \in DOMAIN l : l[n].id \notin IdsOf(s)
           Same(q, n) == Fresh => \A i \in 1 .. n : q[m + i].id = l[i].id
           Alone(q) == Unique(s) /\ Len(q) <= MaxPolicies => Unique(q)
           Good(q, n) == Plain(q, n) /\ Same(q, n) /\ Alone(q)
           S == {n \in Nat : n <= N => Good(f[n], n)}
<1>3. 0 \in S
  <2>1. Grown(s, s)
    BY DEF Grown
  <2> QED
    BY <1>1, <1>2, <2>1
<1>4. ASSUME NEW n \in Nat, n \in S PROVE n + 1 \in S
  <2> DEFINE q == f[n]  t == f[n + 1]  p == l[n + 1]
  <2>1. SUFFICES ASSUME n + 1 <= N PROVE Good(t, n + 1)
    <3> HIDE DEF Good
    <3> QED
      OBVIOUS
  <2>2. /\ n + 1 \in 1 .. N /\ (n + 1) - 1 = n /\ p \in Wide
        /\ q \in Seq(Wide) /\ Good(q, n) /\ t = AppendPolicyUnique(q, p)
    <3>1. n + 1 \in 1 .. N /\ (n + 1) - 1 = n /\ n \in 0 .. N
      BY <1>1, <2>1
    <3>2. Good(q, n)
      <4> HIDE DEF Good
      <4> QED
        BY <1>1, <1>4, <2>1
    <3> HIDE DEF Good, N
    <3> QED
      BY <1>1, <1>2, <3>1, <3>2
  <2> HIDE DEF q, t
  <2>3. /\ t \in Seq(Wide) /\ Len(q) \in Nat /\ Len(t) = Len(q) + 1 /\ Grown(t, q)
        /\ DOMAIN q = 1 .. Len(q) /\ DOMAIN t = 1 .. (Len(q) + 1)
        /\ \A i \in DOMAIN q : t[i] = q[i]
        /\ t[Len(q) + 1].db_id = p.db_id /\ t[Len(q) + 1].key = p.key
        /\ p.id \in (1 .. MaxWire) \ IdsOf(q) => t[Len(q) + 1].id = p.id
        /\ Len(q) < MaxWire => t[Len(q) + 1].id \in (1 .. MaxWire) \ IdsOf(q)
    <3>1. q \in Seq(Wide) /\ p \in Wide /\ t = AppendPolicyUnique(q, p)
      BY <2>2
    <3>2. OneMore(t, q, p)
      BY <3>1, OnePolicyMore, Zenon
    <3> HIDE DEF p, m
    <3> QED
      BY <3>2 DEF OneMore
  <2>4. Len(q) = m + n /\ Grown(q, s)
    BY <2>2
  <2>5. Plain(t, n + 1)
    <3>1. Grown(t, s)
      BY <2>2, <2>3, <2>4, GrownTrans
    <3>2. Len(t) = m + (n + 1)
      BY <1>1, <2>3, <2>4
    <3>3. ASSUME NEW i \in 1 .. (n + 1)
          PROVE  t[m + i].db_id = l[i].db_id /\ t[m + i].key = l[i].key
      <4>1. CASE i = n + 1
        <5>1. m + i = Len(q) + 1
          BY <1>1, <2>4, <4>1
        <5> QED
          BY <2>3, <4>1, <5>1
      <4>2. CASE i # n + 1
        <5>1. i \in 1 .. n /\ m + i \in 1 .. Len(q)
          BY <1>1, <2>4, <4>2
        <5>2. t[m + i] = q[m + i]
          BY <2>3, <5>1
        <5>3. q[m + i].db_id = l[i].db_id /\ q[m + i].key = l[i].key
          BY <2>2, <5>1
        <5> QED
          BY <5>2, <5>3
      <4> QED
        BY <4>1, <4>2
    <3> QED
      BY <3>1, <3>2, <3>3
  <2>6. Same(t, n + 1)
    <3>1. SUFFICES ASSUME Fresh, NEW i \in 1 .. (n + 1) PROVE t[m + i].id = l[i].id
      OBVIOUS
    <3>2. \A j \in 1 .. n : q[m + j].id = l[j].id
      BY <2>2, <3>1
    <3>3. CASE i = n + 1
      <4>1. m + i = Len(q) + 1
        BY <1>1, <2>4, <3>3
      <4>2. p.id \in 1 .. MaxWire
        BY <1>1, <2>2, <3>1 DEF Unique
      <4>3. ASSUME NEW j \in DOMAIN q PROVE q[j].id # p.id
        <5>1. CASE j \in DOMAIN s
          <6>1. q[j] = s[j] /\ s[j].id \in IdsOf(s)
            BY <2>4, <5>1 DEF Grown, IdsOf
          <6>2. p.id \notin IdsOf(s)
            BY <1>1, <2>2, <3>1
          <6> QED
            BY <6>1, <6>2
        <5>2. CASE j \notin DOMAIN s
          <6>1. j - m \in 1 .. n /\ m + (j - m) = j
            BY <1>1, <2>3, <2>4, <4>3, <5>2
          <6>2. q[j].id = l[j - m].id
            BY <3>2, <6>1
          <6>3. j - m \in DOMAIN l /\ n + 1 \in DOMAIN l /\ j - m # n + 1
            BY <1>1, <2>1, <6>1
          <6> QED
            BY <3>1, <6>2, <6>3 DEF Unique
        <5> QED
          BY <5>1, <5>2
      <4>4. p.id \in (1 .. MaxWire) \ IdsOf(q)
        BY <4>2, <4>3 DEF IdsOf
      <4> QED
        BY <2>3, <3>3, <4>1, <4>4
    <3>4. CASE i # n + 1
      <4>1. i \in 1 .. n /\ m + i \in 1 .. Len(q)
        BY <1>1, <2>4, <3>4
      <4> QED
        BY <2>3, <3>2, <4>1
    <3> QED
      BY <3>3, <3>4
  <2>7. Alone(t)
    <3>1. SUFFICES ASSUME Unique(s), Len(t) <= MaxPolicies PROVE Unique(t)
      OBVIOUS
    <3>2. Len(q) <= MaxPolicies /\ Len(q) < MaxWire
      BY <2>3, <3>1, Sizes
    <3>3. Unique(q)
      BY <2>2, <3>1, <3>2
    <3> DEFINE c == Len(q) + 1
    <3>4. t[c].id \in 1 .. MaxWire /\ \A i \in DOMAIN q : t[c].id # q[i].id
      BY <2>3, <3>2 DEF IdsOf
    <3>5. \A i \in DOMAIN t : i \in DOMAIN q \/ i = c
      BY <2>3
    <3> HIDE DEF c
    <3> QED
      BY <2>3, <3>3, <3>4, <3>5 DEF Unique
  <2> QED
    BY <2>5, <2>6, <2>7
<1> HIDE DEF S
<1>5. N \in S
  BY <1>1, <1>3, <1>4, Induction
<1>6. Good(r, N) /\ r \in Seq(Wide)
  <2>1. N \in 0 .. N
    BY <1>1
  <2>2. Good(f[N], N)
    <3> HIDE DEF Good
    <3> QED
      BY <1>1, <1>5 DEF S
  <2>3. r = f[N]
    BY <1>2 DEF r
  <2> QED
    BY <1>2, <2>1, <2>2, <2>3
<1>7. PolicyMerged(r, s, l)
  BY <1>1, <1>6 DEF PolicyMerged
<1> QED
  BY <1>7 DEF r

-----------------------------------------------------------------------------
(* The policies of a profile, as they are loaded *)

LEMMA Joined ==
  ASSUME NEW T, NEW s \in Seq(T), NEW t \in Seq(T)
  PROVE  /\ s \o t \in Seq(T) /\ Len(s) \in Nat /\ Len(t) \in Nat /\ Len(s \o t) = Len(s) + Len(t)
         /\ DOMAIN s = 1 .. Len(s) /\ DOMAIN t = 1 .. Len(t)
         /\ DOMAIN (s \o t) = 1 .. (Len(s) + Len(t))
         /\ \A n \in 1 .. Len(s) : (s \o t)[n] = s[n]
         /\ \A n \in 1 .. Len(t) : (s \o t)[Len(s) + n] = t[n]
OBVIOUS

KeyMap == UNION {[D -> Wid] : D \in SUBSET Key}

\* What the loop over the rows keeps.
Acc == [policies : Seq(Wide), used : SUBSET Wid, byKey : KeyMap]

Start == [policies |-> <<>>, used |-> {}, byKey |-> [q \in {} |-> 0]]

Loaded(rows) == FoldLeft(AddRow, Start, rows)

LEMMA PoliciesLoaded == ASSUME NEW rows PROVE Policies(rows) = Loaded(rows).policies
BY DEF Policies, Loaded, Start

LEMMA StartTyped == Start \in Acc
<1>1. [q \in {} |-> 0] \in [{} -> Wid] /\ {} \in SUBSET Key
  OBVIOUS
<1>2. [q \in {} |-> 0] \in KeyMap
  BY <1>1, Zenon DEF KeyMap
<1>3. <<>> \in Seq(Wide) /\ {} \in SUBSET Wid
  OBVIOUS
<1> QED
  BY <1>2, <1>3 DEF Start, Acc

LEMMA KeyMapFacts ==
  ASSUME NEW b \in KeyMap
  PROVE  DOMAIN b \in SUBSET Key /\ \A q \in DOMAIN b : b[q] \in Wid
<1>1. PICK D \in SUBSET Key : b \in [D -> Wid]
  BY DEF KeyMap
<1> QED
  BY <1>1

\* The id a row's policies get.
RowWid(acc, row) == IF row.key = "none" THEN 0 ELSE WireId(acc, row)

LEMMA RowWidFacts ==
  ASSUME NEW acc \in Acc, NEW row \in Row
  PROVE  /\ RowWid(acc, row) \in Wid
         /\ row.key \in DOMAIN acc.byKey => WireId(acc, row) = acc.byKey[row.key]
         /\ row.key \notin DOMAIN acc.byKey /\ row.id \in (1 .. MaxWire) \ acc.used
              => WireId(acc, row) = row.id
         /\ row.key \notin DOMAIN acc.byKey /\ (1 .. MaxWire) \ acc.used # {}
              => WireId(acc, row) \in (1 .. MaxWire) \ acc.used
<1>1. acc.byKey \in KeyMap /\ row.id \in Int
  BY DEF Acc, Row
<1>2. \A q \in DOMAIN acc.byKey : acc.byKey[q] \in Wid
  BY <1>1, KeyMapFacts
<1>3. Lowest(acc.used) \in Wid
  BY LowestFacts
<1>4. WireId(acc, row) \in Wid
  BY <1>1, <1>2, <1>3 DEF WireId, Alloc, Wid
<1>5. RowWid(acc, row) \in Wid
  BY <1>4 DEF RowWid, Wid
<1>6. row.key \in DOMAIN acc.byKey => WireId(acc, row) = acc.byKey[row.key]
  BY DEF WireId
<1>7. row.key \notin DOMAIN acc.byKey => WireId(acc, row) = Alloc(row.id, acc.used)
  BY DEF WireId
<1>8. row.id \in (1 .. MaxWire) \ acc.used => Alloc(row.id, acc.used) = row.id
  BY DEF Alloc
<1>9. (1 .. MaxWire) \ acc.used # {} => Alloc(row.id, acc.used) \in (1 .. MaxWire) \ acc.used
  BY LowestFacts DEF Alloc
<1> QED
  BY <1>5, <1>6, <1>7, <1>8, <1>9

LEMMA ExpansionFacts ==
  ASSUME NEW row \in Row, NEW wid \in Wid
  PROVE  /\ Expansion(row, wid) \in Seq(Wide) /\ Len(Expansion(row, wid)) = row.copies
         /\ row.copies \in Nat \ {0} /\ DOMAIN Expansion(row, wid) = 1 .. row.copies
         /\ \A n \in 1 .. row.copies :
              Expansion(row, wid)[n] = [id |-> wid, db_id |-> row.id, key |-> row.key]
<1> DEFINE e == Expansion(row, wid)
           p == [id |-> wid, db_id |-> row.id, key |-> row.key]
<1>1. row.copies \in Nat \ {0} /\ row.id \in Int /\ row.key \in Key
  BY DEF Row
<1>2. p \in Wide
  BY <1>1 DEF Wide
<1>3. e = [n \in 1 .. row.copies |-> p]
  BY DEF Expansion
<1> HIDE DEF e, p
<1>4. PICK m \in Nat : m = row.copies
  BY <1>1
<1>5. e \in [1 .. m -> Wide]
  BY <1>2, <1>3, <1>4
<1>6. e \in Seq(Wide) /\ Len(e) = m /\ DOMAIN e = 1 .. m
  BY <1>5, SeqIs
<1>7. \A n \in 1 .. row.copies : e[n] = p
  BY <1>3
<1> QED
  BY <1>1, <1>4, <1>6, <1>7 DEF e, p

\* What a row adds.
LEMMA AddRowIs ==
  ASSUME NEW acc \in Acc, NEW row \in Row
  PROVE  /\ AddRow(acc, row) \in Acc
         /\ AddRow(acc, row).policies = acc.policies \o Expansion(row, RowWid(acc, row))
         /\ row.key = "none" => /\ AddRow(acc, row).used = acc.used
                                /\ AddRow(acc, row).byKey = acc.byKey
         /\ row.key # "none" => /\ AddRow(acc, row).used = acc.used \union {WireId(acc, row)}
                                /\ AddRow(acc, row).byKey = Known(acc, row, WireId(acc, row))
<1> DEFINE wid == WireId(acc, row)
<1>1. acc = [policies |-> acc.policies, used |-> acc.used, byKey |-> acc.byKey]
  BY DEF Acc
<1>2. acc.policies \in Seq(Wide) /\ acc.used \in SUBSET Wid /\ acc.byKey \in KeyMap
  BY DEF Acc
<1>3. acc.policies \o Expansion(row, RowWid(acc, row)) \in Seq(Wide)
  <2>1. Expansion(row, RowWid(acc, row)) \in Seq(Wide)
    BY RowWidFacts, ExpansionFacts
  <2> QED
    BY <1>2, <2>1, Joined
<1>4. CASE row.key = "none"
  <2>1. RowWid(acc, row) = 0
    BY <1>4 DEF RowWid
  <2>2. AddRow(acc, row) = [acc EXCEPT !.policies = @ \o Expansion(row, 0)]
    BY <1>4 DEF AddRow
  <2>3. AddRow(acc, row) = [policies |-> acc.policies \o Expansion(row, 0),
                            used |-> acc.used, byKey |-> acc.byKey]
    BY <1>1, <2>2
  <2> HIDE DEF Acc
  <2>4. AddRow(acc, row) \in Acc
    BY <1>2, <1>3, <2>1, <2>3 DEF Acc
  <2> QED
    BY <1>4, <2>1, <2>3, <2>4
<1>5. CASE row.key # "none"
  <2>1. RowWid(acc, row) = wid /\ wid \in Wid
    BY <1>5, RowWidFacts DEF RowWid
  <2>2. AddRow(acc, row) = [policies |-> acc.policies \o Expansion(row, wid),
                            used |-> acc.used \union {wid}, byKey |-> Known(acc, row, wid)]
    BY <1>5 DEF AddRow
  <2>3. Known(acc, row, wid) \in KeyMap
    <3> DEFINE D == DOMAIN acc.byKey
    <3>1. D \in SUBSET Key /\ \A q \in D : acc.byKey[q] \in Wid
      BY <1>2, KeyMapFacts
    <3>2. row.key \in Key
      BY DEF Row
    <3> DEFINE b == [q \in D \union {row.key} |-> IF q = row.key THEN wid ELSE acc.byKey[q]]
    <3>3. b \in [D \union {row.key} -> Wid]
      BY <2>1, <3>1
    <3>4. D \union {row.key} \in SUBSET Key
      BY <3>1, <3>2
    <3>5. b \in KeyMap
      BY <3>3, <3>4, Zenon DEF KeyMap
    <3> QED
      BY <1>2, <3>5 DEF Known
  <2>4. AddRow(acc, row) \in Acc
    BY <1>2, <1>3, <2>1, <2>2, <2>3 DEF Acc
  <2> QED
    BY <1>5, <2>1, <2>2, <2>4
<1> QED
  BY <1>4, <1>5

\* The loop of load_profiles_and_policies over the rows of a profile.
LEMMA LoadedLoop ==
  ASSUME NEW l \in Seq(Row)
  PROVE  \E f : /\ f[0] = Start /\ Loaded(l) = f[Len(l)]
                /\ \A n \in 0 .. Len(l) : f[n] \in Acc
                /\ \A n \in 1 .. Len(l) : f[n] = AddRow(f[n - 1], l[n])
<1> DEFINE N == Len(l)
           V == Acc
           op(s, e) == AddRow(s, e)
           G == [x \in V \X (1 .. N) |-> op(x[1], l[x[2]])]
           Is(t) == t = [D \in SUBSET DOMAIN l |->
                           IF D = {} THEN Start ELSE op(t[D \ {Max(D)}], l[Max(D)])]
           iter == CHOOSE t : Is(t)
<1>1. N \in Nat /\ DOMAIN l = 1 .. N /\ Start \in V /\ \A n \in 1 .. N : l[n] \in Row
  BY StartTyped
<1>2. G \in [V \X (1 .. N) -> V]
  <2>1. ASSUME NEW s \in V, NEW n \in 1 .. N PROVE op(s, l[n]) \in V
    BY <1>1, AddRowIs
  <2> HIDE DEF op, V
  <2> QED
    BY <2>1
<1> HIDE DEF op, V
<1>3. PICK it \in [SUBSET (1 .. N) -> V] : FoldTable(it, N, G, Start)
  <2> HIDE DEF N, G
  <2> QED
    BY <1>1, <1>2, FoldTableExists
<1>4. ASSUME NEW D \in SUBSET (1 .. N), D # {}
      PROVE  it[D] = op(it[D \ {Max(D)}], l[Max(D)])
  <2>1. it[D] = G[<<it[D \ {Max(D)}], Max(D)>>]
    BY <1>3, <1>4 DEF FoldTable
  <2>2. Max(D) \in 1 .. N
    <3>1. D \in SUBSET (0 .. N)
      OBVIOUS
    <3> HIDE DEF N
    <3> QED
      BY <1>1, <1>4, <3>1, MaxUpTo
  <2>3. it[D \ {Max(D)}] \in V
    BY <1>3
  <2> HIDE DEF N
  <2> QED
    BY <2>1, <2>2, <2>3
<1>5. Is(it)
  <2>1. it[{}] = Start
    BY <1>3 DEF FoldTable
  <2> HIDE DEF N
  <2> QED
    BY <1>1, <1>3, <1>4, <2>1
<1>6. Is(iter)
  <2> HIDE DEF Is
  <2> QED
    BY <1>5
<1>7. Loaded(l) = iter[DOMAIN l]
  BY DEF Loaded, FoldLeft, MapThenFoldSet, op
<1> DEFINE f == [n \in 0 .. N |-> iter[1 .. n]]
<1>8. ASSUME NEW n \in 1 .. N PROVE f[n] = op(f[n - 1], l[n])
  <2>1. iter[1 .. n] = op(iter[(1 .. n) \ {Max(1 .. n)}], l[Max(1 .. n)])
    <3>1. 1 .. n \in SUBSET DOMAIN l /\ 1 .. n # {}
      BY <1>1, LoopSets
    <3> HIDE DEF iter
    <3> QED
      BY <1>6, <3>1
  <2> HIDE DEF iter
  <2>2. f[n] = iter[1 .. n] /\ f[n - 1] = iter[1 .. (n - 1)]
    BY <1>1
  <2> HIDE DEF f, N
  <2> QED
    BY <1>1, <2>1, <2>2, LoopSets
<1>9. f[0] = Start
  <2>1. iter[{}] = Start
    <3> HIDE DEF iter
    <3> QED
      BY <1>6
  <2>2. f[0] = iter[1 .. 0] /\ 1 .. 0 = {}
    BY <1>1
  <2> HIDE DEF f, iter
  <2> QED
    BY <2>1, <2>2
<1>10. f[N] = Loaded(l)
  <2> HIDE DEF iter
  <2> QED
    BY <1>1, <1>7
<1> HIDE DEF f
<1>11. \A n \in 0 .. N : f[n] \in V
  <2> DEFINE S == {n \in Nat : n <= N => f[n] \in V}
  <2>1. 0 \in S
    BY <1>1, <1>9
  <2>2. ASSUME NEW n \in Nat, n \in S PROVE n + 1 \in S
    <3>1. SUFFICES ASSUME n + 1 <= N PROVE f[n + 1] \in V
      OBVIOUS
    <3>2. n + 1 \in 1 .. N /\ (n + 1) - 1 = n /\ f[n] \in V
      BY <1>1, <2>2, <3>1
    <3>3. G[<<f[n], n + 1>>] = op(f[n], l[n + 1]) /\ G[<<f[n], n + 1>>] \in V
      BY <1>2, <3>2
    <3> HIDE DEF G
    <3> QED
      BY <1>8, <3>2, <3>3
  <2> HIDE DEF S
  <2>3. \A n \in Nat : n \in S
    BY <2>1, <2>2, Induction
  <2> QED
    BY <1>1, <2>3 DEF S
<1> QED
  BY <1>8, <1>9, <1>10, <1>11 DEF op, V

KeysOf(s) == {s[n].key : n \in DOMAIN s} \ {"none"}

LEMMA KeysFinite ==
  ASSUME NEW s \in Seq(Wide)
  PROVE  IsFiniteSet(KeysOf(s))
<1> DEFINE m == Len(s)
           g == [n \in 1 .. m |-> s[n].key]
           A == {s[n].key : n \in DOMAIN s}
<1>1. m \in Nat /\ DOMAIN s = 1 .. m
  OBVIOUS
<1>2. g \in Surjection(1 .. m, A)
  BY <1>1 DEF Surjection
<1>3. IsFiniteSet(1 .. m)
  BY <1>1, FS_Interval
<1>4. KeysOf(s) \in SUBSET A
  BY DEF KeysOf
<1> HIDE DEF g, m, A
<1>5. IsFiniteSet(A)
  BY <1>2, <1>3, FS_Surjection
<1> QED
  BY <1>4, <1>5, FS_Subset

\* While the policies fit: every id given is marked, and there are no more marks
\* than policies; a key has one id, and no other key has it; and until the table
\* of keys is full, it has every key, and a policy has the id of its key.
Marked(acc) ==
  /\ IsFiniteSet(acc.used) /\ Cardinality(acc.used) <= Len(acc.policies)
  /\ \A q \in DOMAIN acc.byKey : acc.byKey[q] \in acc.used
  /\ \A q, p \in DOMAIN acc.byKey : acc.byKey[q] = acc.byKey[p] => q = p
  /\ DOMAIN acc.byKey \subseteq KeysOf(acc.policies)
  /\ Cardinality(KeysOf(acc.policies)) <= KeyMapMax =>
       /\ DOMAIN acc.byKey = KeysOf(acc.policies)
       /\ \A n \in DOMAIN acc.policies :
            acc.policies[n].key # "none" => acc.policies[n].id = acc.byKey[acc.policies[n].key]

\* A row's policies are those of AddRow, with their keys.
Added(s, acc, row) ==
  /\ s \in Seq(Wide) /\ Len(s) = Len(acc.policies) + row.copies
  /\ Len(acc.policies) \in Nat /\ row.copies \in Nat \ {0}
  /\ DOMAIN acc.policies = 1 .. Len(acc.policies)
  /\ DOMAIN s = 1 .. (Len(acc.policies) + row.copies)
  /\ \A n \in 1 .. Len(acc.policies) : s[n] = acc.policies[n]
  /\ \A n \in 1 .. row.copies : s[Len(acc.policies) + n] =
       [id |-> RowWid(acc, row), db_id |-> row.id, key |-> row.key]
  /\ KeysOf(s) = KeysOf(acc.policies) \union ({row.key} \ {"none"})

LEMMA RowAdded ==
  ASSUME NEW acc \in Acc, NEW row \in Row
  PROVE  Added(AddRow(acc, row).policies, acc, row)
<1> DEFINE e == Expansion(row, RowWid(acc, row))
           a == acc.policies
           s == AddRow(acc, row).policies
           p == [id |-> RowWid(acc, row), db_id |-> row.id, key |-> row.key]
<1>1. a \in Seq(Wide)
  BY DEF Acc
<1>2. /\ e \in Seq(Wide) /\ Len(e) = row.copies /\ row.copies \in Nat \ {0}
      /\ \A n \in 1 .. row.copies : e[n] = p
  BY RowWidFacts, ExpansionFacts
<1>3. s = a \o e
  BY AddRowIs
<1> HIDE DEF a, e, s, p
<1>4. /\ s \in Seq(Wide) /\ Len(a) \in Nat /\ Len(s) = Len(a) + Len(e)
      /\ DOMAIN a = 1 .. Len(a) /\ DOMAIN s = 1 .. (Len(a) + Len(e))
      /\ \A n \in 1 .. Len(a) : s[n] = a[n]
      /\ \A n \in 1 .. Len(e) : s[Len(a) + n] = e[n]
  <2>1. /\ a \o e \in Seq(Wide) /\ Len(a) \in Nat /\ Len(a \o e) = Len(a) + Len(e)
        /\ DOMAIN a = 1 .. Len(a) /\ DOMAIN (a \o e) = 1 .. (Len(a) + Len(e))
        /\ \A n \in 1 .. Len(a) : (a \o e)[n] = a[n]
        /\ \A n \in 1 .. Len(e) : (a \o e)[Len(a) + n] = e[n]
    <3>1. a \in Seq(Wide) /\ e \in Seq(Wide)
      BY <1>1, <1>2
    <3> QED
      BY <3>1, Joined
  <2> QED
    BY <1>3, <2>1, Zenon
<1>5. \A n \in 1 .. row.copies : s[Len(a) + n] = p
  BY <1>2, <1>4
<1>6. \A n \in DOMAIN s : n \in 1 .. Len(a) \/ (n - Len(a) \in 1 .. row.copies /\ Len(a) + (n - Len(a)) = n)
  BY <1>2, <1>4
<1>7. \A n \in DOMAIN s : s[n].key = row.key \/ \E i \in DOMAIN a : s[n].key = a[i].key
  <2> SUFFICES ASSUME NEW n \in DOMAIN s PROVE s[n].key = row.key \/ \E i \in DOMAIN a : s[n].key = a[i].key
    OBVIOUS
  <2>1. CASE n \in 1 .. Len(a)
    BY <1>4, <2>1
  <2>2. CASE n - Len(a) \in 1 .. row.copies /\ Len(a) + (n - Len(a)) = n
    <3>1. s[n] = p
      BY <1>5, <2>2
    <3> QED
      BY <3>1 DEF p
  <2> QED
    BY <1>6, <2>1, <2>2
<1>8. \A i \in DOMAIN a : i \in DOMAIN s /\ s[i].key = a[i].key
  BY <1>2, <1>4
<1>9. \E n \in DOMAIN s : s[n].key = row.key
  <2>1. 1 \in 1 .. row.copies /\ Len(a) + 1 \in DOMAIN s
    BY <1>2, <1>4
  <2> QED
    BY <1>5, <2>1 DEF p
<1>10. KeysOf(s) = KeysOf(a) \union ({row.key} \ {"none"})
  BY <1>7, <1>8, <1>9 DEF KeysOf
<1>11. Len(s) = Len(a) + row.copies /\ DOMAIN s = 1 .. (Len(a) + row.copies)
  BY <1>2, <1>4
<1>12. \A n \in 1 .. row.copies : s[Len(a) + n] =
         [id |-> RowWid(acc, row), db_id |-> row.id, key |-> row.key]
  BY <1>5 DEF p
<1>13. Added(s, acc, row)
  BY <1>2, <1>4, <1>10, <1>11, <1>12, Zenon DEF a, Added
<1> QED
  BY <1>13 DEF s

LEMMA MarkedStep ==
  ASSUME NEW acc \in Acc, NEW row \in Row, NEW t, t = AddRow(acc, row),
         Marked(acc), Len(t.policies) <= MaxPolicies
  PROVE  Marked(t)
<1> DEFINE a == acc.policies
           s == t.policies
           wid == WireId(acc, row)
           D == DOMAIN acc.byKey
<1>1. /\ s \in Seq(Wide) /\ Len(s) = Len(a) + row.copies /\ Len(a) \in Nat /\ row.copies \in Nat \ {0}
      /\ DOMAIN a = 1 .. Len(a) /\ DOMAIN s = 1 .. (Len(a) + row.copies)
      /\ \A n \in 1 .. Len(a) : s[n] = a[n]
      /\ \A n \in 1 .. row.copies : s[Len(a) + n] =
              [id |-> RowWid(acc, row), db_id |-> row.id, key |-> row.key]
      /\ KeysOf(s) = KeysOf(a) \union ({row.key} \ {"none"})
  <2>1. Added(s, acc, row)
    BY RowAdded
  <2> HIDE DEF s
  <2> QED
    BY <2>1, Zenon DEF Added
<1>2. /\ row.key = "none" => t.used = acc.used /\ t.byKey = acc.byKey
      /\ row.key # "none" => t.used = acc.used \union {wid} /\ t.byKey = Known(acc, row, wid)
  BY AddRowIs
<1>3. IsFiniteSet(acc.used) /\ Cardinality(acc.used) \in Nat /\ Cardinality(acc.used) <= Len(a)
  BY FS_CardinalityType DEF Marked
<1>4. (1 .. MaxWire) \ acc.used # {}
  <2>1. Cardinality(acc.used) < MaxWire
    <3>1. Len(s) <= MaxPolicies
      OBVIOUS
    <3> HIDE DEF s, a
    <3> QED
      BY <1>1, <1>3, <3>1, Sizes
  <2> QED
    BY <1>3, <2>1, FreeId
<1>5. IsFiniteSet(t.used) /\ Cardinality(t.used) <= Len(s)
  <2>1. CASE row.key = "none"
    BY <1>1, <1>2, <1>3, <2>1
  <2>2. CASE row.key # "none"
    <3>1. IsFiniteSet(t.used) /\ Cardinality(t.used) <= Cardinality(acc.used) + 1
      <4> DEFINE u == acc.used \union {wid}
      <4>1. /\ IsFiniteSet(u)
            /\ Cardinality(u) = IF wid \in acc.used THEN Cardinality(acc.used)
                                                    ELSE Cardinality(acc.used) + 1
        BY <1>3, FS_AddElement
      <4>2. t.used = u
        BY <1>2, <2>2
      <4> HIDE DEF u
      <4> QED
        BY <1>3, <4>1, <4>2
    <3>2. Cardinality(t.used) \in Nat
      BY <3>1, FS_CardinalityType
    <3> HIDE DEF s, a
    <3> QED
      BY <1>1, <1>3, <3>1, <3>2
  <2> QED
    BY <2>1, <2>2
<1>6. /\ IsFiniteSet(KeysOf(s)) /\ Cardinality(KeysOf(s)) \in Nat
      /\ IsFiniteSet(KeysOf(a)) /\ Cardinality(KeysOf(a)) \in Nat
      /\ Cardinality(KeysOf(a)) <= Cardinality(KeysOf(s))
  <2>1. IsFiniteSet(KeysOf(s)) /\ IsFiniteSet(KeysOf(a))
    <3>1. a \in Seq(Wide)
      BY DEF Acc
    <3> QED
      BY <1>1, <3>1, KeysFinite
  <2>2. KeysOf(a) \in SUBSET KeysOf(s)
    BY <1>1
  <2> QED
    BY <2>1, <2>2, FS_Subset, FS_CardinalityType
<1>7. D \subseteq KeysOf(a) /\ (Cardinality(KeysOf(a)) <= KeyMapMax => D = KeysOf(a))
  BY DEF Marked
<1>8. ASSUME NEW n \in DOMAIN s
      PROVE  \/ n \in DOMAIN a /\ s[n] = a[n]
             \/ s[n].id = RowWid(acc, row) /\ s[n].key = row.key
  <2>1. CASE n \in 1 .. Len(a)
    BY <1>1, <2>1
  <2>2. CASE n \notin 1 .. Len(a)
    <3>1. n - Len(a) \in 1 .. row.copies /\ Len(a) + (n - Len(a)) = n
      BY <1>1, <2>2
    <3>2. s[n] = [id |-> RowWid(acc, row), db_id |-> row.id, key |-> row.key]
      BY <1>1, <3>1
    <3> QED
      BY <3>2
  <2> QED
    BY <2>1, <2>2
<1> HIDE DEF s, a
<1>9. CASE row.key = "none"
  <2>1. t.byKey = acc.byKey /\ t.used = acc.used /\ KeysOf(s) = KeysOf(a)
    BY <1>1, <1>2, <1>9
  <2>2. \A n \in DOMAIN s : s[n].key # "none" => n \in DOMAIN a /\ s[n] = a[n]
    BY <1>8, <1>9
  <2> QED
    BY <1>5, <2>1, <2>2 DEF Marked, s, a
<1>10. CASE row.key # "none" /\ row.key \in D
  <2>1. t.byKey = acc.byKey /\ KeysOf(s) = KeysOf(a) /\ wid = acc.byKey[row.key]
    <3>1. t.byKey = acc.byKey
      BY <1>2, <1>10 DEF Known
    <3>2. KeysOf(s) = KeysOf(a)
      BY <1>1, <1>7, <1>10
    <3> QED
      BY <1>10, <3>1, <3>2, RowWidFacts
  <2>2. acc.used \subseteq t.used
    BY <1>2, <1>10
  <2>3. RowWid(acc, row) = wid
    BY <1>10 DEF RowWid
  <2>4. \A n \in DOMAIN s : \/ n \in DOMAIN a /\ s[n] = a[n]
                            \/ s[n].id = acc.byKey[s[n].key]
    BY <1>8, <2>1, <2>3
  <2>5. Cardinality(KeysOf(s)) <= KeyMapMax =>
          \A n \in DOMAIN s : s[n].key # "none" => s[n].id = acc.byKey[s[n].key]
    BY <2>1, <2>4 DEF Marked, a
  <2> QED
    BY <1>5, <1>7, <2>1, <2>2, <2>5 DEF Marked, s, a
<1>11. CASE row.key # "none" /\ row.key \notin D /\ Cardinality(D) >= KeyMapMax
  <2>1. t.byKey = acc.byKey
    BY <1>2, <1>11 DEF Known
  <2>2. acc.used \subseteq t.used
    BY <1>2, <1>11
  <2>3. ~(Cardinality(KeysOf(s)) <= KeyMapMax)
    <3>1. SUFFICES ASSUME Cardinality(KeysOf(s)) <= KeyMapMax PROVE FALSE
      OBVIOUS
    <3>2. D = KeysOf(a)
      BY <1>6, <1>7, <3>1, Sizes
    <3>3. KeysOf(s) = D \union {row.key} /\ IsFiniteSet(D) /\ Cardinality(D) \in Nat
      BY <1>1, <1>6, <1>11, <3>2
    <3>4. Cardinality(KeysOf(s)) = Cardinality(D) + 1
      BY <1>11, <3>3, FS_AddElement
    <3> HIDE DEF D
    <3> QED
      BY <1>11, <3>1, <3>3, <3>4, Sizes
  <2>4. D \subseteq KeysOf(s)
    BY <1>1, <1>7
  <2> QED
    BY <1>5, <2>1, <2>2, <2>3, <2>4 DEF Marked, s, a
<1>12. CASE row.key # "none" /\ row.key \notin D /\ ~(Cardinality(D) >= KeyMapMax)
  <2>1. t.byKey = [q \in D \union {row.key} |-> IF q = row.key THEN wid ELSE acc.byKey[q]]
    BY <1>2, <1>12 DEF Known
  <2>2. t.used = acc.used \union {wid} /\ wid \notin acc.used /\ RowWid(acc, row) = wid
    <3>1. wid \notin acc.used
      BY <1>4, <1>12, RowWidFacts
    <3> QED
      BY <1>2, <1>12, <3>1 DEF RowWid
  <2> HIDE DEF wid
  <2>3. \A q \in DOMAIN t.byKey : t.byKey[q] \in t.used
    BY <2>1, <2>2 DEF Marked
  <2>4. \A q, p \in DOMAIN t.byKey : t.byKey[q] = t.byKey[p] => q = p
    BY <1>12, <2>1, <2>2 DEF Marked
  <2>5. DOMAIN t.byKey \subseteq KeysOf(s)
    BY <1>1, <1>7, <1>12, <2>1
  <2>6. ASSUME Cardinality(KeysOf(s)) <= KeyMapMax
        PROVE  /\ DOMAIN t.byKey = KeysOf(s)
               /\ \A n \in DOMAIN s : s[n].key # "none" => s[n].id = t.byKey[s[n].key]
    <3>1. Cardinality(KeysOf(a)) <= KeyMapMax
      BY <1>6, <2>6, Sizes
    <3>2. D = KeysOf(a) /\ \A n \in DOMAIN a : a[n].key # "none" => a[n].id = acc.byKey[a[n].key]
      BY <3>1 DEF Marked, a
    <3>3. \A n \in DOMAIN a : a[n].key # "none" => a[n].key \in D
      BY <3>2 DEF KeysOf
    <3>4. DOMAIN t.byKey = KeysOf(s)
      BY <1>1, <1>12, <2>1, <3>2
    <3>5. ASSUME NEW n \in DOMAIN s, s[n].key # "none" PROVE s[n].id = t.byKey[s[n].key]
      <4>1. CASE n \in DOMAIN a /\ s[n] = a[n]
        BY <1>12, <2>1, <3>2, <3>3, <3>5, <4>1
      <4>2. CASE s[n].id = RowWid(acc, row) /\ s[n].key = row.key
        BY <2>1, <2>2, <4>2
      <4> QED
        BY <1>8, <4>1, <4>2
    <3> QED
      BY <3>4, <3>5
  <2> QED
    BY <1>5, <2>3, <2>4, <2>5, <2>6 DEF Marked, s
<1> QED
  BY <1>9, <1>10, <1>11, <1>12

\* Whatever the rows: when their policies fit, ids and keys go together.
LEMMA LoadedMarked ==
  ASSUME NEW rows \in Seq(Row), Len(Loaded(rows).policies) <= MaxPolicies
  PROVE  Marked(Loaded(rows)) /\ Loaded(rows) \in Acc
<1> DEFINE N == Len(rows)
<1>1. N \in Nat /\ DOMAIN rows = 1 .. N /\ \A n \in 1 .. N : rows[n] \in Row
  OBVIOUS
<1>2. PICK f : /\ f[0] = Start /\ Loaded(rows) = f[N] /\ \A n \in 0 .. N : f[n] \in Acc
               /\ \A n \in 1 .. N : f[n] = AddRow(f[n - 1], rows[n])
  BY LoadedLoop
<1> DEFINE Good(n) == Len(f[n].policies) <= MaxPolicies => Marked(f[n])
           S == {n \in Nat : n <= N => Good(n)}
<1>3. 0 \in S
  <2>1. Marked(Start)
    <3>1. Start.policies = <<>> /\ Start.used = {} /\ DOMAIN Start.byKey = {}
      BY DEF Start
    <3>2. IsFiniteSet({}) /\ Cardinality({}) = 0 /\ Len(<<>>) = 0 /\ KeysOf(<<>>) = {} /\ DOMAIN <<>> = {}
      BY FS_EmptySet DEF KeysOf
    <3> QED
      BY <3>1, <3>2 DEF Marked
  <2> QED
    BY <1>2, <2>1
<1>4. ASSUME NEW n \in Nat, n \in S PROVE n + 1 \in S
  <2> DEFINE q == f[n]  t == f[n + 1]  row == rows[n + 1]
  <2>1. SUFFICES ASSUME n + 1 <= N, Len(t.policies) <= MaxPolicies PROVE Marked(t)
    OBVIOUS
  <2>2. row \in Row /\ q \in Acc /\ Good(n) /\ t = AddRow(q, row)
    <3>1. n + 1 \in 1 .. N /\ (n + 1) - 1 = n /\ n \in 0 .. N
      BY <1>1, <2>1
    <3>2. Good(n)
      <4> HIDE DEF Good
      <4> QED
        BY <1>1, <1>4, <2>1
    <3> HIDE DEF Good, N
    <3> QED
      BY <1>1, <1>2, <3>1, <3>2
  <2> HIDE DEF row, t
  <2>3. Added(t.policies, q, row)
    BY <2>2, RowAdded
  <2>4. Len(q.policies) <= MaxPolicies
    <3>1. Len(t.policies) = Len(q.policies) + row.copies /\ Len(q.policies) \in Nat /\ row.copies \in Nat
      BY <2>3 DEF Added
    <3> HIDE DEF q
    <3> QED
      BY <2>1, <3>1, Sizes
  <2>5. Marked(q)
    BY <2>2, <2>4
  <2> HIDE DEF q
  <2> QED
    BY <2>1, <2>2, <2>5, MarkedStep
<1> HIDE DEF S
<1>5. N \in S
  BY <1>1, <1>3, <1>4, Induction
<1>6. Good(N) /\ f[N] \in Acc
  <2>1. N \in 0 .. N
    BY <1>1
  <2>2. Good(N)
    <3> HIDE DEF Good
    <3> QED
      BY <1>1, <1>5 DEF S
  <2> QED
    BY <1>2, <2>1, <2>2
<1> QED
  BY <1>2, <1>6

\* Rows that all encrypt, each with an id a packet can carry and a key of its own.
OwnIds(rows) ==
  \A r, s \in DOMAIN rows :
    /\ rows[r].key # "none" /\ rows[r].copies = 1 /\ rows[r].id \in 1 .. MaxWire
    /\ rows[r].key = rows[s].key => r = s
    /\ rows[r].id = rows[s].id => r = s

\* Each then has one policy, with the id of the row.
LEMMA LoadedOwnIds ==
  ASSUME NEW rows \in Seq(Row), OwnIds(rows)
  PROVE  /\ Len(Loaded(rows).policies) = Len(rows)
         /\ \A i \in DOMAIN rows :
              Loaded(rows).policies[i] =
                [id |-> rows[i].id, db_id |-> rows[i].id, key |-> rows[i].key]
<1> DEFINE N == Len(rows)
           Own(i) == [id |-> rows[i].id, db_id |-> rows[i].id, key |-> rows[i].key]
<1>1. N \in Nat /\ DOMAIN rows = 1 .. N /\ \A n \in 1 .. N : rows[n] \in Row
  OBVIOUS
<1>2. PICK f : /\ f[0] = Start /\ Loaded(rows) = f[N] /\ \A n \in 0 .. N : f[n] \in Acc
               /\ \A n \in 1 .. N : f[n] = AddRow(f[n - 1], rows[n])
  BY LoadedLoop
<1> DEFINE Good(q, n) == /\ Len(q.policies) = n /\ \A i \in 1 .. n : q.policies[i] = Own(i)
                         /\ q.used \subseteq {rows[i].id : i \in 1 .. n}
                         /\ DOMAIN q.byKey \subseteq {rows[i].key : i \in 1 .. n}
           S == {n \in Nat : n <= N => Good(f[n], n)}
<1>3. 0 \in S
  <2>1. Start.policies = <<>> /\ Start.used = {} /\ DOMAIN Start.byKey = {} /\ Len(<<>>) = 0
    BY DEF Start
  <2>2. Good(Start, 0)
    BY <2>1
  <2> QED
    BY <1>2, <2>2
<1>4. ASSUME NEW n \in Nat, n \in S PROVE n + 1 \in S
  <2> DEFINE q == f[n]  t == f[n + 1]  row == rows[n + 1]
  <2>1. SUFFICES ASSUME n + 1 <= N PROVE Good(t, n + 1)
    <3> HIDE DEF Good
    <3> QED
      OBVIOUS
  <2>2. n + 1 \in 1 .. N /\ row \in Row /\ q \in Acc /\ Good(q, n) /\ t = AddRow(q, row)
    <3>1. n + 1 \in 1 .. N /\ (n + 1) - 1 = n /\ n \in 0 .. N
      BY <1>1, <2>1
    <3>2. Good(q, n)
      <4> HIDE DEF Good
      <4> QED
        BY <1>1, <1>4, <2>1
    <3> HIDE DEF Good, N
    <3> QED
      BY <1>1, <1>2, <3>1, <3>2
  <2> HIDE DEF q, t
  <2>3. row.key # "none" /\ row.copies = 1 /\ row.id \in 1 .. MaxWire
    BY <1>1, <2>2 DEF OwnIds
  <2>4. ASSUME NEW i \in 1 .. n PROVE rows[i].key # row.key /\ rows[i].id # row.id
    <3>1. i \in DOMAIN rows /\ n + 1 \in DOMAIN rows /\ i # n + 1
      BY <1>1, <2>2
    <3> QED
      BY <3>1 DEF OwnIds
  <2>5. row.key \notin DOMAIN q.byKey /\ row.id \in (1 .. MaxWire) \ q.used
    BY <2>2, <2>3, <2>4
  <2> HIDE DEF row, Good
  <2>6. WireId(q, row) = row.id /\ RowWid(q, row) = row.id
    BY <2>2, <2>3, <2>5, RowWidFacts DEF RowWid
  <2>7. Added(t.policies, q, row)
    BY <2>2, RowAdded
  <2>8. t.used = q.used \union {row.id} /\ DOMAIN t.byKey \subseteq DOMAIN q.byKey \union {row.key}
    <3>1. t.used = q.used \union {row.id} /\ t.byKey = Known(q, row, row.id)
      BY <2>2, <2>3, <2>6, AddRowIs
    <3> QED
      BY <3>1 DEF Known
  <2>9. /\ Len(t.policies) = Len(q.policies) + 1
        /\ \A i \in 1 .. Len(q.policies) : t.policies[i] = q.policies[i]
        /\ t.policies[Len(q.policies) + 1] = [id |-> row.id, db_id |-> row.id, key |-> row.key]
    <3>1. 1 \in 1 .. row.copies
      BY <2>3
    <3> QED
      BY <2>3, <2>6, <2>7, <3>1 DEF Added
  <2>10. /\ Len(q.policies) = n /\ \A i \in 1 .. n : q.policies[i] = Own(i)
         /\ q.used \subseteq {rows[i].id : i \in 1 .. n}
         /\ DOMAIN q.byKey \subseteq {rows[i].key : i \in 1 .. n}
    BY <2>2 DEF Good
  <2>11. [id |-> row.id, db_id |-> row.id, key |-> row.key] = Own(n + 1)
    BY DEF row
  <2> HIDE DEF Own
  <2>12. Len(t.policies) = n + 1 /\ \A i \in 1 .. (n + 1) : t.policies[i] = Own(i)
    BY <2>9, <2>10, <2>11
  <2>13. /\ t.used \subseteq {rows[i].id : i \in 1 .. (n + 1)}
         /\ DOMAIN t.byKey \subseteq {rows[i].key : i \in 1 .. (n + 1)}
    BY <2>8, <2>10 DEF row
  <2> QED
    BY <2>12, <2>13 DEF Good
<1> HIDE DEF S
<1>5. N \in S
  BY <1>1, <1>3, <1>4, Induction
<1>6. Good(f[N], N)
  <2> HIDE DEF Good
  <2> QED
    BY <1>1, <1>5 DEF S
<1> QED
  BY <1>1, <1>2, <1>6

\* The row and the key a policy comes from.
Origin(p) == [db_id |-> p.db_id, key |-> p.key]

Source == [db_id : Int, key : Key]

Origins(s) == [n \in DOMAIN s |-> Origin(s[n])]

OfRow(row) == [n \in 1 .. row.copies |-> [db_id |-> row.id, key |-> row.key]]

LEMMA OriginsTyped ==
  ASSUME NEW s \in Seq(Wide)
  PROVE  /\ Origins(s) \in Seq(Source) /\ Len(Origins(s)) = Len(s) /\ Len(s) \in Nat
         /\ DOMAIN Origins(s) = 1 .. Len(s) /\ Origins(s) = [n \in 1 .. Len(s) |-> Origin(s[n])]
<1>1. Len(s) \in Nat /\ DOMAIN s = 1 .. Len(s)
  OBVIOUS
<1>2. \A n \in 1 .. Len(s) : Origin(s[n]) \in Source
  <2> SUFFICES ASSUME NEW n \in 1 .. Len(s) PROVE Origin(s[n]) \in Source
    OBVIOUS
  <2>1. s[n] \in Wide
    BY <1>1
  <2> QED
    BY <2>1 DEF Origin, Source, Wide
<1>3. PICK m \in Nat : m = Len(s)
  BY <1>1
<1>4. Origins(s) = [n \in 1 .. m |-> Origin(s[n])]
  BY <1>1, <1>3 DEF Origins
<1>5. Origins(s) \in [1 .. m -> Source]
  BY <1>2, <1>3, <1>4
<1>6. Origins(s) \in Seq(Source) /\ Len(Origins(s)) = m /\ DOMAIN Origins(s) = 1 .. m
  BY <1>5, SeqIs
<1> QED
  BY <1>1, <1>3, <1>4, <1>6

LEMMA OfRowTyped ==
  ASSUME NEW row \in Row
  PROVE  /\ OfRow(row) \in Seq(Source) /\ Len(OfRow(row)) = row.copies /\ row.copies \in Nat \ {0}
         /\ \A n \in 1 .. row.copies : OfRow(row)[n] = [db_id |-> row.id, key |-> row.key]
<1>1. row.copies \in Nat \ {0} /\ [db_id |-> row.id, key |-> row.key] \in Source
  BY DEF Row, Source
<1>2. PICK m \in Nat : m = row.copies
  BY <1>1
<1>3. OfRow(row) \in [1 .. m -> Source]
  BY <1>1, <1>2 DEF OfRow
<1>4. OfRow(row) \in Seq(Source) /\ Len(OfRow(row)) = m
  BY <1>3, SeqIs
<1> QED
  BY <1>1, <1>2, <1>4 DEF OfRow

LEMMA OriginsAdded ==
  ASSUME NEW acc \in Acc, NEW row \in Row, NEW s, Added(s, acc, row)
  PROVE  Origins(s) = Origins(acc.policies) \o OfRow(row)
<1> DEFINE a == acc.policies
           L == Origins(s)
           R == Origins(a) \o OfRow(row)
<1>1. /\ s \in Seq(Wide) /\ a \in Seq(Wide) /\ Len(s) = Len(a) + row.copies
      /\ \A n \in 1 .. Len(a) : s[n] = a[n]
      /\ \A n \in 1 .. row.copies : s[Len(a) + n] =
           [id |-> RowWid(acc, row), db_id |-> row.id, key |-> row.key]
  BY DEF Added, Acc
<1> HIDE DEF a
<1>2. /\ L \in Seq(Source) /\ Len(L) = Len(s) /\ L = [n \in 1 .. Len(s) |-> Origin(s[n])]
      /\ Origins(a) \in Seq(Source) /\ Len(Origins(a)) = Len(a) /\ Len(a) \in Nat
      /\ Origins(a) = [n \in 1 .. Len(a) |-> Origin(a[n])]
  BY <1>1, OriginsTyped
<1>3. /\ OfRow(row) \in Seq(Source) /\ Len(OfRow(row)) = row.copies /\ row.copies \in Nat
      /\ \A n \in 1 .. row.copies : OfRow(row)[n] = [db_id |-> row.id, key |-> row.key]
  BY OfRowTyped
<1>4. /\ R \in Seq(Source) /\ Len(R) = Len(a) + row.copies
      /\ \A n \in 1 .. Len(a) : R[n] = Origins(a)[n]
      /\ \A n \in 1 .. row.copies : R[Len(a) + n] = OfRow(row)[n]
  <2> DEFINE x == Origins(a)
             y == OfRow(row)
  <2>1. x \in Seq(Source) /\ y \in Seq(Source)
    BY <1>2, <1>3
  <2> HIDE DEF x, y
  <2>2. /\ x \o y \in Seq(Source) /\ Len(x \o y) = Len(x) + Len(y)
        /\ \A n \in 1 .. Len(x) : (x \o y)[n] = x[n]
        /\ \A n \in 1 .. Len(y) : (x \o y)[Len(x) + n] = y[n]
    BY <2>1, Joined
  <2>3. Len(x) = Len(a) /\ Len(y) = row.copies /\ R = x \o y
    BY <1>2, <1>3 DEF x, y
  <2> HIDE DEF R
  <2>4. /\ R \in Seq(Source) /\ Len(R) = Len(a) + row.copies
        /\ \A n \in 1 .. Len(a) : R[n] = x[n]
        /\ \A n \in 1 .. row.copies : R[Len(a) + n] = y[n]
    BY <2>2, <2>3, Zenon
  <2> QED
    BY <2>4 DEF x, y
<1>5. PICK c \in Nat : c = row.copies
  BY <1>3
<1>6. PICK m \in Nat : m = Len(a)
  BY <1>2
<1> HIDE DEF L, R
<1>7. L \in [1 .. (m + c) -> Source] /\ R \in [1 .. (m + c) -> Source]
  <2>1. Len(L) = m + c /\ Len(R) = m + c
    BY <1>1, <1>2, <1>4, <1>5, <1>6
  <2> QED
    BY <1>2, <1>4, <2>1
<1>8. ASSUME NEW n \in 1 .. (m + c) PROVE L[n] = R[n]
  <2>0. L[n] = Origin(s[n])
    BY <1>1, <1>2, <1>5, <1>6
  <2>1. CASE n \in 1 .. m
    <3>1. R[n] = Origin(a[n]) /\ s[n] = a[n]
      BY <1>1, <1>2, <1>4, <1>6, <2>1
    <3> QED
      BY <2>0, <3>1
  <2>2. CASE n \notin 1 .. m
    <3>1. n - m \in 1 .. c /\ m + (n - m) = n
      BY <2>2
    <3>2. PICK i \in 1 .. c : n = m + i
      BY <3>1
    <3>3. R[n] = [db_id |-> row.id, key |-> row.key]
      BY <1>3, <1>4, <1>5, <1>6, <3>2
    <3>4. s[n] = [id |-> RowWid(acc, row), db_id |-> row.id, key |-> row.key]
      BY <1>1, <1>5, <1>6, <3>2
    <3>5. Origin(s[n]) = [db_id |-> row.id, key |-> row.key]
      BY <3>4 DEF Origin
    <3> QED
      BY <2>0, <3>3, <3>5
  <2> QED
    BY <2>1, <2>2
<1>9. L = R
  BY <1>7, <1>8
<1> QED
  BY <1>9 DEF L, R, a

\* Every row has its policies, in the rows' order.
LEMMA LoadedExpected ==
  ASSUME NEW rows \in Seq(Row)
  PROVE  Origins(Loaded(rows).policies) = Expected(rows) /\ Loaded(rows) \in Acc
<1> DEFINE N == Len(rows)
           F == [r \in DOMAIN rows |-> [n \in 1 .. rows[r].copies |->
                                          [db_id |-> rows[r].id, key |-> rows[r].key]]]
           Is(g) == g = [i \in 1 .. Len(F) |-> IF i = 1 THEN F[i] ELSE g[i - 1] \o F[i]]
           flat == CHOOSE g : Is(g)
<1>1. N \in Nat /\ DOMAIN rows = 1 .. N /\ \A n \in 1 .. N : rows[n] \in Row
  OBVIOUS
<1>2. PICK f : /\ f[0] = Start /\ Loaded(rows) = f[N] /\ \A n \in 0 .. N : f[n] \in Acc
               /\ \A n \in 1 .. N : f[n] = AddRow(f[n - 1], rows[n])
  BY LoadedLoop
<1>3. Expected(rows) = IF Len(F) = 0 THEN F ELSE flat[Len(F)]
  BY DEF Expected, FlattenSeq
<1>4. F = [r \in 1 .. N |-> OfRow(rows[r])] /\ \A r \in 1 .. N : F[r] \in Seq(Source)
  <2>1. F = [r \in 1 .. N |-> OfRow(rows[r])]
    BY <1>1 DEF OfRow
  <2> HIDE DEF F
  <2> QED
    BY <1>1, <2>1, OfRowTyped
<1>5. Len(F) = N
  <2>1. F \in [1 .. N -> Seq(Source)]
    <3> HIDE DEF F
    <3> QED
      BY <1>4
  <2> HIDE DEF N, F
  <2> QED
    BY <1>1, <2>1, SeqIs
<1> HIDE DEF F
<1>6. ASSUME NEW n \in 1 .. N
      PROVE  Origins(f[n].policies) = Origins(f[n - 1].policies) \o F[n]
  <2>1. f[n - 1] \in Acc /\ rows[n] \in Row /\ f[n] = AddRow(f[n - 1], rows[n])
    BY <1>1, <1>2
  <2>2. Added(f[n].policies, f[n - 1], rows[n])
    BY <2>1, RowAdded
  <2> QED
    BY <1>4, <2>1, <2>2, OriginsAdded
<1>7. Origins(f[0].policies) = <<>>
  <2>1. f[0].policies = <<>>
    BY <1>2 DEF Start
  <2> QED
    BY <2>1 DEF Origins
<1>8. CASE N = 0
  <2>1. F = <<>>
    BY <1>4, <1>8
  <2>2. Expected(rows) = <<>>
    BY <1>3, <1>5, <1>8, <2>1
  <2>3. 0 \in 0 .. N
    BY <1>8
  <2> QED
    BY <1>2, <1>7, <1>8, <2>2, <2>3
<1>9. CASE N # 0
  <2> DEFINE w == [i \in 1 .. N |-> Origins(f[i].policies)]
  <2>1. ASSUME NEW i \in 1 .. N
        PROVE  Origins(f[i].policies) = IF i = 1 THEN F[i] ELSE w[i - 1] \o F[i]
    <3>1. CASE i = 1
      <4>1. Origins(f[1].policies) = <<>> \o F[1]
        <5>1. i - 1 = 0
          BY <3>1
        <5>2. Origins(f[i].policies) = Origins(f[i - 1].policies) \o F[i]
          BY <1>6
        <5> QED
          BY <1>7, <3>1, <5>1, <5>2, Zenon
      <4>2. F[1] \in Seq(Source)
        BY <1>4, <3>1
      <4>3. <<>> \o F[1] = F[1]
        BY <4>2
      <4> QED
        BY <3>1, <4>1, <4>3
    <3>2. CASE i # 1
      <4>1. i - 1 \in 1 .. N
        BY <1>1, <3>2
      <4>2. w[i - 1] = Origins(f[i - 1].policies)
        BY <4>1
      <4> HIDE DEF w
      <4> QED
        BY <1>6, <3>2, <4>2
    <3> QED
      BY <3>1, <3>2
  <2>2. Is(w)
    <3> DEFINE v == [i \in 1 .. N |-> IF i = 1 THEN F[i] ELSE w[i - 1] \o F[i]]
    <3>1. w = v
      BY <2>1
    <3> QED
      BY <1>5, <3>1
  <2>3. Is(flat)
    <3> HIDE DEF Is
    <3> QED
      BY <2>2
  <2>4. \A i \in 1 .. N : flat[i] = IF i = 1 THEN F[i] ELSE flat[i - 1] \o F[i]
    <3> HIDE DEF flat
    <3> QED
      BY <1>5, <2>3
  <2> HIDE DEF flat, w
  <2> DEFINE S == {n \in Nat : n \in 1 .. N => flat[n] = Origins(f[n].policies)}
  <2>5. 0 \in S
    BY <1>1
  <2>6. ASSUME NEW n \in Nat, n \in S PROVE n + 1 \in S
    <3>1. SUFFICES ASSUME n + 1 \in 1 .. N PROVE flat[n + 1] = Origins(f[n + 1].policies)
      OBVIOUS
    <3>2. flat[n + 1] = IF n + 1 = 1 THEN F[n + 1] ELSE flat[n] \o F[n + 1]
      <4>1. (n + 1) - 1 = n
        OBVIOUS
      <4> QED
        BY <2>4, <3>1, <4>1
    <3>3. Origins(f[n + 1].policies) = IF n + 1 = 1 THEN F[n + 1] ELSE Origins(f[n].policies) \o F[n + 1]
      <4>1. CASE n = 0
        <5>1. n + 1 = 1
          BY <4>1
        <5> QED
          BY <2>1, <3>1, <5>1
      <4>2. CASE n # 0
        <5>1. n + 1 # 1 /\ (n + 1) - 1 = n
          BY <4>2
        <5> QED
          BY <1>6, <3>1, <5>1
      <4> QED
        BY <4>1, <4>2
    <3>4. n + 1 # 1 => flat[n] = Origins(f[n].policies)
      <4>1. n + 1 # 1 => n \in 1 .. N
        BY <1>1, <3>1
      <4> QED
        BY <2>6, <4>1
    <3> QED
      BY <3>2, <3>3, <3>4
  <2> HIDE DEF S
  <2>7. N \in S
    BY <1>1, <2>5, <2>6, Induction
  <2>8. flat[N] = Origins(f[N].policies)
    <3>1. N \in 1 .. N
      BY <1>1, <1>9
    <3> QED
      BY <2>7, <3>1 DEF S
  <2> QED
    BY <1>2, <1>3, <1>5, <1>9, <2>8
<1>10. Loaded(rows) \in Acc
  <2>1. N \in 0 .. N
    BY <1>1
  <2> QED
    BY <1>2, <2>1
<1> QED
  BY <1>8, <1>9, <1>10

-----------------------------------------------------------------------------
(* ConfigMerge: types *)

Contained == [lans : Seq(Name), wans : Seq(Name), rows : Seq(Row), there : BOOLEAN]

Config == [lans : Seq(Name), wans : Seq(Name), policies : Seq(Wide)]

LoadedProfile == [id : Id \union {0}, lans : Seq(Nat), wans : Seq(Nat), policies : Seq(Nat)]

Points(p, c) ==
  /\ \A i \in DOMAIN p.lans : p.lans[i] \in DOMAIN c.lans
  /\ \A i \in DOMAIN p.wans : p.wans[i] \in DOMAIN c.wans
  /\ \A i \in DOMAIN p.policies : p.policies[i] \in DOMAIN c.policies

Step == {"verify", "lans", "wans", "profile", "own lans", "own wans",
         "policies", "merge", "done", "failed"}

\* What changes between two queries are the tables.
TablesInv ==
  /\ db \in [Id -> Contained] /\ edits \in Nat /\ skipped \in BOOLEAN
  /\ ids \in Seq(Id) /\ k \in DOMAIN ids /\ step \in Step
  /\ \A i, j \in DOMAIN ids : ids[i] = ids[j] => i = j
  /\ PrimaryKey(db)

\* The profile that is loaded: it has no indices before their lists are there.
LoadInv ==
  /\ tmp \in [cfg : Config, profile : LoadedProfile] /\ Points(tmp.profile, tmp.cfg)
  /\ step = "lans" => tmp.profile.lans = <<>>
  /\ step \in {"lans", "wans"} => tmp.profile.wans = <<>>

\* The configuration so far.
MergedInv ==
  /\ merged \in [cfg : Config, profiles : Seq(LoadedProfile)]
  /\ Len(merged.cfg.policies) <= MaxPolicies
  /\ Len(merged.cfg.lans) <= MaxInterfaces /\ Len(merged.cfg.wans) <= MaxInterfaces
  /\ \A n \in DOMAIN merged.profiles : Points(merged.profiles[n], merged.cfg)

MergeTypeInv == TablesInv /\ LoadInv /\ MergedInv

LEMMA ContentsTyped ==
  ASSUME NEW p \in Id, NEW c \in Contents[p] \union {Absent}
  PROVE  c \in Contained
<1>1. CASE c = Absent
  <2>1. <<>> \in Seq(Name) /\ <<>> \in Seq(Row)
    OBVIOUS
  <2> QED
    BY <1>1, <2>1 DEF Absent, Contained
<1>2. CASE c \in Contents[p]
  <2>1. /\ c = [lans |-> c.lans, wans |-> c.wans, rows |-> c.rows, there |-> TRUE]
        /\ {c.lans, c.wans} \subseteq Seq(Name) /\ c.rows \in Seq(Row)
    BY <1>2, ConfigMergeAssumption DEF ConfigMergeAssumption
  <2>2. PICK x \in Seq(Name), y \in Seq(Name), z \in Seq(Row) :
          c = [lans |-> x, wans |-> y, rows |-> z, there |-> TRUE]
    BY <2>1
  <2> QED
    BY <2>2 DEF Contained
<1> QED
  BY <1>1, <1>2

LEMMA EmptyTyped ==
  /\ EmptyConfig \in Config /\ EmptyProfile \in LoadedProfile /\ Points(EmptyProfile, EmptyConfig)
  /\ \A i \in Id : [EmptyProfile EXCEPT !.id = i] \in LoadedProfile
  /\ \A i \in Id : Points([EmptyProfile EXCEPT !.id = i], EmptyConfig)
<1>1. <<>> \in Seq(Name) /\ <<>> \in Seq(Wide) /\ <<>> \in Seq(Nat) /\ DOMAIN <<>> = {}
  OBVIOUS
<1> QED
  BY <1>1 DEF EmptyConfig, EmptyProfile, Config, LoadedProfile, Points

LEMMA OrdersTyped ==
  ASSUME NEW s \in Orders
  PROVE  s \in Seq(Id) /\ 1 \in DOMAIN s /\ \A i, j \in DOMAIN s : s[i] = s[j] => i = j
<1>1. PICK S \in (SUBSET Id) \ {{}} : s \in [1 .. Cardinality(S) -> S] /\ IsInjective(s)
  BY DEF Orders
<1>2. IsFiniteSet(S) /\ S # {}
  <2>1. IsFiniteSet(Id)
    BY ConfigMergeAssumption DEF ConfigMergeAssumption
  <2>2. S \in SUBSET Id /\ S # {}
    BY <1>1
  <2>3. \A T \in SUBSET Id : IsFiniteSet(T)
    BY <2>1, FS_Subset
  <2> QED
    BY <2>2, <2>3, Zenon
<1>3. PICK n \in Nat : n = Cardinality(S)
  BY <1>2, FS_CardinalityType
<1>4. n # 0
  BY <1>2, <1>3, FS_EmptySet
<1>5. s \in [1 .. n -> Id]
  BY <1>1, <1>3
<1>6. s \in Seq(Id) /\ DOMAIN s = 1 .. n
  BY <1>5, SeqIs
<1> QED
  BY <1>1, <1>4, <1>6 DEF IsInjective

LEMMA BuildInitTyped == BuildInit => MergeTypeInv
<1> SUFFICES ASSUME BuildInit PROVE MergeTypeInv
  OBVIOUS
<1>1. TablesInv
  <2>1. db \in [Id -> Contained]
    BY ContentsTyped DEF BuildInit
  <2>2. ids \in Seq(Id) /\ 1 \in DOMAIN ids /\ \A i, j \in DOMAIN ids : ids[i] = ids[j] => i = j
    BY OrdersTyped DEF BuildInit
  <2> QED
    BY <2>1, <2>2 DEF BuildInit, TablesInv, Step
<1>2. LoadInv
  <2>1. tmp = [cfg |-> EmptyConfig, profile |-> EmptyProfile] /\ step = "verify"
    BY DEF BuildInit
  <2> QED
    BY <2>1, EmptyTyped DEF LoadInv
<1>3. MergedInv
  <2>1. merged = [cfg |-> EmptyConfig, profiles |-> <<>>]
    BY DEF BuildInit
  <2>2. <<>> \in Seq(LoadedProfile) /\ DOMAIN <<>> = {} /\ Len(<<>>) = 0
    OBVIOUS
  <2>3. /\ merged \in [cfg : Config, profiles : Seq(LoadedProfile)]
        /\ DOMAIN merged.profiles = {}
    BY <2>1, <2>2, EmptyTyped
  <2>4. /\ Len(merged.cfg.policies) = 0 /\ Len(merged.cfg.lans) = 0 /\ Len(merged.cfg.wans) = 0
    BY <2>1, <2>2 DEF EmptyConfig
  <2> QED
    BY <2>3, <2>4, Sizes DEF MergedInv
<1> QED
  BY <1>1, <1>2, <1>3 DEF MergeTypeInv

LEMMA RowsTyped ==
  ASSUME TablesInv
  PROVE  ids[k] \in Id /\ Rows \in Contained
BY DEF TablesInv, Rows

\* The queries and the tables.
LEMMA TablesStep == MergeTypeInv /\ [BuildNext]_build_vars => TablesInv'
<1> SUFFICES ASSUME MergeTypeInv, [BuildNext]_build_vars PROVE TablesInv'
  OBVIOUS
<1> USE DEF MergeTypeInv
<1>1. CASE Edit
  <2>0. PICK p \in Id : \E c \in Contents[p] \union {Absent} :
                         db' = [db EXCEPT ![p] = c] /\ PrimaryKey(db')
    BY <1>1 DEF Edit
  <2>1. PICK c \in Contents[p] \union {Absent} : db' = [db EXCEPT ![p] = c] /\ PrimaryKey(db')
    BY <2>0
  <2>2. db' \in [Id -> Contained]
    BY <2>1, ContentsTyped DEF TablesInv
  <2> QED
    BY <1>1, <2>1, <2>2 DEF Edit, TablesInv
<1>2. CASE Merge
  <2>1. k' \in DOMAIN ids /\ step' \in Step
    <3>1. DOMAIN ids = 1 .. Len(ids) /\ Len(ids) \in Nat /\ k \in 1 .. Len(ids)
      BY DEF TablesInv
    <3>2. step' \in {"done", "verify"} /\ k' = IF k = Len(ids) THEN k ELSE k + 1
      BY <1>2 DEF Merge
    <3>0. PICK m \in Nat : m = Len(ids)
      BY <3>1
    <3>3. k' \in 1 .. Len(ids)
      <4>1. k \in 1 .. m /\ k' = IF k = m THEN k ELSE k + 1
        BY <3>0, <3>1, <3>2, Zenon
      <4>2. k' \in 1 .. m
        BY <4>1
      <4> QED
        BY <3>0, <4>2
    <3> QED
      BY <3>1, <3>2, <3>3 DEF Step
  <2> QED
    BY <1>2, <2>1 DEF Merge, TablesInv
<1>3. CASE Verify
  BY <1>3 DEF Verify, Goes, TablesInv, Step
<1>4. CASE LoadLans
  BY <1>4 DEF LoadLans, Goes, TablesInv, Step
<1>5. CASE LoadWans
  BY <1>5 DEF LoadWans, Goes, TablesInv, Step
<1>6. CASE LoadProfile
  BY <1>6 DEF LoadProfile, Goes, TablesInv, Step
<1>7. CASE OwnLans
  BY <1>7 DEF OwnLans, Goes, TablesInv, Step
<1>8. CASE OwnWans
  BY <1>8 DEF OwnWans, Goes, TablesInv, Step
<1>9. CASE OwnQueryFails
  BY <1>9 DEF OwnQueryFails, Goes, TablesInv, Step
<1>10. CASE LoadPolicies
  BY <1>10 DEF LoadPolicies, Goes, TablesInv, Step
<1>11. CASE Fail
  BY <1>11 DEF Fail, TablesInv, Step
<1>12. CASE UNCHANGED build_vars
  BY <1>12 DEF build_vars, TablesInv
<1> QED
  BY <1>1, <1>2, <1>3, <1>4, <1>5, <1>6, <1>7, <1>8, <1>9, <1>10, <1>11, <1>12 DEF BuildNext

\* The parts of the profile that is loaded.
LEMMA TmpIs ==
  ASSUME LoadInv
  PROVE  /\ tmp = [cfg |-> tmp.cfg, profile |-> tmp.profile]
         /\ tmp.cfg = [lans |-> tmp.cfg.lans, wans |-> tmp.cfg.wans, policies |-> tmp.cfg.policies]
         /\ tmp.profile = [id |-> tmp.profile.id, lans |-> tmp.profile.lans,
                           wans |-> tmp.profile.wans, policies |-> tmp.profile.policies]
         /\ tmp.cfg.lans \in Seq(Name) /\ tmp.cfg.wans \in Seq(Name) /\ tmp.cfg.policies \in Seq(Wide)
         /\ tmp.profile.id \in Id \union {0} /\ tmp.profile.lans \in Seq(Nat)
         /\ tmp.profile.wans \in Seq(Nat) /\ tmp.profile.policies \in Seq(Nat)
BY DEF LoadInv, Config, LoadedProfile

\* The indices of the policies that were just loaded.
LEMMA Numbered ==
  ASSUME NEW s \in Seq(Wide)
  PROVE  /\ [n \in DOMAIN s |-> n] \in Seq(Nat) /\ Len([n \in DOMAIN s |-> n]) = Len(s)
         /\ DOMAIN [n \in DOMAIN s |-> n] = DOMAIN s
<1>1. Len(s) \in Nat /\ DOMAIN s = 1 .. Len(s)
  OBVIOUS
<1>2. PICK m \in Nat : m = Len(s)
  BY <1>1
<1>3. [n \in DOMAIN s |-> n] \in [1 .. m -> Nat]
  BY <1>1, <1>2
<1> QED
  BY <1>1, <1>2, <1>3, SeqIs

LEMMA LoadStep == MergeTypeInv /\ [BuildNext]_build_vars => LoadInv'
<1> SUFFICES ASSUME MergeTypeInv, [BuildNext]_build_vars PROVE LoadInv'
  OBVIOUS
<1>0. /\ TablesInv /\ LoadInv
      /\ tmp = [cfg |-> tmp.cfg, profile |-> tmp.profile]
      /\ tmp.cfg = [lans |-> tmp.cfg.lans, wans |-> tmp.cfg.wans, policies |-> tmp.cfg.policies]
      /\ tmp.profile = [id |-> tmp.profile.id, lans |-> tmp.profile.lans,
                        wans |-> tmp.profile.wans, policies |-> tmp.profile.policies]
      /\ tmp.cfg.lans \in Seq(Name) /\ tmp.cfg.wans \in Seq(Name) /\ tmp.cfg.policies \in Seq(Wide)
      /\ tmp.profile.id \in Id \union {0} /\ tmp.profile.lans \in Seq(Nat)
      /\ tmp.profile.wans \in Seq(Nat) /\ tmp.profile.policies \in Seq(Nat)
  BY TmpIs DEF MergeTypeInv
<1>14. Rows \in Contained /\ Rows.lans \in Seq(Name) /\ Rows.wans \in Seq(Name) /\ Rows.rows \in Seq(Row)
  BY <1>0, RowsTyped DEF Contained
<1>15. Points(tmp.profile, tmp.cfg)
  BY <1>0 DEF LoadInv
<1>1. ASSUME tmp' = tmp, step' \in {"lans", "wans"} => step' = step PROVE LoadInv'
  BY <1>0, <1>1 DEF LoadInv
<1>2. CASE Edit
  BY <1>1, <1>2 DEF Edit
<1>3. CASE Verify
  <2>1. /\ tmp' = [cfg |-> EmptyConfig, profile |-> [EmptyProfile EXCEPT !.id = ids[k]]]
        /\ step' = "lans" /\ ids[k] \in Id
    BY <1>0, <1>3, RowsTyped DEF Verify, Goes
  <2>2. [EmptyProfile EXCEPT !.id = ids[k]] \in LoadedProfile
        /\ Points([EmptyProfile EXCEPT !.id = ids[k]], EmptyConfig)
    BY <2>1, EmptyTyped
  <2>3. tmp'.profile.lans = <<>> /\ tmp'.profile.wans = <<>>
    BY <2>1 DEF EmptyProfile
  <2>4. tmp'.cfg = EmptyConfig /\ tmp'.profile = [EmptyProfile EXCEPT !.id = ids[k]]
    BY <2>1
  <2>5. tmp' \in [cfg : Config, profile : LoadedProfile]
    BY <2>1, <2>2, EmptyTyped
  <2>6. Points(tmp'.profile, tmp'.cfg)
    BY <2>2, <2>4
  <2> QED
    BY <2>1, <2>3, <2>5, <2>6 DEF LoadInv
<1>4. CASE LoadLans
  <2>1. /\ step = "lans" /\ step' = "wans" /\ tmp' = [tmp EXCEPT !.cfg.lans = Rows.lans]
    BY <1>4 DEF LoadLans, Goes
  <2>2. tmp.profile.lans = <<>> /\ tmp.profile.wans = <<>>
    BY <1>0, <2>1 DEF LoadInv
  <2>3. tmp' = [cfg |-> [lans |-> Rows.lans, wans |-> tmp.cfg.wans, policies |-> tmp.cfg.policies],
                profile |-> tmp.profile]
    BY <1>0, <2>1, Zenon
  <2>4. tmp' \in [cfg : Config, profile : LoadedProfile]
    BY <1>0, <1>14, <2>3 DEF Config, LoadInv
  <2>5. Points(tmp'.profile, tmp'.cfg)
    BY <1>15, <2>2, <2>3 DEF Points
  <2>6. tmp'.profile.wans = <<>>
    BY <2>2, <2>3
  <2> QED
    BY <2>1, <2>4, <2>5, <2>6 DEF LoadInv
<1>5. CASE LoadWans
  <2>1. /\ step = "wans" /\ step' = "profile" /\ tmp' = [tmp EXCEPT !.cfg.wans = Rows.wans]
    BY <1>5 DEF LoadWans, Goes
  <2>2. tmp.profile.wans = <<>>
    BY <1>0, <2>1 DEF LoadInv
  <2>3. tmp' = [cfg |-> [lans |-> tmp.cfg.lans, wans |-> Rows.wans, policies |-> tmp.cfg.policies],
                profile |-> tmp.profile]
    BY <1>0, <2>1, Zenon
  <2>4. tmp' \in [cfg : Config, profile : LoadedProfile]
    BY <1>0, <1>14, <2>3 DEF Config, LoadInv
  <2>5. Points(tmp'.profile, tmp'.cfg)
    BY <1>15, <2>2, <2>3 DEF Points
  <2> QED
    BY <2>1, <2>4, <2>5 DEF LoadInv
<1>6. CASE LoadProfile
  BY <1>1, <1>6 DEF LoadProfile, Goes
<1>7. CASE OwnLans
  <2>1. step' = "own wans" /\ tmp' = [tmp EXCEPT !.profile.lans = Indices(tmp.cfg.lans, Rows.lans)]
    BY <1>7 DEF OwnLans, Goes
  <2>2. PICK x : x = Indices(tmp.cfg.lans, Rows.lans)
    OBVIOUS
  <2>3. x \in Seq(Nat) /\ \A n \in DOMAIN x : x[n] \in DOMAIN tmp.cfg.lans
    BY <1>0, <1>14, <2>2, IndicesFacts
  <2>4. tmp' = [cfg |-> tmp.cfg, profile |-> [id |-> tmp.profile.id, lans |-> x,
                  wans |-> tmp.profile.wans, policies |-> tmp.profile.policies]]
    BY <1>0, <2>1, <2>2, Zenon
  <2>5. tmp' \in [cfg : Config, profile : LoadedProfile]
    BY <1>0, <2>3, <2>4 DEF LoadedProfile, LoadInv
  <2>6. Points(tmp'.profile, tmp'.cfg)
    BY <1>15, <2>3, <2>4 DEF Points
  <2> QED
    BY <2>1, <2>5, <2>6 DEF LoadInv
<1>8. CASE OwnWans
  <2>1. step' = "policies" /\ tmp' = [tmp EXCEPT !.profile.wans = Indices(tmp.cfg.wans, Rows.wans)]
    BY <1>8 DEF OwnWans, Goes
  <2>2. PICK x : x = Indices(tmp.cfg.wans, Rows.wans)
    OBVIOUS
  <2>3. x \in Seq(Nat) /\ \A n \in DOMAIN x : x[n] \in DOMAIN tmp.cfg.wans
    BY <1>0, <1>14, <2>2, IndicesFacts
  <2>4. tmp' = [cfg |-> tmp.cfg, profile |-> [id |-> tmp.profile.id, lans |-> tmp.profile.lans,
                  wans |-> x, policies |-> tmp.profile.policies]]
    BY <1>0, <2>1, <2>2, Zenon
  <2>5. tmp' \in [cfg : Config, profile : LoadedProfile]
    BY <1>0, <2>3, <2>4 DEF LoadedProfile, LoadInv
  <2>6. Points(tmp'.profile, tmp'.cfg)
    BY <1>15, <2>3, <2>4 DEF Points
  <2> QED
    BY <2>1, <2>5, <2>6 DEF LoadInv
<1>9. CASE OwnQueryFails
  BY <1>1, <1>9 DEF OwnQueryFails, Goes
<1>10. CASE LoadPolicies
  <2>1. PICK s : s = Policies(Rows.rows)
    OBVIOUS
  <2>2. step' = "merge" /\ tmp' = [tmp EXCEPT !.cfg.policies = s,
                                              !.profile.policies = [n \in DOMAIN s |-> n]]
    BY <1>10, <2>1 DEF LoadPolicies, Goes
  <2>3. s \in Seq(Wide)
    BY <1>14, <2>1, PoliciesLoaded, LoadedExpected DEF Acc
  <2>4. PICK x : x = [n \in DOMAIN s |-> n]
    OBVIOUS
  <2>5. x \in Seq(Nat) /\ \A n \in DOMAIN x : x[n] \in DOMAIN s
    BY <2>3, <2>4, Numbered
  <2>6. tmp' = [cfg |-> [lans |-> tmp.cfg.lans, wans |-> tmp.cfg.wans, policies |-> s],
                profile |-> [id |-> tmp.profile.id, lans |-> tmp.profile.lans,
                             wans |-> tmp.profile.wans, policies |-> x]]
    BY <1>0, <2>2, <2>4, Zenon
  <2>7. tmp' \in [cfg : Config, profile : LoadedProfile]
    BY <1>0, <2>3, <2>5, <2>6 DEF LoadedProfile, Config, LoadInv
  <2>8. Points(tmp'.profile, tmp'.cfg)
    BY <1>15, <2>5, <2>6 DEF Points
  <2> QED
    BY <2>2, <2>7, <2>8 DEF LoadInv
<1>11. CASE Merge
  BY <1>1, <1>11 DEF Merge
<1>12. CASE Fail
  BY <1>1, <1>12 DEF Fail
<1>13. CASE UNCHANGED build_vars
  BY <1>1, <1>13 DEF build_vars
<1> QED
  BY <1>2, <1>3, <1>4, <1>5, <1>6, <1>7, <1>8, <1>9, <1>10, <1>11, <1>12, <1>13 DEF BuildNext

\* A profile of the merged configuration has the interfaces its own lists have,
\* and its policies are those that were added for it.
SameNames(r, list, own, names) ==
  /\ r \in Seq(Nat) /\ Len(r) = Len(own)
  /\ \A i \in DOMAIN r : r[i] \in DOMAIN list /\ list[r[i]] = names[own[i]]

MergedAs(p, c) ==
  /\ p \in LoadedProfile /\ p.id = tmp.profile.id
  /\ SameNames(p.lans, c.lans, tmp.profile.lans, tmp.cfg.lans)
  /\ SameNames(p.wans, c.wans, tmp.profile.wans, tmp.cfg.wans)
  /\ Len(p.policies) = Len(tmp.profile.policies)
  /\ \A i \in DOMAIN p.policies :
       p.policies[i] = Len(merged.cfg.policies) + tmp.profile.policies[i]

LEMMA NamesMerged ==
  ASSUME NEW list \in Seq(Name), NEW own \in Seq(Name), NEW ix \in Seq(Nat),
         \A i \in DOMAIN ix : ix[i] \in DOMAIN own
  PROVE  SameNames(Mapped(MergedNames(list, own), own, ix), MergedNames(list, own), ix, own)
<1> DEFINE l == MergedNames(list, own)
<1>1. l \in Seq(Name) /\ \A n \in DOMAIN own : \E m \in DOMAIN l : l[m] = own[n]
  BY MergedNamesFacts
<1> HIDE DEF l
<1>2. /\ Mapped(l, own, ix) \in Seq(Nat) /\ Len(Mapped(l, own, ix)) = Len(ix)
      /\ \A n \in DOMAIN Mapped(l, own, ix) :
           /\ Mapped(l, own, ix)[n] \in DOMAIN l
           /\ l[Mapped(l, own, ix)[n]] = own[ix[n]]
  BY <1>1, MappedFacts
<1>3. SameNames(Mapped(l, own, ix), l, ix, own)
  BY <1>2, Zenon DEF SameNames
<1> QED
  BY <1>3 DEF l

LEMMA MergedIs ==
  ASSUME LoadInv, MergedInv, Merge
  PROVE  \E c, p : /\ merged' = [cfg |-> c, profiles |-> Append(merged.profiles, p)]
                   /\ c.lans = MergedNames(merged.cfg.lans, tmp.cfg.lans)
                   /\ c.wans = MergedNames(merged.cfg.wans, tmp.cfg.wans)
                   /\ c.policies = PolicyMerge(merged.cfg.policies, tmp.cfg.policies)
                   /\ c \in Config /\ MergedAs(p, c)
                   /\ Len(c.policies) = Len(merged.cfg.policies) + Len(tmp.cfg.policies)
                   /\ Len(c.policies) <= MaxPolicies
                   /\ Len(c.lans) <= MaxInterfaces /\ Len(c.wans) <= MaxInterfaces
<1> DEFINE l == MergedNames(merged.cfg.lans, tmp.cfg.lans)
           w == MergedNames(merged.cfg.wans, tmp.cfg.wans)
           ps == PolicyMerge(merged.cfg.policies, tmp.cfg.policies)
           before == Len(merged.cfg.policies)
           own == tmp.profile.policies
           moved == [n \in DOMAIN own |-> before + own[n]]
           c == [lans |-> l, wans |-> w, policies |-> ps]
           p == [id |-> tmp.profile.id,
                 lans |-> Mapped(l, tmp.cfg.lans, tmp.profile.lans),
                 wans |-> Mapped(w, tmp.cfg.wans, tmp.profile.wans), policies |-> moved]
<1>1. Merged = [cfg |-> c, profiles |-> Append(merged.profiles, p)]
  BY DEF Merged, PolicyMerge
<1>2. /\ tmp.cfg.lans \in Seq(Name) /\ tmp.cfg.wans \in Seq(Name) /\ tmp.cfg.policies \in Seq(Wide)
      /\ tmp.profile.lans \in Seq(Nat) /\ tmp.profile.wans \in Seq(Nat) /\ own \in Seq(Nat)
      /\ tmp.profile.id \in Id \union {0}
  BY TmpIs
<1>3. merged.cfg.lans \in Seq(Name) /\ merged.cfg.wans \in Seq(Name) /\ merged.cfg.policies \in Seq(Wide)
  BY DEF MergedInv, Config
<1>4. /\ \A i \in DOMAIN tmp.profile.lans : tmp.profile.lans[i] \in DOMAIN tmp.cfg.lans
      /\ \A i \in DOMAIN tmp.profile.wans : tmp.profile.wans[i] \in DOMAIN tmp.cfg.wans
  BY DEF LoadInv, Points
<1>5. /\ SameNames(p.lans, l, tmp.profile.lans, tmp.cfg.lans)
      /\ SameNames(p.wans, w, tmp.profile.wans, tmp.cfg.wans)
  BY <1>2, <1>3, <1>4, NamesMerged
<1>6. l \in Seq(Name) /\ w \in Seq(Name)
  BY <1>2, <1>3, MergedNamesFacts
<1>7. ps \in Seq(Wide) /\ Len(ps) = before + Len(tmp.cfg.policies)
  BY <1>2, <1>3, PolicyMergeFacts DEF PolicyMerged
<1>8. moved \in Seq(Nat) /\ Len(moved) = Len(own) /\ DOMAIN moved = DOMAIN own
  <2>1. PICK m \in Nat : m = Len(own)
    BY <1>2
  <2>2. DOMAIN own = 1 .. m /\ before \in Nat
    BY <1>2, <1>3, <2>1
  <2>3. moved \in [1 .. m -> Nat]
    <3>1. \A n \in 1 .. m : own[n] \in Nat
      BY SMTT(30), <1>2, <2>2
    <3>2. PICK b \in Nat : b = before
      BY <2>2
    <3> HIDE DEF own, before
    <3> QED
      BY <2>2, <3>1, <3>2
  <2> QED
    BY <2>1, <2>2, <2>3, SeqIs
<1>9. merged' = Merged /\ MergeFits
  BY DEF Merge
<1>10. /\ Len(ps) <= MaxPolicies /\ Len(l) <= MaxInterfaces /\ Len(w) <= MaxInterfaces
  <2>1. Merged.cfg.lans = l /\ Merged.cfg.wans = w
    BY <1>1
  <2> QED
    BY <1>7, <1>9, <2>1 DEF MergeFits
<1> HIDE DEF l, w, ps, moved
<1>11. c \in Config
  BY <1>6, <1>7 DEF Config
<1>12. MergedAs(p, c)
  <2>1. p.lans \in Seq(Nat) /\ p.wans \in Seq(Nat)
    BY <1>5 DEF SameNames
  <2>2. p \in LoadedProfile
    BY <1>2, <1>8, <2>1 DEF LoadedProfile
  <2>3. \A i \in DOMAIN p.policies : p.policies[i] = before + own[i]
    BY <1>8 DEF moved
  <2> QED
    BY <1>5, <1>8, <2>2, <2>3 DEF MergedAs
<1>13. /\ merged' = [cfg |-> c, profiles |-> Append(merged.profiles, p)]
       /\ c.lans = l /\ c.wans = w /\ c.policies = ps
  BY <1>1, <1>9
<1> HIDE DEF c, p
<1>14. /\ c.lans = MergedNames(merged.cfg.lans, tmp.cfg.lans)
       /\ c.wans = MergedNames(merged.cfg.wans, tmp.cfg.wans)
       /\ c.policies = PolicyMerge(merged.cfg.policies, tmp.cfg.policies)
  BY <1>13 DEF l, w, ps
<1>15. Len(c.policies) = Len(merged.cfg.policies) + Len(tmp.cfg.policies)
  BY <1>7, <1>13
<1> QED
  BY <1>10, <1>11, <1>12, <1>13, <1>14, <1>15

\* The lists only grow.
LEMMA MergedGrows ==
  ASSUME LoadInv, MergedInv, NEW c,
         c.lans = MergedNames(merged.cfg.lans, tmp.cfg.lans),
         c.wans = MergedNames(merged.cfg.wans, tmp.cfg.wans),
         c.policies = PolicyMerge(merged.cfg.policies, tmp.cfg.policies)
  PROVE  /\ Grown(c.lans, merged.cfg.lans) /\ Grown(c.wans, merged.cfg.wans)
         /\ Grown(c.policies, merged.cfg.policies)
<1>1. /\ tmp.cfg.lans \in Seq(Name) /\ tmp.cfg.wans \in Seq(Name) /\ tmp.cfg.policies \in Seq(Wide)
  BY TmpIs
<1>2. merged.cfg.lans \in Seq(Name) /\ merged.cfg.wans \in Seq(Name) /\ merged.cfg.policies \in Seq(Wide)
  BY DEF MergedInv, Config
<1> QED
  <2>1. Grown(c.lans, merged.cfg.lans) /\ Grown(c.wans, merged.cfg.wans)
    BY <1>1, <1>2, MergedNamesFacts
  <2>2. PolicyMerged(c.policies, merged.cfg.policies, tmp.cfg.policies)
    BY <1>1, <1>2, PolicyMergeFacts, Zenon
  <2>3. Grown(c.policies, merged.cfg.policies)
    BY <2>2, Zenon DEF PolicyMerged
  <2> QED
    BY <2>1, <2>3

LEMMA MergedStep == MergeTypeInv /\ [BuildNext]_build_vars => MergedInv'
<1> SUFFICES ASSUME MergeTypeInv, [BuildNext]_build_vars PROVE MergedInv'
  OBVIOUS
<1>0. TablesInv /\ LoadInv /\ MergedInv
  BY DEF MergeTypeInv
<1>1. CASE Merge
  <2>1. PICK c : \E p :
                   /\ merged' = [cfg |-> c, profiles |-> Append(merged.profiles, p)]
                   /\ c.lans = MergedNames(merged.cfg.lans, tmp.cfg.lans)
                   /\ c.wans = MergedNames(merged.cfg.wans, tmp.cfg.wans)
                   /\ c.policies = PolicyMerge(merged.cfg.policies, tmp.cfg.policies)
                   /\ c \in Config /\ MergedAs(p, c)
                   /\ Len(c.policies) = Len(merged.cfg.policies) + Len(tmp.cfg.policies)
                   /\ Len(c.policies) <= MaxPolicies
                   /\ Len(c.lans) <= MaxInterfaces /\ Len(c.wans) <= MaxInterfaces
    BY <1>0, <1>1, MergedIs
  <2>2. PICK p : /\ merged' = [cfg |-> c, profiles |-> Append(merged.profiles, p)]
                 /\ MergedAs(p, c)
    BY <2>1
  <2>3. /\ Grown(c.lans, merged.cfg.lans) /\ Grown(c.wans, merged.cfg.wans)
        /\ Grown(c.policies, merged.cfg.policies)
    BY <1>0, <2>1, MergedGrows
  <2>4. merged.profiles \in Seq(LoadedProfile) /\ p \in LoadedProfile
    BY <1>0, <2>2 DEF MergedInv, MergedAs
  <2> DEFINE q == Append(merged.profiles, p)
  <2>5. /\ q \in Seq(LoadedProfile) /\ Len(merged.profiles) \in Nat
        /\ DOMAIN merged.profiles = 1 .. Len(merged.profiles)
        /\ DOMAIN q = 1 .. (Len(merged.profiles) + 1)
        /\ q[Len(merged.profiles) + 1] = p /\ \A n \in DOMAIN merged.profiles : q[n] = merged.profiles[n]
    BY <2>4, Appended
  <2>6. Points(p, c)
    <3>1. /\ \A i \in DOMAIN p.lans : p.lans[i] \in DOMAIN c.lans
          /\ \A i \in DOMAIN p.wans : p.wans[i] \in DOMAIN c.wans
      BY <2>2 DEF MergedAs, SameNames
    <3>2. ASSUME NEW i \in DOMAIN p.policies PROVE p.policies[i] \in DOMAIN c.policies
      <4>1. /\ tmp.profile.policies \in Seq(Nat) /\ p.policies \in Seq(Nat) /\ tmp.cfg.policies \in Seq(Wide)
            /\ merged.cfg.policies \in Seq(Wide) /\ c.policies \in Seq(Wide)
        BY <1>0, <2>1, <2>2, TmpIs DEF MergedAs, LoadedProfile, MergedInv, Config
      <4>2. i \in DOMAIN tmp.profile.policies
        <5>1. Len(p.policies) = Len(tmp.profile.policies)
          BY <2>2 DEF MergedAs
        <5> QED
          BY <4>1, <5>1
      <4>3. tmp.profile.policies[i] \in DOMAIN tmp.cfg.policies
        BY <1>0, <4>2 DEF LoadInv, Points
      <4>4. p.policies[i] = Len(merged.cfg.policies) + tmp.profile.policies[i]
        BY <2>2 DEF MergedAs
      <4>5. /\ DOMAIN c.policies = 1 .. Len(c.policies) /\ DOMAIN tmp.cfg.policies = 1 .. Len(tmp.cfg.policies)
            /\ Len(merged.cfg.policies) \in Nat /\ Len(tmp.cfg.policies) \in Nat
        BY <4>1
      <4>6. Len(c.policies) = Len(merged.cfg.policies) + Len(tmp.cfg.policies)
        BY <2>1
      <4>7. PICK a \in Nat, b \in Nat : a = Len(merged.cfg.policies) /\ b = Len(tmp.cfg.policies)
        BY <4>5
      <4>8. DOMAIN c.policies = 1 .. (a + b) /\ tmp.profile.policies[i] \in 1 .. b
            /\ p.policies[i] = a + tmp.profile.policies[i]
        BY <4>3, <4>4, <4>5, <4>6, <4>7
      <4> QED
        BY <4>8
    <3> QED
      BY <3>1, <3>2 DEF Points
  <2>7. ASSUME NEW n \in DOMAIN merged.profiles PROVE Points(merged.profiles[n], c)
    <3>1. Points(merged.profiles[n], merged.cfg)
      BY <1>0 DEF MergedInv
    <3> QED
      BY <2>3, <3>1 DEF Points, Grown
  <2> HIDE DEF q
  <2>8. \A n \in DOMAIN q : Points(q[n], c)
    <3>1. \A n \in DOMAIN q : n \in DOMAIN merged.profiles \/ n = Len(merged.profiles) + 1
      BY <2>5
    <3> QED
      BY <2>5, <2>6, <2>7, <3>1
  <2>9. merged' = [cfg |-> c, profiles |-> q]
    BY <2>2 DEF q
  <2> QED
    BY <2>1, <2>5, <2>8, <2>9 DEF MergedInv
<1>2. ASSUME merged' = merged PROVE MergedInv'
  BY <1>0, <1>2 DEF MergedInv
<1>3. merged' = merged \/ Merge
  BY DEF BuildNext, build_vars, Edit, Verify, LoadLans, LoadWans, LoadProfile, OwnLans, OwnWans,
         OwnQueryFails, LoadPolicies, Fail
<1> QED
  BY <1>1, <1>2, <1>3

\* The lists of a loaded profile are read before its indices into them are made,
\* and the indices are moved along when the lists are merged.
THEOREM MergeTypeCorrect == BuildSpec => []MergeTypeInv
<1>1. MergeTypeInv /\ [BuildNext]_build_vars => MergeTypeInv'
  BY TablesStep, LoadStep, MergedStep DEF MergeTypeInv
<1> QED
  BY <1>1, BuildInitTyped, PTL DEF BuildSpec

\* Whatever the tables hold, and whatever changes between two queries: the merged
\* configuration keeps to its arrays, and no index of a profile leaves the list it
\* is for (config_load_from_db, merge_one_config).
THEOREM BuildTypesCorrect == BuildSpec => []BuildTypeOK
<1>1. MergeTypeInv => BuildTypeOK
  BY DEF MergeTypeInv, TablesInv, MergedInv, BuildTypeOK, Points, Step
<1> QED
  BY <1>1, MergeTypeCorrect, PTL

-----------------------------------------------------------------------------
(* ConfigMerge: wire ids *)

WireIdInv == Unique(merged.cfg.policies) /\ LoadedIdsByKey

IdsByKey(s) ==
  Cardinality(KeysOf(s)) <= KeyMapMax =>
    \A n, m \in DOMAIN s :
      s[n].key # "none" /\ s[m].key # "none" => (s[n].id = s[m].id <=> s[n].key = s[m].key)

LEMMA MarkedIdsByKey ==
  ASSUME NEW acc \in Acc, Marked(acc)
  PROVE  IdsByKey(acc.policies)
<1> DEFINE s == acc.policies
<1>1. SUFFICES ASSUME Cardinality(KeysOf(s)) <= KeyMapMax, NEW n \in DOMAIN s, NEW m \in DOMAIN s,
                      s[n].key # "none", s[m].key # "none"
               PROVE  s[n].id = s[m].id <=> s[n].key = s[m].key
  BY DEF IdsByKey
<1>2. DOMAIN acc.byKey = KeysOf(s) /\ s[n].id = acc.byKey[s[n].key] /\ s[m].id = acc.byKey[s[m].key]
  BY <1>1 DEF Marked
<1>3. s[n].key \in DOMAIN acc.byKey /\ s[m].key \in DOMAIN acc.byKey
  BY <1>1, <1>2 DEF KeysOf
<1>4. acc.byKey[s[n].key] = acc.byKey[s[m].key] => s[n].key = s[m].key
  BY <1>3 DEF Marked
<1> QED
  BY <1>2, <1>4

LEMMA PoliciesIdsByKey ==
  ASSUME NEW rows \in Seq(Row), Len(Policies(rows)) <= MaxPolicies
  PROVE  IdsByKey(Policies(rows))
BY PoliciesLoaded, LoadedMarked, MarkedIdsByKey

LEMMA EmptyIds == Unique(<<>>) /\ IdsByKey(<<>>)
<1>1. DOMAIN <<>> = {}
  OBVIOUS
<1> QED
  BY <1>1 DEF Unique, IdsByKey

LEMMA WireIdStep == MergeTypeInv /\ WireIdInv /\ [BuildNext]_build_vars => WireIdInv'
<1> SUFFICES ASSUME MergeTypeInv, WireIdInv, [BuildNext]_build_vars PROVE WireIdInv'
  OBVIOUS
<1>0. TablesInv /\ LoadInv /\ MergedInv
  BY DEF MergeTypeInv
<1>1. Unique(merged.cfg.policies)'
  <2>1. CASE Merge
    <3>1. PICK c : \E p :
                     /\ merged' = [cfg |-> c, profiles |-> Append(merged.profiles, p)]
                     /\ c.policies = PolicyMerge(merged.cfg.policies, tmp.cfg.policies)
                     /\ Len(c.policies) <= MaxPolicies
      BY <1>0, <2>1, MergedIs
    <3>2. merged.cfg.policies \in Seq(Wide) /\ tmp.cfg.policies \in Seq(Wide)
      BY <1>0, TmpIs DEF MergedInv, Config
    <3>3. PolicyMerged(c.policies, merged.cfg.policies, tmp.cfg.policies)
      BY <3>1, <3>2, PolicyMergeFacts, Zenon
    <3>4. Unique(c.policies)
      BY <3>1, <3>3 DEF PolicyMerged, WireIdInv
    <3>5. merged'.cfg.policies = c.policies
      BY <3>1
    <3> QED
      BY <3>4, <3>5
  <2>2. merged' = merged \/ Merge
    BY DEF BuildNext, build_vars, Edit, Verify, LoadLans, LoadWans, LoadProfile, OwnLans, OwnWans,
           OwnQueryFails, LoadPolicies, Fail
  <2> QED
    BY <2>1, <2>2 DEF WireIdInv
<1>2. LoadedIdsByKey'
  <2>1. CASE Verify
    <3>1. tmp'.cfg.policies = <<>>
      BY <2>1 DEF Verify, EmptyConfig
    <3>2. IdsByKey(tmp.cfg.policies)'
      BY <3>1, EmptyIds
    <3> QED
      BY <3>2 DEF IdsByKey, KeysOf, LoadedIdsByKey
  <2>2. CASE LoadPolicies
    <3>1. Rows.rows \in Seq(Row)
      BY <1>0, RowsTyped DEF Contained
    <3>2. Len(Policies(Rows.rows)) <= MaxPolicies
      BY <2>2 DEF LoadPolicies
    <3>3. PICK s : s = Policies(Rows.rows)
      OBVIOUS
    <3>4. IdsByKey(s)
      BY <3>1, <3>2, <3>3, PoliciesIdsByKey
    <3>5. tmp'.cfg.policies = s
      <4>1. tmp' = [tmp EXCEPT !.cfg.policies = s, !.profile.policies = [n \in DOMAIN s |-> n]]
        BY <2>2, <3>3 DEF LoadPolicies
      <4> QED
        BY <1>0, <4>1, TmpIs
    <3>6. IdsByKey(tmp.cfg.policies)'
      BY <3>4, <3>5
    <3> QED
      BY <3>6 DEF IdsByKey, KeysOf, LoadedIdsByKey
  <2>3. ASSUME tmp'.cfg.policies = tmp.cfg.policies PROVE LoadedIdsByKey'
    BY <2>3 DEF WireIdInv, LoadedIdsByKey
  <2>4. CASE LoadLans
    BY <1>0, <2>3, <2>4, TmpIs DEF LoadLans
  <2>5. CASE LoadWans
    BY <1>0, <2>3, <2>5, TmpIs DEF LoadWans
  <2>6. CASE OwnLans
    BY <1>0, <2>3, <2>6, TmpIs DEF OwnLans
  <2>7. CASE OwnWans
    BY <1>0, <2>3, <2>7, TmpIs DEF OwnWans
  <2>8. \/ tmp' = tmp \/ Verify \/ LoadLans \/ LoadWans \/ OwnLans \/ OwnWans \/ LoadPolicies
    BY DEF BuildNext, build_vars, Edit, LoadProfile, OwnQueryFails, Merge, Fail
  <2> QED
    BY <2>1, <2>2, <2>3, <2>4, <2>5, <2>6, <2>7, <2>8
<1> QED
  BY <1>1, <1>2 DEF WireIdInv

\* Two policies of the process never have the same wire id and each has one of a
\* byte (append_policy_unique); within a load, encrypting policies share an id
\* exactly when they share a key, unless the keys overflow their table
\* (ne_wire_id_for_encrypt_key).
THEOREM WireIdsCorrect == BuildSpec => []WireIdsAllocated
<1>1. BuildInit => WireIdInv
  <2> SUFFICES ASSUME BuildInit PROVE WireIdInv
    OBVIOUS
  <2>1. merged.cfg.policies = <<>> /\ tmp.cfg.policies = <<>>
    BY DEF BuildInit, EmptyConfig
  <2>2. IdsByKey(tmp.cfg.policies) /\ Unique(merged.cfg.policies)
    BY <2>1, EmptyIds
  <2> QED
    BY <2>2 DEF WireIdInv, IdsByKey, KeysOf, LoadedIdsByKey
<1>2. WireIdInv => WireIdsAllocated
  BY DEF WireIdInv, WireIdsAllocated, WireIdsUnique, Unique
<1> QED
  BY <1>1, <1>2, WireIdStep, MergeTypeCorrect, PTL DEF BuildSpec

-----------------------------------------------------------------------------
(* ConfigMerge: every profile gets what its rows say *)

\* What of the profile's rows has been read so far.
Progress ==
  /\ step \notin {"verify", "done", "failed"} => tmp.profile.id = ids[k]
  /\ step \in {"wans", "profile", "own lans", "own wans", "policies", "merge"} =>
       tmp.cfg.lans = Rows.lans
  /\ step \in {"profile", "own lans", "own wans", "policies", "merge"} => tmp.cfg.wans = Rows.wans
  /\ step \in {"own wans", "policies", "merge"} =>
       tmp.profile.lans = Indices(Rows.lans, Rows.lans)
  /\ step \in {"policies", "merge"} => tmp.profile.wans = Indices(Rows.wans, Rows.wans)
  /\ step = "merge" =>
       /\ tmp.cfg.policies = Policies(Rows.rows)
       /\ tmp.profile.policies = [n \in DOMAIN Policies(Rows.rows) |-> n]

NamesAt(list, ix) == [i \in DOMAIN ix |-> list[ix[i]]]

OriginsAt(ps, ix) == [i \in DOMAIN ix |-> Origin(ps[ix[i]])]

\* A profile p of the configuration c is what the tables hold of profile i.
IsOf(p, c, i) ==
  /\ p.id = i
  /\ NamesAt(c.lans, p.lans) = db[i].lans /\ NamesAt(c.wans, p.wans) = db[i].wans
  /\ OriginsAt(c.policies, p.policies) = Expected(db[i].rows)

Whole ==
  /\ Len(merged.profiles) = IF step = "done" THEN k ELSE k - 1
  /\ step = "done" => k = Len(ids)
  /\ \A n \in DOMAIN merged.profiles : n \in DOMAIN ids /\ IsOf(merged.profiles[n], merged.cfg, ids[n])

FaithfulInv == edits = 0 /\ ~skipped => Progress /\ Whole

LEMMA ProgressStep ==
  ASSUME MergeTypeInv, [BuildNext]_build_vars, edits = 0, ~skipped, Progress,
         edits' = 0, ~skipped'
  PROVE  Progress'
<1>0. /\ TablesInv /\ LoadInv
      /\ tmp = [cfg |-> tmp.cfg, profile |-> tmp.profile]
      /\ tmp.cfg = [lans |-> tmp.cfg.lans, wans |-> tmp.cfg.wans, policies |-> tmp.cfg.policies]
      /\ tmp.profile = [id |-> tmp.profile.id, lans |-> tmp.profile.lans,
                        wans |-> tmp.profile.wans, policies |-> tmp.profile.policies]
  BY TmpIs DEF MergeTypeInv
<1>1. ASSUME ~Edit, ~Merge, ~(UNCHANGED build_vars) PROVE db' = db /\ ids' = ids /\ k' = k
  BY <1>1 DEF BuildNext, Verify, LoadLans, LoadWans, LoadProfile, OwnLans, OwnWans,
              OwnQueryFails, LoadPolicies, Fail
<1>2. ASSUME ~Edit, ~Merge, ~(UNCHANGED build_vars) PROVE Rows' = Rows /\ ids'[k'] = ids[k]
  BY <1>1, <1>2 DEF Rows
<1>3. CASE Edit
  <2>1. edits \in Nat /\ edits' = edits + 1
    BY <1>0, <1>3 DEF TablesInv, Edit
  <2> QED
    BY <2>1
<1>4. CASE Merge
  <2>1. step' \in {"done", "verify"}
    BY <1>4 DEF Merge
  <2> QED
    BY <2>1 DEF Progress
<1>5. CASE UNCHANGED build_vars
  BY <1>5 DEF build_vars, Progress, Rows
<1> SUFFICES ASSUME ~Edit, ~Merge, ~(UNCHANGED build_vars) PROVE Progress'
  BY <1>3, <1>4, <1>5
<1>6. Rows' = Rows /\ ids'[k'] = ids[k]
  BY <1>2
<1>7. CASE Verify
  <2>1. step' = "lans" /\ tmp'.profile.id = ids[k]
    BY <1>7 DEF Verify, Goes, EmptyProfile
  <2> QED
    BY <1>6, <2>1 DEF Progress
<1>8. CASE LoadLans
  <2>1. step = "lans" /\ step' = "wans" /\ tmp' = [tmp EXCEPT !.cfg.lans = Rows.lans]
    BY <1>8 DEF LoadLans, Goes
  <2>2. tmp'.cfg.lans = Rows.lans /\ tmp'.profile = tmp.profile
    BY <1>0, <2>1
  <2> QED
    BY <1>6, <2>1, <2>2 DEF Progress
<1>9. CASE LoadWans
  <2>1. step = "wans" /\ step' = "profile" /\ tmp' = [tmp EXCEPT !.cfg.wans = Rows.wans]
    BY <1>9 DEF LoadWans, Goes
  <2>2. /\ tmp'.cfg.wans = Rows.wans /\ tmp'.cfg.lans = tmp.cfg.lans /\ tmp'.profile = tmp.profile
    BY <1>0, <2>1
  <2> QED
    BY <1>6, <2>1, <2>2 DEF Progress
<1>10. CASE LoadProfile
  <2>1. step = "profile" /\ step' = "own lans" /\ tmp' = tmp
    BY <1>10 DEF LoadProfile, Goes
  <2> QED
    BY <1>6, <2>1 DEF Progress
<1>11. CASE OwnLans
  <2>1. /\ step = "own lans" /\ step' = "own wans"
        /\ tmp' = [tmp EXCEPT !.profile.lans = Indices(tmp.cfg.lans, Rows.lans)]
    BY <1>11 DEF OwnLans, Goes
  <2>2. /\ tmp'.profile.lans = Indices(tmp.cfg.lans, Rows.lans)
        /\ tmp'.profile.id = tmp.profile.id /\ tmp'.cfg = tmp.cfg
    BY <1>0, <2>1
  <2>3. tmp.cfg.lans = Rows.lans /\ tmp.cfg.wans = Rows.wans /\ tmp.profile.id = ids[k]
    BY <2>1 DEF Progress
  <2> QED
    BY <1>6, <2>1, <2>2, <2>3 DEF Progress
<1>12. CASE OwnWans
  <2>1. /\ step = "own wans" /\ step' = "policies"
        /\ tmp' = [tmp EXCEPT !.profile.wans = Indices(tmp.cfg.wans, Rows.wans)]
    BY <1>12 DEF OwnWans, Goes
  <2>2. /\ tmp'.profile.wans = Indices(tmp.cfg.wans, Rows.wans)
        /\ tmp'.profile.lans = tmp.profile.lans
        /\ tmp'.profile.id = tmp.profile.id /\ tmp'.cfg = tmp.cfg
    BY <1>0, <2>1
  <2>3. /\ tmp.cfg.lans = Rows.lans /\ tmp.cfg.wans = Rows.wans /\ tmp.profile.id = ids[k]
        /\ tmp.profile.lans = Indices(Rows.lans, Rows.lans)
    BY <2>1 DEF Progress
  <2> QED
    BY <1>6, <2>1, <2>2, <2>3 DEF Progress
<1>13. CASE OwnQueryFails
  BY <1>13 DEF OwnQueryFails
<1>14. CASE LoadPolicies
  <2>1. PICK s : s = Policies(Rows.rows)
    OBVIOUS
  <2>2. PICK x : x = [n \in DOMAIN s |-> n]
    OBVIOUS
  <2>3. /\ step = "policies" /\ step' = "merge"
        /\ tmp' = [tmp EXCEPT !.cfg.policies = s, !.profile.policies = x]
    BY <1>14, <2>1, <2>2 DEF LoadPolicies, Goes
  <2>4. /\ tmp'.cfg.policies = s /\ tmp'.profile.policies = x
        /\ tmp'.cfg.lans = tmp.cfg.lans /\ tmp'.cfg.wans = tmp.cfg.wans
        /\ tmp'.profile.lans = tmp.profile.lans /\ tmp'.profile.wans = tmp.profile.wans
        /\ tmp'.profile.id = tmp.profile.id
    BY <1>0, <2>3
  <2>5. /\ tmp.cfg.lans = Rows.lans /\ tmp.cfg.wans = Rows.wans /\ tmp.profile.id = ids[k]
        /\ tmp.profile.lans = Indices(Rows.lans, Rows.lans)
        /\ tmp.profile.wans = Indices(Rows.wans, Rows.wans)
    BY <2>3 DEF Progress
  <2> QED
    BY <1>6, <2>1, <2>2, <2>3, <2>4, <2>5 DEF Progress
<1>15. CASE Fail
  <2>1. step' = "failed"
    BY <1>15 DEF Fail
  <2> QED
    BY <2>1 DEF Progress
<1> QED
  BY <1>7, <1>8, <1>9, <1>10, <1>11, <1>12, <1>13, <1>14, <1>15 DEF BuildNext

\* Indices that were made from a list and moved along name that list.
LEMMA NamesKept ==
  ASSUME NEW list \in Seq(Name), NEW own \in Seq(Name), NEW r,
         SameNames(r, list, Indices(own, own), own)
  PROVE  NamesAt(list, r) = own
<1> DEFINE ix == Indices(own, own)
<1>1. /\ ix \in Seq(Nat) /\ Len(ix) = Len(own) /\ \A n \in DOMAIN ix : own[ix[n]] = own[n]
  BY IndicesFacts
<1> HIDE DEF ix
<1>2. r \in Seq(Nat) /\ Len(r) = Len(ix) /\ \A i \in DOMAIN r : list[r[i]] = own[ix[i]]
  BY DEF SameNames, ix
<1>3. PICK m \in Nat : m = Len(own)
  OBVIOUS
<1>4. DOMAIN r = 1 .. m /\ DOMAIN ix = 1 .. m /\ own \in [1 .. m -> Name]
  BY <1>1, <1>2, <1>3
<1>5. \A i \in 1 .. m : list[r[i]] = own[i]
  BY <1>1, <1>2, <1>4
<1>6. NamesAt(list, r) = [i \in 1 .. m |-> list[r[i]]] /\ own = [i \in 1 .. m |-> own[i]]
  BY <1>4 DEF NamesAt
<1> QED
  BY <1>5, <1>6

\* What a profile that was merged before names stays what it was.
LEMMA OldKept ==
  ASSUME NEW c, NEW b, NEW p, NEW i, IsOf(p, b, i), Points(p, b),
         Grown(c.lans, b.lans), Grown(c.wans, b.wans), Grown(c.policies, b.policies)
  PROVE  IsOf(p, c, i)
<1>1. NamesAt(c.lans, p.lans) = NamesAt(b.lans, p.lans)
  <2>1. \A j \in DOMAIN p.lans : c.lans[p.lans[j]] = b.lans[p.lans[j]]
    BY DEF Points, Grown
  <2> QED
    BY <2>1 DEF NamesAt
<1>2. NamesAt(c.wans, p.wans) = NamesAt(b.wans, p.wans)
  <2>1. \A j \in DOMAIN p.wans : c.wans[p.wans[j]] = b.wans[p.wans[j]]
    BY DEF Points, Grown
  <2> QED
    BY <2>1 DEF NamesAt
<1>3. OriginsAt(c.policies, p.policies) = OriginsAt(b.policies, p.policies)
  <2>1. \A j \in DOMAIN p.policies : c.policies[p.policies[j]] = b.policies[p.policies[j]]
    BY DEF Points, Grown
  <2> QED
    BY <2>1 DEF OriginsAt
<1> QED
  BY <1>1, <1>2, <1>3 DEF IsOf

\* The profile that is merged now is what its rows say.
LEMMA NewFaithful ==
  ASSUME MergeTypeInv, Progress, step = "merge", NEW c \in Config, NEW p, MergedAs(p, c),
         c.policies = PolicyMerge(merged.cfg.policies, tmp.cfg.policies)
  PROVE  IsOf(p, c, ids[k])
<1>0. TablesInv /\ LoadInv /\ MergedInv
  BY DEF MergeTypeInv
<1>1. /\ ids[k] \in Id /\ Rows = db[ids[k]]
      /\ Rows.lans \in Seq(Name) /\ Rows.wans \in Seq(Name) /\ Rows.rows \in Seq(Row)
  BY <1>0, RowsTyped DEF Contained, Rows
<1>2. /\ tmp.profile.id = ids[k] /\ tmp.cfg.lans = Rows.lans /\ tmp.cfg.wans = Rows.wans
      /\ tmp.profile.lans = Indices(Rows.lans, Rows.lans)
      /\ tmp.profile.wans = Indices(Rows.wans, Rows.wans)
      /\ tmp.cfg.policies = Policies(Rows.rows)
      /\ tmp.profile.policies = [n \in DOMAIN Policies(Rows.rows) |-> n]
  BY DEF Progress
<1>3. c.lans \in Seq(Name) /\ c.wans \in Seq(Name) /\ c.policies \in Seq(Wide)
  BY DEF Config
<1>4. NamesAt(c.lans, p.lans) = Rows.lans /\ NamesAt(c.wans, p.wans) = Rows.wans
  <2>1. /\ SameNames(p.lans, c.lans, Indices(Rows.lans, Rows.lans), Rows.lans)
        /\ SameNames(p.wans, c.wans, Indices(Rows.wans, Rows.wans), Rows.wans)
    BY <1>2, Zenon DEF MergedAs
  <2> QED
    BY <1>1, <1>3, <2>1, NamesKept, Zenon
<1>5. OriginsAt(c.policies, p.policies) = Expected(Rows.rows)
  <2>1. PICK l : l = Policies(Rows.rows)
    OBVIOUS
  <2>2. l \in Seq(Wide) /\ Origins(l) = Expected(Rows.rows)
    BY <1>1, <2>1, PoliciesLoaded, LoadedExpected DEF Acc
  <2>3. merged.cfg.policies \in Seq(Wide)
    BY <1>0 DEF MergedInv, Config
  <2>4. PolicyMerged(c.policies, merged.cfg.policies, l)
    BY SMTT(30), <1>2, <2>1, <2>2, <2>3, PolicyMergeFacts
  <2>5. PICK m \in Nat : m = Len(l)
    BY <2>2
  <2>6. DOMAIN l = 1 .. m /\ Len([n \in DOMAIN l |-> n]) = m
    BY <2>2, <2>5, Numbered
  <2>7. p.policies \in Seq(Nat) /\ Len(p.policies) = m
    BY <1>2, <2>1, <2>6 DEF MergedAs, LoadedProfile
  <2>8. DOMAIN p.policies = 1 .. m
    BY <2>7
  <2>9. ASSUME NEW i \in 1 .. m PROVE Origin(c.policies[p.policies[i]]) = Origin(l[i])
    <3>1. tmp.profile.policies[i] = i
      BY <1>2, <2>1, <2>6
    <3>2. p.policies[i] = Len(merged.cfg.policies) + i
      BY <2>8, <3>1 DEF MergedAs
    <3>3. /\ c.policies[Len(merged.cfg.policies) + i].db_id = l[i].db_id
          /\ c.policies[Len(merged.cfg.policies) + i].key = l[i].key
      BY <2>4, <2>6 DEF PolicyMerged
    <3> QED
      BY <3>2, <3>3 DEF Origin
  <2>10. OriginsAt(c.policies, p.policies) = Origins(l)
    BY <2>6, <2>8, <2>9 DEF OriginsAt, Origins
  <2> QED
    BY <2>2, <2>10
<1>6. p.id = ids[k]
  BY <1>2 DEF MergedAs
<1> QED
  BY <1>1, <1>4, <1>5, <1>6 DEF IsOf

LEMMA WholeStep ==
  ASSUME MergeTypeInv, [BuildNext]_build_vars, Progress, Whole, ~Edit
  PROVE  Whole'
<1>0. /\ TablesInv /\ LoadInv /\ MergedInv /\ db' = db /\ ids' = ids
  <2>1. db' = db /\ ids' = ids
    BY DEF BuildNext, build_vars, Verify, LoadLans, LoadWans, LoadProfile, OwnLans, OwnWans,
           OwnQueryFails, LoadPolicies, Merge, Fail
  <2> QED
    BY <2>1 DEF MergeTypeInv
<1>1. CASE Merge
  <2>1. PICK c : \E p :
                   /\ merged' = [cfg |-> c, profiles |-> Append(merged.profiles, p)]
                   /\ c.lans = MergedNames(merged.cfg.lans, tmp.cfg.lans)
                   /\ c.wans = MergedNames(merged.cfg.wans, tmp.cfg.wans)
                   /\ c.policies = PolicyMerge(merged.cfg.policies, tmp.cfg.policies)
                   /\ c \in Config /\ MergedAs(p, c)
    BY <1>0, <1>1, MergedIs
  <2>2. PICK p : merged' = [cfg |-> c, profiles |-> Append(merged.profiles, p)] /\ MergedAs(p, c)
    BY <2>1
  <2>3. /\ Grown(c.lans, merged.cfg.lans) /\ Grown(c.wans, merged.cfg.wans)
        /\ Grown(c.policies, merged.cfg.policies)
    BY <1>0, <2>1, MergedGrows
  <2>4. step = "merge"
    BY <1>1 DEF Merge
  <2>5. IsOf(p, c, ids[k])
    BY <2>1, <2>2, <2>4, NewFaithful
  <2>6. \A n \in DOMAIN merged.profiles : n \in DOMAIN ids /\ IsOf(merged.profiles[n], c, ids[n])
    <3> SUFFICES ASSUME NEW n \in DOMAIN merged.profiles
                 PROVE  n \in DOMAIN ids /\ IsOf(merged.profiles[n], c, ids[n])
      OBVIOUS
    <3>1. n \in DOMAIN ids /\ IsOf(merged.profiles[n], merged.cfg, ids[n])
      BY DEF Whole
    <3>2. Points(merged.profiles[n], merged.cfg)
      BY <1>0 DEF MergedInv
    <3>3. IsOf(merged.profiles[n], c, ids[n])
      BY <2>3, <3>1, <3>2, OldKept
    <3> QED
      BY <3>1, <3>3
  <2> DEFINE s == merged.profiles
             q == Append(s, p)
  <2>7. s \in Seq(LoadedProfile) /\ p \in LoadedProfile
    BY <1>0, <2>2 DEF MergedInv, MergedAs
  <2> HIDE DEF s
  <2>8. /\ Len(s) \in Nat /\ Len(q) = Len(s) + 1 /\ DOMAIN s = 1 .. Len(s)
        /\ DOMAIN q = 1 .. (Len(s) + 1)
        /\ q[Len(s) + 1] = p /\ \A n \in DOMAIN s : q[n] = s[n]
    BY <2>7, Appended
  <2> HIDE DEF q
  <2>9. Len(s) = k - 1 /\ k \in Nat
    <3>1. Len(s) = k - 1
      BY <2>4 DEF Whole, s
    <3>2. DOMAIN ids = 1 .. Len(ids)
      BY <1>0 DEF TablesInv
    <3> QED
      BY <1>0, <3>1, <3>2 DEF TablesInv
  <2>10. Len(q) = k /\ \A n \in DOMAIN q : n \in DOMAIN s \/ n = k
    BY <2>8, <2>9
  <2>11. q[k] = p
    BY <2>8, <2>9
  <2>12. \A n \in DOMAIN q : n \in DOMAIN ids /\ IsOf(q[n], c, ids[n])
    BY <1>0, <2>5, <2>6, <2>8, <2>10, <2>11 DEF s, TablesInv
  <2>13. Len(q) = (IF step' = "done" THEN k' ELSE k' - 1) /\ (step' = "done" => k' = Len(ids))
    <3>1. /\ step' = IF k = Len(ids) THEN "done" ELSE "verify"
          /\ k' = IF k = Len(ids) THEN k ELSE k + 1
      BY <1>1 DEF Merge
    <3>2. CASE k = Len(ids)
      <4>1. step' = "done" /\ k' = k
        BY <3>1, <3>2
      <4> QED
        BY <2>10, <3>2, <4>1
    <3>3. CASE k # Len(ids)
      <4>1. step' # "done" /\ k' = k + 1
        BY <3>1, <3>3
      <4> QED
        BY <2>9, <2>10, <4>1
    <3> QED
      BY <3>2, <3>3
  <2>14. merged'.cfg = c /\ merged'.profiles = q
    BY <2>2 DEF q, s
  <2>15. \A n \in DOMAIN merged'.profiles :
           n \in DOMAIN ids' /\ IsOf(merged.profiles[n], merged.cfg, ids[n])'
    BY <1>0, <2>12, <2>14 DEF IsOf, NamesAt, OriginsAt
  <2> QED
    BY <1>0, <2>13, <2>14, <2>15 DEF Whole
<1>2. CASE ~Merge
  <2>1. merged' = merged /\ k' = k
    BY <1>2 DEF BuildNext, build_vars, Verify, LoadLans, LoadWans, LoadProfile, OwnLans, OwnWans,
           OwnQueryFails, LoadPolicies, Fail
  <2>2. (step = "done" /\ step' = "done") \/ (step # "done" /\ step' # "done")
    BY <1>2 DEF BuildNext, build_vars, Verify, LoadLans, LoadWans, LoadProfile, OwnLans, OwnWans,
           OwnQueryFails, LoadPolicies, Fail, Goes
  <2> QED
    BY <1>0, <2>1, <2>2 DEF Whole, IsOf
<1> QED
  BY <1>1, <1>2

LEMMA FaithfulStep ==
  MergeTypeInv /\ FaithfulInv /\ [BuildNext]_build_vars => FaithfulInv'
<1> SUFFICES ASSUME MergeTypeInv, FaithfulInv, [BuildNext]_build_vars, edits' = 0, ~skipped'
             PROVE  Progress' /\ Whole'
  BY DEF FaithfulInv
<1>1. ~Edit /\ edits = 0
  <2>1. ASSUME Edit PROVE FALSE
    <3>1. edits \in Nat /\ edits' = edits + 1
      BY <2>1 DEF Edit, MergeTypeInv, TablesInv
    <3> QED
      BY <3>1
  <2>2. edits' = edits
    BY <2>1 DEF BuildNext, build_vars, Verify, LoadLans, LoadWans, LoadProfile, OwnLans, OwnWans,
           OwnQueryFails, LoadPolicies, Merge, Fail
  <2> QED
    BY <2>1, <2>2
<1>2. ~skipped
  BY DEF BuildNext, build_vars, Edit, Verify, LoadLans, LoadWans, LoadProfile, OwnLans, OwnWans,
           OwnQueryFails, LoadPolicies, Merge, Fail, MergeTypeInv, TablesInv
<1>3. Progress /\ Whole
  BY <1>1, <1>2 DEF FaithfulInv
<1> QED
  BY <1>1, <1>2, <1>3, ProgressStep, WholeStep

\* When the tables stayed as they were and no query was skipped, every profile of
\* the merged configuration names exactly the interfaces and the policies of its
\* rows, in their order: local_map, wan_map and the policies' offset of
\* merge_one_config.
THEOREM ProfilesFaithfulCorrect == BuildSpec => []ProfilesFaithful
<1>1. BuildInit => FaithfulInv
  <2> SUFFICES ASSUME BuildInit PROVE Progress /\ Whole
    BY DEF FaithfulInv
  <2>1. step = "verify" /\ k = 1 /\ merged.profiles = <<>> /\ Len(<<>>) = 0 /\ DOMAIN <<>> = {}
    BY DEF BuildInit
  <2> QED
    BY <2>1 DEF Progress, Whole
<1>2. MergeTypeInv /\ FaithfulInv => ProfilesFaithful
  <2> SUFFICES ASSUME MergeTypeInv, FaithfulInv, step = "done", edits = 0, ~skipped
               PROVE  /\ Len(merged.profiles) = Len(ids)
                      /\ \A n \in DOMAIN ids :
                           LET p == merged.profiles[n]  ps == merged.cfg.policies  c == db[ids[n]]
                           IN  /\ p.id = ids[n]
                               /\ [i \in DOMAIN p.lans |-> merged.cfg.lans[p.lans[i]]] = c.lans
                               /\ [i \in DOMAIN p.wans |-> merged.cfg.wans[p.wans[i]]] = c.wans
                               /\ [i \in DOMAIN p.policies |->
                                     [db_id |-> ps[p.policies[i]].db_id, key |-> ps[p.policies[i]].key]]
                                    = Expected(c.rows)
    BY DEF ProfilesFaithful
  <2>1. Whole
    BY DEF FaithfulInv
  <2>2. Len(merged.profiles) = Len(ids)
    BY <2>1 DEF Whole
  <2>3. DOMAIN merged.profiles = DOMAIN ids
    <3>1. merged.profiles \in Seq(LoadedProfile) /\ ids \in Seq(Id)
      BY DEF MergeTypeInv, MergedInv, TablesInv
    <3> QED
      BY <2>2, <3>1
  <2>4. \A n \in DOMAIN ids : IsOf(merged.profiles[n], merged.cfg, ids[n])
    BY <2>1, <2>3 DEF Whole
  <2> QED
    BY <2>2, <2>4, Zenon DEF IsOf, NamesAt, OriginsAt, Origin
<1> QED
  BY <1>1, <1>2, FaithfulStep, MergeTypeCorrect, PTL DEF BuildSpec

-----------------------------------------------------------------------------
(* ConfigMerge: where every row encrypts with a key of its own, ids are kept *)

OwnRows == edits = 0 /\ \A n \in DOMAIN ids : OnePolicyPerKey(db[ids[n]])

\* A row of a profile that is merged already.
MergedRow(x) ==
  \E j \in DOMAIN ids :
    /\ j <= k /\ (j = k => step = "done")
    /\ \E r \in DOMAIN db[ids[j]].rows : x = db[ids[j]].rows[r].id

RowIdInv ==
  OwnRows =>
    /\ step = "merge" => tmp.cfg.policies = Policies(Rows.rows)
    /\ \A n \in DOMAIN merged.cfg.policies :
         /\ merged.cfg.policies[n].id = merged.cfg.policies[n].db_id
         /\ MergedRow(merged.cfg.policies[n].db_id)

\* The profile that is merged now has the ids of its rows, and no other has them.
LEMMA NewRows ==
  ASSUME MergeTypeInv, RowIdInv, OwnRows, step = "merge", NEW l, l = tmp.cfg.policies
  PROVE  /\ Unique(l) /\ \A n \in DOMAIN l : l[n].id \notin IdsOf(merged.cfg.policies)
         /\ DOMAIN l = DOMAIN Rows.rows
         /\ \A n \in DOMAIN l : l[n].id = Rows.rows[n].id /\ l[n].db_id = Rows.rows[n].id
<1> DEFINE rows == Rows.rows
<1>0. TablesInv
  BY DEF MergeTypeInv
<1>1. rows \in Seq(Row) /\ rows = db[ids[k]].rows /\ k \in DOMAIN ids /\ ids[k] \in Id
  BY <1>0, RowsTyped DEF Contained, Rows, TablesInv
<1>2. OwnIds(rows)
  <2>1. OnePolicyPerKey(db[ids[k]])
    BY <1>1 DEF OwnRows
  <2>2. \A r, s \in DOMAIN rows : rows[r].id = rows[s].id => r = s
    BY <1>0, <1>1 DEF TablesInv, PrimaryKey
  <2> QED
    BY <1>1, <2>1, <2>2 DEF OnePolicyPerKey, OwnIds
<1>3. l = Loaded(rows).policies
  BY PoliciesLoaded DEF RowIdInv
<1> HIDE DEF rows
<1>4. /\ l \in Seq(Wide) /\ Len(l) = Len(rows)
      /\ \A i \in DOMAIN rows : l[i] = [id |-> rows[i].id, db_id |-> rows[i].id, key |-> rows[i].key]
  BY <1>1, <1>2, <1>3, LoadedOwnIds, LoadedExpected DEF Acc
<1>5. DOMAIN l = DOMAIN rows
  <2>1. PICK m \in Nat : m = Len(l)
    BY <1>4
  <2> QED
    BY <1>1, <1>4, <2>1
<1>6. \A n \in DOMAIN l : l[n].id = rows[n].id /\ l[n].db_id = rows[n].id
  <2> SUFFICES ASSUME NEW n \in DOMAIN l PROVE l[n].id = rows[n].id /\ l[n].db_id = rows[n].id
    OBVIOUS
  <2>1. l[n] = [id |-> rows[n].id, db_id |-> rows[n].id, key |-> rows[n].key]
    BY <1>4, <1>5, Zenon
  <2> QED
    BY <2>1
<1>7. Unique(l)
  BY <1>2, <1>5, <1>6 DEF Unique, OwnIds
<1>8. ASSUME NEW n \in DOMAIN l, NEW m \in DOMAIN merged.cfg.policies,
             l[n].id = merged.cfg.policies[m].id
      PROVE  FALSE
  <2>1. merged.cfg.policies[m].id = merged.cfg.policies[m].db_id /\ MergedRow(merged.cfg.policies[m].db_id)
    BY DEF RowIdInv
  <2>2. PICK j \in DOMAIN ids : /\ j # k
                                /\ \E r \in DOMAIN db[ids[j]].rows : l[n].id = db[ids[j]].rows[r].id
    BY <1>8, <2>1 DEF MergedRow
  <2>3. PICK r \in DOMAIN db[ids[j]].rows : rows[n].id = db[ids[j]].rows[r].id
    BY <1>6, <2>2
  <2>4. ids[j] \in Id /\ ids[j] # ids[k]
    BY <1>0, <1>1, <2>2 DEF TablesInv
  <2>5. n \in DOMAIN db[ids[k]].rows /\ rows[n] = db[ids[k]].rows[n]
    BY <1>1, <1>5
  <2> QED
    BY <1>0, <1>1, <2>3, <2>4, <2>5 DEF TablesInv, PrimaryKey
<1>9. \A n \in DOMAIN l : l[n].id \notin IdsOf(merged.cfg.policies)
  BY <1>8 DEF IdsOf
<1> QED
  BY <1>5, <1>6, <1>7, <1>9 DEF rows

LEMMA RowIdStep == MergeTypeInv /\ RowIdInv /\ [BuildNext]_build_vars => RowIdInv'
<1> SUFFICES ASSUME MergeTypeInv, RowIdInv, [BuildNext]_build_vars, OwnRows' PROVE
               /\ step' = "merge" => tmp'.cfg.policies = Policies(Rows.rows)'
               /\ \A n \in DOMAIN merged'.cfg.policies :
                    /\ merged'.cfg.policies[n].id = merged'.cfg.policies[n].db_id
                    /\ MergedRow(merged.cfg.policies[n].db_id)'
  BY DEF RowIdInv
<1>0. TablesInv /\ LoadInv /\ MergedInv
  BY DEF MergeTypeInv
<1>1. ~Edit
  <2>1. SUFFICES ASSUME Edit PROVE FALSE
    OBVIOUS
  <2>2. edits \in Nat /\ edits' = edits + 1
    BY <1>0, <2>1 DEF Edit, TablesInv
  <2> QED
    BY <2>2 DEF OwnRows
<1>2. db' = db /\ ids' = ids /\ edits' = edits
  BY <1>1 DEF BuildNext, build_vars, Verify, LoadLans, LoadWans, LoadProfile, OwnLans, OwnWans,
         OwnQueryFails, LoadPolicies, Merge, Fail
<1>3. OwnRows
  BY <1>2 DEF OwnRows, OnePolicyPerKey
<1>4. CASE Merge
  <2>1. step = "merge" /\ step' # "merge"
    BY <1>4 DEF Merge
  <2>2. PICK c : \E p : /\ merged' = [cfg |-> c, profiles |-> Append(merged.profiles, p)]
                        /\ c.policies = PolicyMerge(merged.cfg.policies, tmp.cfg.policies)
                        /\ c \in Config
    BY <1>0, <1>4, MergedIs
  <2>3. merged'.cfg = c
    BY <2>2
  <2>4. PICK s : s = merged.cfg.policies
    OBVIOUS
  <2>5. PICK l : l = tmp.cfg.policies
    OBVIOUS
  <2>6. PICK q : q = c.policies
    OBVIOUS
  <2>7. s \in Seq(Wide) /\ l \in Seq(Wide) /\ q \in Seq(Wide) /\ q = PolicyMerge(s, l)
    BY <1>0, <2>2, <2>4, <2>5, <2>6, TmpIs DEF MergedInv, Config
  <2>8. PolicyMerged(q, s, l)
    BY <2>7, PolicyMergeFacts, Zenon
  <2>9. /\ Unique(l) /\ \A n \in DOMAIN l : l[n].id \notin IdsOf(s)
        /\ DOMAIN l = DOMAIN Rows.rows
        /\ \A n \in DOMAIN l : l[n].id = Rows.rows[n].id /\ l[n].db_id = Rows.rows[n].id
    BY <1>3, <2>1, <2>4, <2>5, NewRows
  <2>10. PICK a \in Nat, b \in Nat : a = Len(s) /\ b = Len(l)
    BY <2>7
  <2>11. DOMAIN s = 1 .. a /\ DOMAIN l = 1 .. b /\ DOMAIN q = 1 .. (a + b)
    BY <2>7, <2>8, <2>10 DEF PolicyMerged
  <2>12. /\ step' = IF k = Len(ids) THEN "done" ELSE "verify"
         /\ k' = IF k = Len(ids) THEN k ELSE k + 1
    BY <1>4 DEF Merge
  <2>13. k \in DOMAIN ids /\ k \in Nat /\ \A j \in DOMAIN ids : j \in Nat
    <3>1. DOMAIN ids = 1 .. Len(ids)
      BY <1>0 DEF TablesInv
    <3> QED
      BY <1>0, <3>1 DEF TablesInv
  <2>14. (step' = "done" /\ k' = k) \/ (k' = k + 1)
    BY <2>12
  <2>15. ASSUME NEW x, MergedRow(x) PROVE MergedRow(x)'
    <3>1. PICK j \in DOMAIN ids : j <= k /\ j # k
                                  /\ \E r \in DOMAIN db[ids[j]].rows : x = db[ids[j]].rows[r].id
      BY <2>1, <2>15 DEF MergedRow
    <3>2. j <= k' /\ j # k'
      BY <2>13, <2>14, <3>1
    <3> QED
      BY <1>2, <3>1, <3>2 DEF MergedRow
  <2>16. ASSUME NEW n \in DOMAIN l PROVE MergedRow(l[n].db_id)'
    <3>1. n \in DOMAIN db[ids[k]].rows /\ l[n].db_id = db[ids[k]].rows[n].id
      BY <2>9 DEF Rows
    <3>2. k <= k' /\ (k = k' => step' = "done")
      BY <2>13, <2>14
    <3> QED
      BY <1>2, <2>13, <3>1, <3>2 DEF MergedRow
  <2>17. ASSUME NEW n \in DOMAIN q PROVE q[n].id = q[n].db_id /\ MergedRow(q[n].db_id)'
    <3>1. CASE n \in 1 .. a
      <4>1. q[n] = s[n]
        BY <2>8, <2>11, <3>1 DEF PolicyMerged, Grown
      <4>2. s[n].id = s[n].db_id /\ MergedRow(s[n].db_id)
        BY <1>3, <2>4, <2>11, <3>1 DEF RowIdInv
      <4>3. MergedRow(s[n].db_id)'
        BY <2>15, <4>2
      <4> QED
        BY <4>1, <4>2, <4>3
    <3>2. CASE n \notin 1 .. a
      <4>1. PICK i \in 1 .. b : n = a + i
        <5>1. n - a \in 1 .. b /\ n = a + (n - a)
          BY <2>11, <3>2
        <5> QED
          BY <5>1
      <4>2. q[n].db_id = l[i].db_id /\ q[n].id = l[i].id
        BY <2>8, <2>9, <2>10, <2>11, <4>1 DEF PolicyMerged
      <4>3. l[i].db_id = l[i].id /\ MergedRow(l[i].db_id)'
        BY <2>9, <2>11, <2>16
      <4> QED
        BY <4>2, <4>3
    <3> QED
      BY <3>1, <3>2
  <2>18. merged'.cfg.policies = q
    BY <2>3, <2>6
  <2> QED
    BY <2>1, <2>17, <2>18
<1>5. CASE ~Merge
  <2>1. /\ merged' = merged /\ k' = k
        /\ (step = "done" /\ step' = "done") \/ (step # "done" /\ step' # "done")
    BY <1>1, <1>5 DEF BuildNext, build_vars, Verify, LoadLans, LoadWans, LoadProfile, OwnLans, OwnWans,
           OwnQueryFails, LoadPolicies, Fail, Goes
  <2>2. \A x : MergedRow(x) => MergedRow(x)'
    BY <1>2, <2>1 DEF MergedRow
  <2>3. Rows' = Rows
    BY <1>2, <2>1 DEF Rows
  <2>4. ASSUME step' = "merge" PROVE tmp'.cfg.policies = Policies(Rows.rows)'
    <3>1. CASE LoadPolicies
      <4>1. PICK s : s = Policies(Rows.rows)
        OBVIOUS
      <4>2. tmp' = [tmp EXCEPT !.cfg.policies = s, !.profile.policies = [n \in DOMAIN s |-> n]]
        BY <3>1, <4>1 DEF LoadPolicies
      <4>3. tmp'.cfg.policies = s
        BY <1>0, <4>2, TmpIs
      <4> QED
        BY <2>3, <4>1, <4>3
    <3>2. CASE ~LoadPolicies
      <4>1. tmp' = tmp /\ step = "merge"
        BY <1>1, <1>5, <2>4, <3>2 DEF BuildNext, build_vars, Verify, LoadLans, LoadWans, LoadProfile,
               OwnLans, OwnWans, OwnQueryFails, Fail, Goes
      <4> QED
        BY <1>3, <2>3, <4>1 DEF RowIdInv
    <3> QED
      BY <3>1, <3>2
  <2> QED
    BY <1>3, <2>1, <2>2, <2>4 DEF RowIdInv
<1> QED
  BY <1>4, <1>5

\* Where every row encrypts with a key of its own, alloc_wire_policy_id and
\* append_policy_unique leave every policy the id of its row, whichever profiles
\* are active and in whatever order.
THEOREM RowIdsKeptCorrect == BuildSpec => []RowIdsKept
<1>1. BuildInit => RowIdInv
  BY DEF BuildInit, RowIdInv, EmptyConfig
<1>2. RowIdInv => RowIdsKept
  BY DEF RowIdInv, OwnRows, RowIdsKept
<1> QED
  BY <1>1, <1>2, RowIdStep, MergeTypeCorrect, PTL DEF BuildSpec

=============================================================================
