------------------------- MODULE RelayRoutesProofs -------------------------
(***************************************************************************)
(* The routing table (RelayRoutes) finds the most specific line and the    *)
(* first of the cheapest relays, for every text, address and list; and     *)
(* pick (RelaySelect) chooses by the lines of the files in force, for any  *)
(* number of callers.                                                      *)
(***************************************************************************)
EXTENDS RelaySelect, FiniteSetTheorems, SequenceTheorems, TLAPS

(* The provers are given time: SMT first, then Zenon.                      *)
USE SMTT(40), ZenonT(40)

-----------------------------------------------------------------------------
(* A set of numbers has a least one.                                       *)
LEMMA FirstOfSome ==
    ASSUME NEW S \in SUBSET Nat, S # {}
    PROVE  \E m \in S : \A j \in S : m <= j
<1> DEFINE R == {ss \in Nat \X Nat : ss[1] < ss[2]}
<1>1. IsWellFoundedOn(R, Nat)
  BY NatLessThanWellFounded DEF OpToRel
<1>2. ASSUME NEW x \in Nat, NEW y \in Nat, y < x PROVE <<y, x>> \in R
  <2>1. <<y, x>> \in Nat \X Nat /\ <<y, x>>[1] = y /\ <<y, x>>[2] = x
    OBVIOUS
  <2> QED BY <1>2, <2>1, Zenon
<1> HIDE DEF R
<1>3. PICK m \in S : \A j \in S : ~ (<<j, m>> \in R)
  BY <1>1, WFMin, Zenon
<1>4. \A j \in S : ~ (j < m)
  BY <1>2, <1>3, Zenon
<1> QED BY <1>3, <1>4

-----------------------------------------------------------------------------
(* A text whose prefixes are numbers.                                      *)
Prefixed(text) == Len(text) \in Nat /\ \A i \in 1..Len(text) : text[i].net.prefix \in Nat

(* The order in which parse puts the lines i and j of a text.              *)
Before(text, i, j) ==
    \/ text[i].net.prefix > text[j].net.prefix
    \/ text[i].net.prefix = text[j].net.prefix /\ i < j

(* There is a way to sort the lines: a line goes where as many lines are   *)
(* before it.                                                              *)
LEMMA CanBeSorted ==
    ASSUME NEW text, Prefixed(text)
    PROVE  \E p \in [1..Len(text) -> 1..Len(text)] : Sorts(p, text)
<1> DEFINE n == Len(text)
           N == 1..n
           D(i) == {j \in N : j = i \/ Before(text, j, i)}
           rank == [i \in N |-> Cardinality(D(i))]
<1>1. n \in Nat /\ IsFiniteSet(N) /\ Cardinality(N) = n
  <2>1. n \in Nat /\ 1 \in Int /\ n \in Int
    BY DEF Prefixed
  <2>2. IsFiniteSet(1..n) /\ Cardinality(1..n) = IF 1 > n THEN 0 ELSE n - 1 + 1
    BY <2>1, FS_Interval, Zenon
  <2> QED BY <2>1, <2>2
<1>2. ASSUME NEW i \in N PROVE IsFiniteSet(D(i)) /\ Cardinality(D(i)) \in Nat /\ rank[i] \in N
  <2>1. D(i) \in SUBSET N /\ D(i) # {}
    OBVIOUS
  <2> HIDE DEF D, N
  <2>2. IsFiniteSet(D(i)) /\ Cardinality(D(i)) \in Nat /\ Cardinality(D(i)) <= n /\ Cardinality(D(i)) # 0
    BY <1>1, <2>1, FS_Subset, FS_EmptySet, FS_CardinalityType
  <2> QED BY <1>1, <2>2 DEF N
<1>3. ASSUME NEW i \in N, NEW j \in N, Before(text, i, j) PROVE rank[i] < rank[j]
  <2>0. \A k \in N : text[k].net.prefix \in Nat /\ k \in Nat
    BY <1>1 DEF Prefixed
  <2>00. \A k \in N : Before(text, k, i) => Before(text, k, j)
    BY <1>3, <2>0 DEF Before
  <2>1. \A k \in N : k \in D(i) => k \in D(j)
    BY <1>3, <2>00
  <2>2. D(i) \in SUBSET D(j) /\ j \in D(j) /\ j \notin D(i)
    BY <1>1, <1>3, <2>1 DEF Before, Prefixed
  <2> HIDE DEF D
  <2>3. IsFiniteSet(D(j)) /\ Cardinality(D(i)) \in Nat /\ Cardinality(D(j)) \in Nat
    BY <1>2
  <2>4. Cardinality(D(i)) <= Cardinality(D(j)) /\ Cardinality(D(j)) # Cardinality(D(i))
    BY <2>2, <2>3, FS_Subset
  <2> QED BY <2>3, <2>4
<1>4. ASSUME NEW i \in N, NEW j \in N, i # j PROVE Before(text, i, j) \/ Before(text, j, i)
  BY <1>1, <1>4 DEF Before, Prefixed
<1> HIDE DEF D, rank
<1>5. rank \in [N -> N] /\ \A i, j \in N : rank[i] = rank[j] => i = j
  <2>1. rank \in [N -> N]
    BY <1>2 DEF rank
  <2>2. \A i, j \in N : rank[i] \in Nat
    BY <1>1, <2>1
  <2> QED BY <1>3, <1>4, <2>1, <2>2
<1>6. \A r \in N : \E i \in N : rank[i] = r
  <2> HIDE DEF N
  <2>1. rank \in Injection(N, N)
    BY <1>5 DEF Injection, IsInjective
  <2>2. rank \in Surjection(N, N)
    BY <1>1, <2>1, FS_Injection
  <2> QED BY <2>2 DEF Surjection
<1> DEFINE p == [r \in N |-> CHOOSE i \in N : rank[i] = r]
<1>7. p \in [N -> N] /\ \A r \in N : rank[p[r]] = r
  BY <1>6, Zenon
<1>8. \A i, j \in N : i # j => p[i] # p[j]
  BY <1>7, Zenon
<1>9. ASSUME NEW i \in N, NEW j \in N, i < j PROVE Before(text, p[i], p[j])
  <2>1. p[i] # p[j] /\ p[i] \in N /\ p[j] \in N /\ rank[p[i]] = i /\ rank[p[j]] = j
    <3>1. i # j
      BY <1>1, <1>9
    <3> HIDE DEF p
    <3> QED BY <1>7, <1>8, <3>1
  <2> HIDE DEF p
  <2>2. ASSUME Before(text, p[j], p[i]) PROVE FALSE
    <3>1. rank[p[j]] < rank[p[i]]
      BY <1>3, <2>1, <2>2, ZenonT(40)
    <3> QED BY <1>1, <1>9, <2>1, <3>1
  <2> QED BY <1>4, <2>1, <2>2
<1> QED BY <1>7, <1>8, <1>9, ZenonT(40) DEF Sorts, Before

LEMMA SortedIs ==
    ASSUME NEW L, NEW text \in Seq(L), Prefixed(text)
    PROVE  \E p \in [1..Len(text) -> 1..Len(text)] :
              /\ Sorts(p, text)
              /\ \A k \in 1..Len(text) : \E i \in 1..Len(text) : p[i] = k
              /\ Sorted(text) = [i \in 1..Len(text) |-> text[p[i]]]
              /\ Len(Sorted(text)) = Len(text)
<1> DEFINE N == 1..Len(text)
           p == CHOOSE q \in [N -> N] : Sorts(q, text)
<1>1. p \in [N -> N] /\ Sorts(p, text)
  BY CanBeSorted
<1>2. Sorted(text) = [i \in N |-> text[p[i]]]
  BY DEF Sorted
<1>3. Len(text) \in Nat /\ \A i \in N : text[i] \in L
  OBVIOUS
<1>4. IsFiniteSet(N) /\ Cardinality(N) \in Nat
  <2>1. 1 \in Int /\ Len(text) \in Int
    BY <1>3
  <2> QED BY <2>1, FS_Interval, FS_CardinalityType
<1> HIDE DEF p
<1>5. Len(Sorted(text)) = Len(text)
  <2>1. Sorted(text) \in [N -> L]
    BY <1>1, <1>2, <1>3
  <2> QED BY <1>3, <2>1
<1>6. \A k \in N : \E i \in N : p[i] = k
  <2>1. \A i, j \in N : i # j => p[i] # p[j]
    BY <1>1 DEF Sorts
  <2> HIDE DEF N
  <2>2. p \in Injection(N, N)
    BY <1>1, <2>1 DEF Injection, IsInjective
  <2>3. p \in Surjection(N, N)
    BY <1>4, <2>2, FS_Injection
  <2> QED BY <2>3 DEF Surjection
<1> QED BY <1>1, <1>2, <1>5, <1>6, ZenonT(40)

(* The lines of a routing table.                                           *)
IsLines(L) == NoRule \notin L /\ \A l \in L : l.net.prefix \in Nat

(* "the most specific rule wins": lookup finds the line with the longest   *)
(* prefix of those that contain an address, wherever it stands in the      *)
(* file, in any text that parse takes; and there is only one such line     *)
(* (RouteTable::parse, costs_for).                                         *)
THEOREM LongestPrefix ==
    ASSUME NEW L, IsLines(L), NEW text \in Seq(L), ~ Refused(text), NEW ip
    PROVE  /\ Hits(text, ip) = {} => lookup(parse(text), ip) = NoRule
           /\ Hits(text, ip) # {} =>
                 \E i \in 1..Len(text) :
                     /\ MostSpecific(text, ip, i) /\ lookup(parse(text), ip) = text[i]
                     /\ \A j \in 1..Len(text) : MostSpecific(text, ip, j) => j = i
<1> DEFINE N == 1..Len(text)
           rules == Sorted(text)
<1>0. parse(text) = rules
  BY DEF parse
<1>1. Prefixed(text)
  BY DEF Prefixed, IsLines
<1>2. PICK p \in [N -> N] :
         /\ Sorts(p, text) /\ \A k \in N : \E i \in N : p[i] = k
         /\ rules = [i \in N |-> text[p[i]]] /\ Len(rules) = Len(text)
  BY <1>1, SortedIs, ZenonT(40)
<1>3. \A i \in N : i \in Hits(rules, ip) <=> p[i] \in Hits(text, ip)
  BY <1>2, ZenonT(40) DEF Hits
<1>4. Hits(rules, ip) \subseteq N /\ Hits(text, ip) \subseteq N
  BY <1>2 DEF Hits
<1> HIDE DEF rules
<1>5. CASE Hits(text, ip) = {}
  <2>1. Hits(rules, ip) = {}
    BY <1>2, <1>3, <1>4, <1>5, ZenonT(40)
  <2> QED BY <1>0, <1>5, <2>1 DEF lookup
<1>6. CASE Hits(text, ip) # {}
  <2>1. Hits(rules, ip) # {}
    <3>1. PICK k \in N : k \in Hits(text, ip)
      BY <1>4, <1>6
    <3>2. PICK i \in N : p[i] = k
      BY <1>2
    <3> QED BY <1>3, <3>1, <3>2
  <2>2. Hits(rules, ip) \in SUBSET Nat
    BY <1>1, <1>4 DEF Prefixed
  <2>3. \E m \in Hits(rules, ip) : \A j \in Hits(rules, ip) : m <= j
    BY <2>1, <2>2, FirstOfSome, ZenonT(40)
  <2> DEFINE m == CHOOSE i \in Hits(rules, ip) : \A j \in Hits(rules, ip) : i <= j
  <2>4. /\ m \in Hits(rules, ip) /\ \A j \in Hits(rules, ip) : m <= j
        /\ lookup(rules, ip) = rules[m]
    BY <2>1, <2>3 DEF lookup
  <2> HIDE DEF m
  <2>5. m \in N /\ p[m] \in Hits(text, ip) /\ p[m] \in N /\ lookup(rules, ip) = text[p[m]]
    BY <1>2, <1>3, <1>4, <2>4, ZenonT(40)
  <2>6. ASSUME NEW j \in Hits(text, ip) PROVE text[j].net.prefix <= text[p[m]].net.prefix
    <3>1. PICK k \in N : p[k] = j
      BY <1>2, <1>4
    <3>2. m <= k
      BY <1>3, <2>4, <3>1
    <3>3. m = k \/ m < k
      BY <1>1, <2>5, <3>2 DEF Prefixed
    <3>4. text[j].net.prefix \in Nat /\ text[p[m]].net.prefix \in Nat
      BY <1>1, <1>4, <2>5, ZenonT(40) DEF Prefixed
    <3>5. m < k => \/ text[p[m]].net.prefix > text[j].net.prefix
                   \/ text[p[m]].net.prefix = text[j].net.prefix
      BY <1>2, <2>5, <3>1, ZenonT(40) DEF Sorts
    <3> QED BY <3>1, <3>3, <3>4, <3>5
  <2>7. MostSpecific(text, ip, p[m])
    BY <2>5, <2>6 DEF MostSpecific
  <2>8. ASSUME NEW j \in N, MostSpecific(text, ip, j) PROVE j = p[m]
    <3>1. text[j].net.prefix = text[p[m]].net.prefix
      BY <1>1, <1>4, <2>5, <2>7, <2>8 DEF MostSpecific, Prefixed
    <3>2. SameNet(text[j].net, text[p[m]].net) /\ SameNet(text[p[m]].net, text[j].net)
      BY <2>5, <2>8, <3>1, ZenonT(40) DEF MostSpecific, Hits, Contains, SameNet
    <3>3. j < p[m] \/ p[m] < j \/ j = p[m]
      BY <1>1, <2>5 DEF Prefixed
    <3> HIDE DEF N
    <3>4. \A a, b \in N : a < b => ~ SameNet(text[a].net, text[b].net)
      BY DEF Refused, N
    <3> QED BY <2>5, <3>2, <3>3, <3>4
  <2> QED BY <1>0, <1>6, <2>5, <2>7, <2>8, ZenonT(40)
<1> QED BY <1>5, <1>6

-----------------------------------------------------------------------------
(* The loop of choose_from: what it keeps after looking at the relays 1..i.*)
Better(h, k, i, b) == IF Total(k, h[i]) < Total(k, h[b]) THEN i ELSE b
Keeps(f, h, k, n) == f = [i \in 1..n |-> IF i = 1 THEN 1 ELSE Better(h, k, i, f[i - 1])]

(* There is such a function, for every length.                             *)
LEMMA LoopIsDefined == ASSUME NEW h, NEW known, NEW n \in Nat PROVE \E f : Keeps(f, h, known, n)
<1> DEFINE S == {k \in Nat : ~ \E f : Keeps(f, h, known, k)}
<1> SUFFICES ASSUME S # {} PROVE FALSE
  OBVIOUS
<1>1. PICK m \in S : \A j \in S : m <= j
  <2>1. S \in SUBSET Nat
    OBVIOUS
  <2> HIDE DEF S
  <2> QED BY <2>1, FirstOfSome
<1>2. m # 0
  <2>1. Keeps([i \in 1..0 |-> IF i = 1 THEN 1 ELSE 0], h, known, 0)
    BY DEF Keeps
  <2> QED BY <1>1, <2>1
<1>3. m \in Nat /\ m - 1 \in Nat /\ m - 1 \notin S
  BY <1>1, <1>2
<1>4. PICK f : Keeps(f, h, known, m - 1)
  BY <1>3
<1> DEFINE v == IF m = 1 THEN 1 ELSE Better(h, known, m, f[m - 1])
           g == [i \in 1..m |-> IF i = m THEN v ELSE f[i]]
<1>5. ASSUME NEW i \in 1..m PROVE g[i] = IF i = 1 THEN 1 ELSE Better(h, known, i, g[i - 1])
  <2>1. CASE i = m
    <3>1. i # 1 => i - 1 \in 1..m /\ i - 1 # m
      BY <1>3
    <3> QED BY <2>1, <3>1
  <2>2. CASE i # m
    <3>1. i \in 1..(m - 1) /\ (i # 1 => i - 1 \in 1..m /\ i - 1 # m)
      BY <1>3, <2>2
    <3>2. f[i] = IF i = 1 THEN 1 ELSE Better(h, known, i, f[i - 1])
      BY <1>4, <3>1, ZenonT(40) DEF Keeps
    <3> QED BY <2>2, <3>1, <3>2, ZenonT(40)
  <2> QED BY <2>1, <2>2, ZenonT(40)
<1>6. Keeps(g, h, known, m)
  <2> HIDE DEF v
  <2>1. g = [i \in 1..m |-> IF i = 1 THEN 1 ELSE Better(h, known, i, g[i - 1])]
    BY <1>5
  <2> QED BY <2>1 DEF Keeps
<1> QED BY <1>1, <1>6

(* It keeps one of the relays it has looked at ...                         *)
LEMMA LoopKeepsOne ==
    ASSUME NEW h, NEW known, NEW n \in Nat, NEW f, Keeps(f, h, known, n), NEW i \in 1..n
    PROVE  f[i] \in 1..i
<1> DEFINE S == {k \in 1..n : f[k] \notin 1..k}
<1> SUFFICES ASSUME S # {} PROVE FALSE
  OBVIOUS
<1>1. PICK m \in S : \A j \in S : m <= j
  <2>1. S \in SUBSET Nat
    OBVIOUS
  <2> HIDE DEF S
  <2> QED BY <2>1, FirstOfSome
<1>2. m \in 1..n /\ f[m] = IF m = 1 THEN 1 ELSE Better(h, known, m, f[m - 1])
  BY <1>1 DEF Keeps
<1>3. m # 1 => m - 1 \in 1..n /\ f[m - 1] \in 1..(m - 1)
  BY <1>1, <1>2
<1> QED BY <1>1, <1>2, <1>3 DEF Better

(* ... the first of the cheapest.                                          *)
LEMMA LoopKeepsCheapest ==
    ASSUME NEW h, NEW known, NEW n \in Nat, \A r \in 1..n : Total(known, h[r]) \in Nat,
           NEW f, Keeps(f, h, known, n),
           NEW i \in 1..n, NEW j \in 1..i
    PROVE  \/ Total(known, h[f[i]]) < Total(known, h[j])
           \/ Total(known, h[f[i]]) = Total(known, h[j]) /\ f[i] <= j
<1> DEFINE P(k) == \A l \in 1..k :
                      \/ Total(known, h[f[k]]) < Total(known, h[l])
                      \/ Total(known, h[f[k]]) = Total(known, h[l]) /\ f[k] <= l
           S == {k \in 1..n : ~ P(k)}
<1> SUFFICES ASSUME S # {} PROVE FALSE
  OBVIOUS
<1>1. PICK m \in S : \A k \in S : m <= k
  <2>1. S \in SUBSET Nat
    OBVIOUS
  <2> HIDE DEF S
  <2> QED BY <2>1, FirstOfSome
<1>2. m \in 1..n /\ f[m] = IF m = 1 THEN 1 ELSE Better(h, known, m, f[m - 1])
  BY <1>1, Zenon DEF Keeps
<1>3. \A k \in 1..n : f[k] \in 1..k
  BY LoopKeepsOne
<1>4. CASE m = 1
  BY <1>1, <1>2, <1>4
<1>5. CASE m # 1
  <2>1. m - 1 \in 1..n /\ P(m - 1)
    BY <1>1, <1>2, <1>5
  <2> DEFINE b == f[m - 1]
  <2>2. b \in 1..(m - 1)
    BY <1>3, <2>1
  <2>3. b \in 1..n /\ b < m /\ Total(known, h[b]) \in Nat /\ Total(known, h[m]) \in Nat
    BY <1>2, <2>2
  <2>4. \A l \in 1..(m - 1) :
           /\ Total(known, h[l]) \in Nat
           /\ \/ Total(known, h[b]) < Total(known, h[l])
              \/ Total(known, h[b]) = Total(known, h[l]) /\ b <= l
    BY <1>2, <2>1
  <2> HIDE DEF b
  <2>5. ASSUME NEW l \in 1..m
        PROVE  \/ Total(known, h[f[m]]) < Total(known, h[l])
               \/ Total(known, h[f[m]]) = Total(known, h[l]) /\ f[m] <= l
    <3>1. CASE Total(known, h[m]) < Total(known, h[b])
      <4>1. f[m] = m
        BY <1>2, <1>5, <3>1, ZenonT(40) DEF Better, b
      <4>2. CASE l = m
        BY <2>3, <4>1, <4>2
      <4>3. CASE l # m
        <5>1. l \in 1..(m - 1)
          BY <1>2, <4>3
        <5> QED BY <2>3, <2>4, <3>1, <4>1, <5>1
      <4> QED BY <4>2, <4>3, ZenonT(40)
    <3>2. CASE ~ (Total(known, h[m]) < Total(known, h[b]))
      <4>1. f[m] = b
        BY <1>2, <1>5, <3>2, ZenonT(40) DEF Better, b
      <4>2. CASE l = m
        BY <2>3, <3>2, <4>1, <4>2
      <4>3. CASE l # m
        <5>1. l \in 1..(m - 1)
          BY <1>2, <4>3
        <5> QED BY <2>4, <4>1, <5>1, ZenonT(40)
      <4> QED BY <4>2, <4>3, ZenonT(40)
    <3> QED BY <3>1, <3>2, ZenonT(40)
  <2> QED BY <1>1, <2>5
<1> QED BY <1>4, <1>5

(* choose_from goes through this loop.                                     *)
LEMMA ChooseFromLoops ==
    ASSUME NEW healthy, Len(healthy) \in Nat, NEW known
    PROVE  \E f : /\ Keeps(f, healthy, known, Len(healthy))
                 /\ choose_from(healthy, known) = healthy[f[Len(healthy)]]
<1> DEFINE n == Len(healthy)
           f == CHOOSE g : Keeps(g, healthy, known, n)
<1>1. choose_from(healthy, known) = healthy[f[n]]
  BY DEF choose_from, Keeps, Better
<1>2. \E g : Keeps(g, healthy, known, n)
  BY LoopIsDefined, ZenonT(40)
<1>3. Keeps(f, healthy, known, n)
  BY <1>2, Zenon
<1> QED BY <1>1, <1>3, ZenonT(40)

(* The answer of choose_from is one of the healthy relays, whatever the    *)
(* costs are.                                                              *)
-----------------------------------------------------------------------------
(* The sum of the costs of r on the sides 1..i.                            *)
Sums(f, k, r, n) == f = [i \in 0..n |-> IF i = 0 THEN 0 ELSE f[i - 1] + CostOf(k[i], r)]

LEMMA SumIsDefined == ASSUME NEW known, NEW r, NEW n \in Nat PROVE \E f : Sums(f, known, r, n)
<1> DEFINE S == {k \in Nat : ~ \E f : Sums(f, known, r, k)}
<1> SUFFICES ASSUME S # {} PROVE FALSE
  OBVIOUS
<1>1. PICK m \in S : \A j \in S : m <= j
  <2>1. S \in SUBSET Nat
    OBVIOUS
  <2> HIDE DEF S
  <2> QED BY <2>1, FirstOfSome
<1>2. m # 0
  <2>1. Sums([i \in 0..0 |-> 0], known, r, 0)
    BY DEF Sums
  <2> QED BY <1>1, <2>1
<1>3. m \in Nat /\ m - 1 \in Nat /\ m - 1 \notin S
  BY <1>1, <1>2
<1>4. PICK f : Sums(f, known, r, m - 1)
  BY <1>3
<1> DEFINE v == f[m - 1] + CostOf(known[m], r)
           g == [i \in 0..m |-> IF i = m THEN v ELSE f[i]]
<1>5. ASSUME NEW i \in 0..m PROVE g[i] = IF i = 0 THEN 0 ELSE g[i - 1] + CostOf(known[i], r)
  <2>1. CASE i = m
    <3>1. i - 1 \in 0..m /\ i - 1 # m
      BY <1>2, <1>3, <2>1
    <3> QED BY <1>2, <2>1, <3>1, ZenonT(40)
  <2>2. CASE i # m
    <3>1. i \in 0..(m - 1) /\ (i # 0 => i - 1 \in 0..m /\ i - 1 # m)
      BY <1>3, <2>2
    <3>2. f[i] = IF i = 0 THEN 0 ELSE f[i - 1] + CostOf(known[i], r)
      BY <1>4, <3>1 DEF Sums
    <3> QED BY <2>2, <3>1, <3>2, ZenonT(40)
  <2> QED BY <2>1, <2>2, ZenonT(40)
<1>6. Sums(g, known, r, m)
  <2> HIDE DEF v
  <2>1. g = [i \in 0..m |-> IF i = 0 THEN 0 ELSE g[i - 1] + CostOf(known[i], r)]
    BY <1>5
  <2> QED BY <2>1 DEF Sums
<1> QED BY <1>1, <1>6

(* The cost of a relay is a number when what the sides say of it are.      *)
Costed(known, r) == Len(known) \in Nat /\ \A i \in 1..Len(known) : CostOf(known[i], r) \in Nat

LEMMA TotalIsNat == ASSUME NEW known, NEW r, Costed(known, r) PROVE Total(known, r) \in Nat
<1> DEFINE n == Len(known)
           f == CHOOSE g : Sums(g, known, r, n)
<1>1. Total(known, r) = f[n]
  BY DEF Total, Sums
<1>2. n \in Nat /\ \E g : Sums(g, known, r, n)
  BY SumIsDefined, Zenon DEF Costed
<1>3. Sums(f, known, r, n)
  BY <1>2, Zenon
<1> HIDE DEF f
<1> DEFINE S == {k \in 0..n : f[k] \notin Nat}
<1> SUFFICES ASSUME S # {} PROVE FALSE
  BY <1>1, <1>2
<1>4. PICK m \in S : \A j \in S : m <= j
  <2>1. S \in SUBSET Nat
    BY <1>2
  <2> HIDE DEF S
  <2> QED BY <2>1, FirstOfSome
<1>5. m \in 0..n /\ f[m] = IF m = 0 THEN 0 ELSE f[m - 1] + CostOf(known[m], r)
  BY <1>3, <1>4, ZenonT(40) DEF Sums
<1>6. m # 0 => m \in 1..n /\ m - 1 \in 0..n /\ f[m - 1] \in Nat
  BY <1>2, <1>4, <1>5
<1> QED BY <1>4, <1>5, <1>6 DEF Costed

(* choose_from answers with the first of the relays whose costs add up to  *)
(* the least, for every list of healthy relays and whatever is known of    *)
(* either side.                                                            *)
THEOREM CheapestFirst ==
    ASSUME NEW R, NEW healthy \in Seq(R), healthy # <<>>, NEW known,
           \A r \in RangeOf(healthy) : Costed(known, r)
    PROVE  FirstCheapest(healthy, [r \in RangeOf(healthy) |-> Total(known, r)],
                         choose_from(healthy, known))
<1> DEFINE n == Len(healthy)
           cost == [r \in RangeOf(healthy) |-> Total(known, r)]
<1>1. n \in Nat /\ n # 0
  OBVIOUS
<1>2. PICK f : /\ Keeps(f, healthy, known, n)
               /\ choose_from(healthy, known) = healthy[f[n]]
  BY <1>1, ChooseFromLoops
<1>3. n \in 1..n /\ f[n] \in 1..n
  <2>1. n \in 1..n
    BY <1>1
  <2> HIDE DEF n
  <2> QED BY <1>1, <1>2, <2>1, LoopKeepsOne
<1>4. \A i \in 1..n : healthy[i] \in RangeOf(healthy)
  BY DEF RangeOf
<1>5. \A i \in 1..n : Total(known, healthy[i]) \in Nat
  BY <1>4, TotalIsNat
<1>6. ASSUME NEW j \in 1..n
      PROVE  \/ Total(known, healthy[f[n]]) < Total(known, healthy[j])
             \/ Total(known, healthy[f[n]]) = Total(known, healthy[j]) /\ f[n] <= j
  BY <1>1, <1>2, <1>3, <1>5, LoopKeepsCheapest, ZenonT(40)
<1>7. \A i \in 1..n : cost[healthy[i]] = Total(known, healthy[i])
  BY <1>4
<1> HIDE DEF cost
<1>8. FirstCheapest(healthy, cost, healthy[f[n]])
  BY <1>3, <1>6, <1>7, ZenonT(40) DEF FirstCheapest
<1> QED BY <1>2, <1>8 DEF cost

-----------------------------------------------------------------------------
(* A call that is past the test of the preference has relays to choose     *)
(* from.                                                                   *)
Labels == {"idle", "preferred", "pinned", "routes", "locate", "geo", "routes2", "locate2",
           "geo2", "choose", "pin"}
Choosing == Labels \ {"idle", "preferred"}

SnapInv ==
    /\ world \in Worlds /\ live \in Seq(Relay)
    /\ pc \in [Worker -> Labels]
    /\ snap \in [Worker -> Seq(Relay)]
    /\ ans = [w \in Worker |-> ans[w]]
    /\ \A w \in Worker : pc[w] \in Choosing => snap[w] # <<>>

LEMMA SnapReturns ==
    ASSUME SnapInv, NEW w \in Worker, Return(w), UNCHANGED <<live, world>>,
           UNCHANGED ans \/ \E r : ans' = [ans EXCEPT ![w] = r]
    PROVE  SnapInv'
<1>1. "idle" \in Labels /\ "idle" \notin Choosing /\ <<>> \in Seq(Relay)
  BY DEF Labels, Choosing
<1>2. pc' = [pc EXCEPT ![w] = "idle"] /\ snap' = [snap EXCEPT ![w] = <<>>]
  BY DEF Return, Goto
<1>3. /\ pc' \in [Worker -> Labels] /\ snap' \in [Worker -> Seq(Relay)]
      /\ pc'[w] = "idle" /\ \A v \in Worker \ {w} : pc'[v] = pc[v] /\ snap'[v] = snap[v]
  BY <1>1, <1>2, ZenonT(40) DEF SnapInv
<1>4. ans' = [v \in Worker |-> ans'[v]]
  BY Zenon DEF SnapInv
<1>5. ASSUME NEW v \in Worker PROVE pc'[v] \in Choosing => snap'[v] # <<>>
  BY <1>1, <1>3, ZenonT(40) DEF SnapInv
<1> QED BY <1>3, <1>4, <1>5, ZenonT(40) DEF SnapInv

LEMMA SnapGoesOn ==
    ASSUME SnapInv, NEW w \in Worker, NEW l \in Labels, Goto(w, l), snap[w] # <<>>,
           UNCHANGED <<snap, live, world>>, UNCHANGED ans \/ \E r : ans' = [ans EXCEPT ![w] = r]
    PROVE  SnapInv'
<1>1. /\ pc' \in [Worker -> Labels] /\ \A v \in Worker \ {w} : pc'[v] = pc[v]
  BY Zenon DEF SnapInv, Goto
<1>2. ans' = [v \in Worker |-> ans'[v]]
  BY Zenon DEF SnapInv
<1>3. ASSUME NEW v \in Worker PROVE pc'[v] \in Choosing => snap'[v] # <<>>
  BY <1>1, Zenon DEF SnapInv
<1> QED BY <1>1, <1>2, <1>3, ZenonT(40) DEF SnapInv

LEMMA SnapSteps == ASSUME SnapInv, NEW w \in Worker, Step(w), UNCHANGED world PROVE SnapInv'
<1>0. UNCHANGED live
  BY Zenon DEF Step, Preferred, Pinned, SideRoutes, SideLocate, SideGeo, Choose, Pin, store
<1>1. ASSUME NEW r, Answer(w, r) PROVE SnapInv'
  <2>1. Return(w) /\ ans' = [ans EXCEPT ![w] = r]
    BY <1>1 DEF Answer
  <2>2. \E q : ans' = [ans EXCEPT ![w] = q]
    BY <2>1, Zenon
  <2> QED BY <1>0, <2>1, <2>2, SnapReturns, ZenonT(40)
<1>2. CASE Preferred(w)
  <2>1. CASE \E r : Answer(w, r)
    BY <1>1, <2>1
  <2>2. CASE /\ Len(snap[w]) >= 2 /\ UNCHANGED <<snap, ans>>
             /\ Goto(w, IF call[w].commit THEN "pinned" ELSE "routes")
    <3>1. (IF call[w].commit THEN "pinned" ELSE "routes") \in Labels
      BY DEF Labels
    <3>2. Len(<<>>) = 0 /\ ~ (0 >= 2)
      OBVIOUS
    <3>3. snap[w] # <<>>
      BY <2>2, <3>2, ZenonT(40)
    <3> QED BY <1>0, <2>2, <3>1, <3>3, SnapGoesOn, ZenonT(40)
  <2> QED BY <1>2, <2>1, <2>2, ZenonT(40) DEF Preferred
<1>3. CASE ~ Preferred(w)
  <2>0. pc[w] \in Choosing
    BY <1>3, ZenonT(40) DEF Step, Pinned, SideRoutes, SideLocate, SideGeo, Choose, Pin, Choosing, Labels
  <2>1. snap[w] # <<>>
    BY <2>0 DEF SnapInv
  <2>2. \/ \E r : Answer(w, r)
        \/ Return(w) /\ UNCHANGED ans
        \/ /\ UNCHANGED snap /\ \E l \in Labels : Goto(w, l)
           /\ UNCHANGED ans \/ \E r : ans' = [ans EXCEPT ![w] = r]
    <3>1. CASE Pinned(w)
      BY <3>1, Zenon DEF Pinned, Labels
    <3>2. CASE SideRoutes(w) \/ SideLocate(w) \/ SideGeo(w)
      BY <3>2, Zenon DEF SideRoutes, SideLocate, SideGeo, SideDone, Labels
    <3>3. CASE Choose(w)
      BY <3>3, Zenon DEF Choose, Labels
    <3>4. CASE Pin(w)
      BY <3>4, Zenon DEF Pin
    <3> QED BY <1>3, <3>1, <3>2, <3>3, <3>4, ZenonT(40) DEF Step
  <2> QED BY <1>0, <1>1, <2>1, <2>2, SnapReturns, SnapGoesOn, ZenonT(40)
<1> QED BY <1>2, <1>3

LEMMA SnapInvariant == Spec => []SnapInv
<1>0. ASSUME world \in Worlds PROVE Lists \subseteq Seq(Relay)
  BY <1>0, SelectAssumption, ZenonT(40) DEF Lists
<1>1. Init => SnapInv
  <2> SUFFICES ASSUME Init PROVE SnapInv
    OBVIOUS
  <2>1. live \in Seq(Relay) /\ <<>> \in Seq(Relay)
    BY <1>0 DEF Init
  <2> QED BY <2>1 DEF Init, SnapInv, Labels, Choosing
<1>2. SnapInv /\ [Next]_<<vars, world>> => SnapInv'
  <2> SUFFICES ASSUME SnapInv, [Next]_<<vars, world>> PROVE SnapInv'
    OBVIOUS
  <2>0. UNCHANGED world /\ Lists \subseteq Seq(Relay)
    BY <1>0 DEF Next, SnapInv
  <2>1. ASSUME NEW w \in Worker, Step(w) PROVE SnapInv'
    BY <2>0, <2>1, SnapSteps
  <2>2. ASSUME NEW w \in Worker, NEW c \in Calls, Pick(w, c) PROVE SnapInv'
    <3>1. /\ pc' = [pc EXCEPT ![w] = "preferred"] /\ snap' = [snap EXCEPT ![w] = live]
          /\ ans' = [ans EXCEPT ![w] = NoRelay] /\ UNCHANGED live
      BY <2>2, Zenon DEF Pick, Goto, store
    <3>2. "preferred" \in Labels /\ "preferred" \notin Choosing
      BY DEF Labels, Choosing
    <3> QED BY <2>0, <3>1, <3>2, ZenonT(40) DEF SnapInv
  <2>3. ASSUME UNCHANGED <<pc, snap, ans>>, live' \in Seq(Relay) PROVE SnapInv'
    BY <2>0, <2>3, ZenonT(40) DEF SnapInv
  <2>4. ASSUME NEW l \in Lists, SetLive(l) PROVE SnapInv'
    BY <2>0, <2>3, <2>4 DEF SetLive, callers
  <2>5. CASE Restart
    <3>1. live' \in Seq(Relay) /\ <<>> \in Seq(Relay)
      BY <2>0, <2>5 DEF Restart
    <3> QED BY <2>0, <2>5, <3>1, ZenonT(40) DEF Restart, SnapInv, Labels, Choosing
  <2>6. CASE \/ \E k \in Key : Expire(k)
             \/ \E f \in {"routes", "db", "loc"} :
                   \E x \in {y[f] : y \in Files} : WriteFile(f, x)
             \/ ReloadRoutes \/ LoadGeo \/ SetGeo \/ ClearPins \/ CommandClears
             \/ UseNothing \/ UseAuto \/ (\E r \in Wanted : UseRelay(r))
             \/ OpenFile \/ WriteChoice \/ Remove
             \/ UNCHANGED <<vars, world>>
    <3>1. UNCHANGED <<pc, snap, ans, live>>
      BY <2>6, ZenonT(40) DEF Expire, WriteFile, ReloadRoutes, LoadGeo, SetGeo, ClearPins, CommandClears,
                  UseNothing, UseAuto, UseRelay, Commanded, OpenFile, WriteChoice, Remove, OnFile,
                  store, callers, vars
    <3> QED BY <2>3, <3>1 DEF SnapInv
  <2> QED BY <2>1, <2>2, <2>4, <2>5, <2>6, ZenonT(40) DEF Next
<1> QED BY <1>1, <1>2, PTL DEF Spec

-----------------------------------------------------------------------------
(***************************************************************************)
(* What is in force was read from the files, by the io loop or at start.   *)
(***************************************************************************)
Parts == {"routes", "db", "loc"}
GeoParts == {"db", "loc"}
TextsOf(f) == IF f = "routes" THEN Texts ELSE IF f = "db" THEN Places ELSE Locations
ReadFrom(f, v) == \E x \in TextsOf(f) : v = LoadedGeo(f, x)

FileInv ==
    /\ world \in Worlds
    /\ file = [f \in Parts |-> file[f]]
    /\ \A f \in Parts : "is" \in DOMAIN file[f] /\ file[f].is \in TextsOf(f)
    /\ \E t \in Texts : routes = LoadedRoutes(t)
    /\ geo = [f \in GeoParts |-> geo[f]]
    /\ \A f \in GeoParts : ReadFrom(f, geo[f])
    /\ \A y \in loaded : \E f \in GeoParts : \E x \in TextsOf(f) : y = <<f, LoadedGeo(f, x)>>

(***************************************************************************)
(* What side_costs finds for an address when nothing is reloaded meanwhile,*)
(* and how far a call has come with the two sides.                         *)
(***************************************************************************)
RuleOf(ip) == IF routes = Bad THEN NoRule ELSE lookup(routes.rules, ip)
Placeable(ip) == geo.loc # Bad /\ geo.db # Bad /\ ip \in DOMAIN geo.db
SideOf(ip) ==
    IF RuleOf(ip) # NoRule THEN <<Costs(RuleOf(ip))>>
    ELSE IF Placeable(ip) THEN <<costs_from(geo.loc.relays, geo.db[ip])>> ELSE <<>>

Unread == {"idle", "preferred", "pinned", "routes", "locate", "geo"}

SidesOK(w) ==
    /\ pc[w] \in Unread => sides[w] = <<>>
    /\ pc[w] \in {"routes2", "locate2", "geo2"} => sides[w] = SideOf(call[w].from)
    /\ pc[w] = "choose" => sides[w] = SideOf(call[w].from) \o SideOf(call[w].to)
    /\ pc[w] \in {"locate", "geo", "locate2", "geo2"} => RuleOf(Side(w)) = NoRule
    /\ pc[w] \in {"geo", "geo2"} => Placeable(Side(w)) /\ call[w].at = geo.db[Side(w)]

SidesInv ==
    /\ pc \in [Worker -> Labels]
    /\ sides = [w \in Worker |-> sides[w]] /\ call = [w \in Worker |-> call[w]]
    /\ \A w \in Worker : "at" \in DOMAIN call[w] /\ (pc[w] = "idle" => sides[w] = <<>>)
    /\ \A w \in Worker : w \notin raced => SidesOK(w)

LEMMA FileInvInit == Init => FileInv
<1> SUFFICES ASSUME Init PROVE FileInv
  OBVIOUS
<1>1. PICK x \in Files : file = [f \in Parts |-> [is |-> x[f], seen |-> TRUE]]
  BY DEF Init, Parts
<1>2. x["routes"] \in Texts /\ x["db"] \in Places /\ x["loc"] \in Locations
  BY DEF Files
<1>3. \A f \in Parts : "is" \in DOMAIN file[f] /\ file[f].is = x[f]
  BY <1>1
<1>4. file = [f \in Parts |-> file[f]]
  BY <1>1, Zenon
<1>5. \A f \in Parts : "is" \in DOMAIN file[f] /\ file[f].is \in TextsOf(f)
  BY <1>2, <1>3 DEF TextsOf, Parts
<1>6. /\ world \in Worlds /\ routes = LoadedRoutes(file["routes"].is) /\ loaded = {}
      /\ geo = [f \in GeoParts |-> LoadedGeo(f, file[f].is)]
  BY DEF Init, GeoParts
<1>7. GeoParts \subseteq Parts /\ "routes" \in Parts /\ TextsOf("routes") = Texts
  BY DEF Parts, GeoParts, TextsOf
<1>8. \A f \in GeoParts : ReadFrom(f, geo[f])
  BY <1>5, <1>6, <1>7, ZenonT(40) DEF ReadFrom
<1>9. \E t \in Texts : routes = LoadedRoutes(t)
  BY <1>5, <1>6, <1>7, ZenonT(40)
<1> QED BY <1>4, <1>5, <1>6, <1>8, <1>9, ZenonT(40) DEF FileInv

LEMMA FileNextInv == ASSUME FileInv, [Next]_<<vars, world>> PROVE FileInv'
<1>0. UNCHANGED world /\ \A f : TextsOf(f)' = TextsOf(f)
  BY DEF Next, TextsOf, Texts, Places, Locations
<1>1. /\ GeoParts \subseteq Parts /\ "routes" \in Parts /\ TextsOf("routes") = Texts /\ Texts' = Texts
      /\ DOMAIN file = Parts
  BY <1>0 DEF Parts, GeoParts, TextsOf, FileInv, Texts
<1>2. ASSUME file' = [f \in Parts |-> file'[f]],
             \A f \in Parts : "is" \in DOMAIN file'[f] /\ file'[f].is \in TextsOf(f),
             \E t \in Texts : routes' = LoadedRoutes(t),
             geo' = [f \in GeoParts |-> geo'[f]],
             \A f \in GeoParts : ReadFrom(f, geo'[f]),
             \A y \in loaded' : \E f \in GeoParts : \E x \in TextsOf(f) : y = <<f, LoadedGeo(f, x)>>
      PROVE  FileInv'
  <2>1. \A f \in GeoParts : ReadFrom(f, geo[f])'
    BY <1>0, <1>2, ZenonT(40) DEF ReadFrom
  <2> QED BY <1>0, <1>1, <1>2, <2>1, ZenonT(40) DEF FileInv
<1>3. ASSUME UNCHANGED <<routes, geo, file, loaded>> PROVE FileInv'
  BY <1>0, <1>1, <1>3, ZenonT(40) DEF FileInv, ReadFrom
<1>4. ASSUME NEW w \in Worker, Step(w) PROVE FileInv'
  BY <1>3, <1>4, ZenonT(40) DEF Step, Preferred, Pinned, SideRoutes, SideLocate, SideGeo, Choose, Pin, store
<1>5. CASE \/ \E w \in Worker : \E c \in Calls : Pick(w, c)
           \/ \E l \in Lists : SetLive(l)
           \/ \E k \in Key : Expire(k)
           \/ \E r \in Wanted : UseRelay(r)
           \/ UseAuto \/ UseNothing \/ OpenFile \/ WriteChoice \/ Remove
           \/ ClearPins \/ CommandClears \/ UNCHANGED <<vars, world>>
  BY <1>3, <1>5, ZenonT(40) DEF Pick, SetLive, Expire, UseRelay, UseAuto, UseNothing, Commanded, ClearPins,
                    OpenFile, WriteChoice, Remove, OnFile, CommandClears, store, vars
<1>6. ASSUME NEW f \in Parts, NEW x \in {y[f] : y \in Files}, WriteFile(f, x) PROVE FileInv'
  <2>1. x \in TextsOf(f)
    BY <1>6 DEF Files, TextsOf, Parts
  <2>2. file' = [file EXCEPT ![f] = [is |-> x, seen |-> FALSE]] /\ UNCHANGED <<routes, geo, loaded>>
    BY <1>6 DEF WriteFile
  <2>3. file' = [g \in Parts |-> file'[g]]
    BY <2>2, ZenonT(40) DEF FileInv
  <2>4. ASSUME NEW g \in Parts PROVE "is" \in DOMAIN file'[g] /\ file'[g].is \in TextsOf(g)
    <3>1. file'[g] = IF g = f THEN [is |-> x, seen |-> FALSE] ELSE file[g]
      BY <1>1, <2>2, ZenonT(40) DEF FileInv
    <3>2. CASE g = f
      BY <2>1, <3>1, <3>2
    <3>3. CASE g # f
      BY <3>1, <3>3, ZenonT(40) DEF FileInv
    <3> QED BY <3>2, <3>3
  <2> QED BY <1>2, <2>2, <2>3, <2>4, ZenonT(40) DEF FileInv
<1>7. ASSUME NEW g \in Parts, file'[g] = file[g] \/ file'[g] = [file[g] EXCEPT !.seen = TRUE]
      PROVE  "is" \in DOMAIN file'[g] /\ file'[g].is \in TextsOf(g)
  <2>1. "is" \in DOMAIN file[g] /\ file[g].is \in TextsOf(g) /\ "is" # "seen"
    BY Zenon DEF FileInv
  <2>2. DOMAIN file'[g] = DOMAIN file[g] /\ file'[g].is = file[g].is
    BY <1>7, <2>1
  <2> QED BY <2>1, <2>2
<1>8. CASE ReloadRoutes
  <2>1. file' = [file EXCEPT !["routes"].seen = TRUE] /\ UNCHANGED <<geo, loaded>>
    BY <1>8 DEF ReloadRoutes
  <2>2. file' = [g \in Parts |-> file'[g]]
    BY <2>1, Zenon DEF FileInv
  <2>3. \A g \in Parts : file'[g] = file[g] \/ file'[g] = [file[g] EXCEPT !.seen = TRUE]
    <3>1. file' = [file EXCEPT !["routes"] = [file["routes"] EXCEPT !.seen = TRUE]]
      BY <2>1
    <3>2. \A g \in Parts : file'[g] = IF g = "routes" THEN [file["routes"] EXCEPT !.seen = TRUE] ELSE file[g]
      BY <1>1, <3>1, ZenonT(40)
    <3> QED BY <3>2, Zenon
  <2>4. routes' = routes \/ routes' = LoadedRoutes(file["routes"].is)
    BY <1>8 DEF ReloadRoutes
  <2>5. \E t \in Texts : routes' = LoadedRoutes(t)
    BY <1>1, <2>4, ZenonT(40) DEF FileInv
  <2>6. \A g \in Parts : "is" \in DOMAIN file'[g] /\ file'[g].is \in TextsOf(g)
    BY <1>7, <2>3, ZenonT(40)
  <2> QED BY <1>2, <2>1, <2>2, <2>5, <2>6, ZenonT(40) DEF FileInv
<1>9. CASE LoadGeo
  <2> DEFINE changed == {f \in GeoParts : ~ file[f].seen}
  <2>1. /\ file' = [g \in DOMAIN file |-> IF g \in changed THEN [file[g] EXCEPT !.seen = TRUE] ELSE file[g]]
        /\ loaded' = {<<f, LoadedGeo(f, file[f].is)>> :
                         f \in {g \in changed : Loadable(LoadedGeo(g, file[g].is))}}
        /\ UNCHANGED <<routes, geo>>
    BY <1>9 DEF LoadGeo, GeoParts
  <2>2. \A y \in loaded' : \E f \in GeoParts : \E x \in TextsOf(f) : y = <<f, LoadedGeo(f, x)>>
    <3> SUFFICES ASSUME NEW y \in loaded'
                 PROVE  \E f \in GeoParts : \E x \in TextsOf(f) : y = <<f, LoadedGeo(f, x)>>
      OBVIOUS
    <3>1. PICK f \in GeoParts : y = <<f, LoadedGeo(f, file[f].is)>>
      BY <2>1
    <3> QED BY <1>1, <3>1, ZenonT(40) DEF FileInv
  <2> HIDE DEF changed
  <2>3. /\ file' = [g \in Parts |-> file'[g]]
        /\ \A g \in Parts : file'[g] = file[g] \/ file'[g] = [file[g] EXCEPT !.seen = TRUE]
    BY <1>1, <2>1, ZenonT(40)
  <2>4. \A g \in Parts : "is" \in DOMAIN file'[g] /\ file'[g].is \in TextsOf(g)
    BY <1>7, <2>3, ZenonT(40)
  <2> QED BY <1>2, <2>1, <2>2, <2>3, <2>4, ZenonT(40) DEF FileInv
<1>10. CASE SetGeo
  <2>1. /\ geo' = [f \in GeoParts |-> IF \E x \in loaded : x[1] = f THEN (CHOOSE x \in loaded : x[1] = f)[2]
                                      ELSE geo[f]]
        /\ loaded' = {} /\ UNCHANGED <<routes, file>>
    BY <1>10 DEF SetGeo, GeoParts
  <2>2. ASSUME NEW f \in GeoParts PROVE ReadFrom(f, geo'[f])
    <3>1. CASE \E x \in loaded : x[1] = f
      <4> DEFINE y == CHOOSE x \in loaded : x[1] = f
      <4>1. y \in loaded /\ y[1] = f /\ geo'[f] = y[2]
        BY <2>1, <3>1
      <4> HIDE DEF y
      <4>2. PICK g \in GeoParts : \E x \in TextsOf(g) : y = <<g, LoadedGeo(g, x)>>
        BY <4>1, Zenon DEF FileInv
      <4>3. PICK x \in TextsOf(g) : y = <<g, LoadedGeo(g, x)>>
        BY <4>2
      <4>4. y[1] = g /\ y[2] = LoadedGeo(g, x)
        BY <4>3
      <4> QED BY <4>1, <4>4, ZenonT(40) DEF ReadFrom
    <3>2. CASE ~ \E x \in loaded : x[1] = f
      BY <2>1, <3>2, ZenonT(40) DEF FileInv
    <3> QED BY <3>1, <3>2
  <2>3. geo' = [f \in GeoParts |-> geo'[f]]
    BY <2>1, ZenonT(40)
  <2>4. \A y \in loaded' : \E f \in GeoParts : \E x \in TextsOf(f) : y = <<f, LoadedGeo(f, x)>>
    BY <2>1
  <2> QED BY <1>2, <2>1, <2>2, <2>3, <2>4, ZenonT(40) DEF FileInv
<1>11. CASE Restart
  <2>1. /\ file' = [f \in DOMAIN file |-> [file[f] EXCEPT !.seen = TRUE]]
        /\ routes' = LoadedRoutes(file["routes"].is) /\ loaded' = {}
        /\ geo' = [f \in GeoParts |-> LoadedGeo(f, file[f].is)]
    BY <1>11 DEF Restart, GeoParts
  <2>2. file' = [g \in Parts |-> file'[g]] /\ \A g \in Parts : file'[g] = [file[g] EXCEPT !.seen = TRUE]
    BY <1>1, <2>1, ZenonT(40)
  <2>3. \E t \in Texts : routes' = LoadedRoutes(t)
    BY <1>1, <2>1, ZenonT(40) DEF FileInv
  <2>4. \A f \in GeoParts : ReadFrom(f, geo'[f])
    BY <1>1, <2>1, ZenonT(40) DEF FileInv, ReadFrom
  <2>5. geo' = [f \in GeoParts |-> geo'[f]]
    BY <2>1, Zenon
  <2>6. \A g \in Parts : "is" \in DOMAIN file'[g] /\ file'[g].is \in TextsOf(g)
    BY <1>7, <2>2, ZenonT(40)
  <2>7. \A y \in loaded' : \E f \in GeoParts : \E x \in TextsOf(f) : y = <<f, LoadedGeo(f, x)>>
    BY <2>1
  <2> QED BY <1>2, <2>2, <2>3, <2>4, <2>5, <2>6, <2>7, ZenonT(40)
<1> QED BY <1>4, <1>5, <1>6, <1>8, <1>9, <1>10, <1>11, ZenonT(40) DEF Next, Parts

(* What a call has is still right if nothing is reloaded.                  *)
LEMMA SidesStay ==
    ASSUME UNCHANGED <<routes, geo>>
    PROVE  \A ip : RuleOf(ip)' = RuleOf(ip) /\ (Placeable(ip)' <=> Placeable(ip)) /\ SideOf(ip)' = SideOf(ip)
  BY Zenon DEF RuleOf, Placeable, SideOf

LEMMA SidesKept ==
    ASSUME UNCHANGED <<routes, geo>>, NEW v \in Worker,
           pc'[v] = pc[v], call'[v] = call[v], sides'[v] = sides[v], SidesOK(v)
    PROVE  SidesOK(v)'
<1>1. Side(v)' = Side(v)
  BY DEF Side
<1>2. /\ RuleOf(Side(v))' = RuleOf(Side(v)) /\ (Placeable(Side(v))' <=> Placeable(Side(v)))
      /\ SideOf(call[v].from)' = SideOf(call[v].from) /\ SideOf(call[v].to)' = SideOf(call[v].to)
      /\ geo.db[Side(v)]' = geo.db[Side(v)]
  BY <1>1, Zenon DEF RuleOf, Placeable, SideOf
<1> QED BY <1>2, ZenonT(40) DEF SidesOK

(* A step of w alone.                                                      *)
LEMMA OneStepKeeps ==
    ASSUME SidesInv, UNCHANGED <<routes, geo>>, NEW w \in Worker, NEW l \in Labels, Goto(w, l),
           sides' = [sides EXCEPT ![w] = sides'[w]], call' = [call EXCEPT ![w] = call'[w]],
           raced' = raced \/ raced' = raced \ {w},
           l = "idle" => sides'[w] = <<>>, "at" \in DOMAIN call'[w],
           w \notin raced' => SidesOK(w)'
    PROVE  SidesInv'
<1>1. pc' \in [Worker -> Labels] /\ pc'[w] = l
  BY DEF SidesInv, Goto
<1>2. sides' = [v \in Worker |-> sides'[v]] /\ call' = [v \in Worker |-> call'[v]]
  BY Zenon DEF SidesInv
<1>3. ASSUME NEW v \in Worker, v # w
      PROVE  pc'[v] = pc[v] /\ call'[v] = call[v] /\ sides'[v] = sides[v] /\ (v \notin raced' => v \notin raced)
  <2>1. pc'[v] = pc[v]
    BY <1>3 DEF SidesInv, Goto
  <2>2. call'[v] = call[v] /\ sides'[v] = sides[v]
    BY <1>3, ZenonT(40) DEF SidesInv
  <2>3. v \notin raced' => v \notin raced
    BY <1>3
  <2> QED BY <2>1, <2>2, <2>3, ZenonT(40)
<1>4. ASSUME NEW v \in Worker PROVE "at" \in DOMAIN call'[v] /\ (pc'[v] = "idle" => sides'[v] = <<>>)
  BY <1>1, <1>3, ZenonT(40) DEF SidesInv
<1>5. ASSUME NEW v \in Worker, v \notin raced' PROVE SidesOK(v)'
  <2>1. CASE v = w
    BY <1>5, <2>1
  <2>2. CASE v # w
    BY <1>3, <1>5, <2>2, SidesKept, ZenonT(40) DEF SidesInv
  <2> QED BY <2>1, <2>2
<1> QED BY <1>1, <1>2, <1>4, <1>5, ZenonT(40) DEF SidesInv

LEMMA ReturnKeepsSides ==
    ASSUME SidesInv, UNCHANGED <<routes, geo>>, NEW w \in Worker, Return(w)
    PROVE  SidesInv'
<1>1. /\ Goto(w, "idle") /\ "idle" \in Labels /\ sides' = [sides EXCEPT ![w] = sides'[w]]
      /\ call' = [call EXCEPT ![w] = call'[w]] /\ sides'[w] = <<>> /\ pc'[w] = "idle"
      /\ raced' = raced \ {w} /\ call'[w] = NoCall
  BY DEF Return, Goto, SidesInv, Labels
<1>3. "at" \in DOMAIN NoCall
  BY DEF NoCall
<1>2. SidesOK(w)'
  BY <1>1 DEF SidesOK
<1> QED BY <1>1, <1>2, <1>3, OneStepKeeps, ZenonT(40)

(* A call goes on, before it has looked at a side.                         *)
LEMMA BeforeSides ==
    ASSUME SidesInv, UNCHANGED <<routes, geo, call, sides, raced>>, NEW w \in Worker,
           pc[w] \in {"preferred", "pinned"}, NEW l \in {"pinned", "routes"}, Goto(w, l)
    PROVE  SidesInv'
<1>0. /\ sides' = [sides EXCEPT ![w] = sides'[w]] /\ call' = [call EXCEPT ![w] = call'[w]]
      /\ "at" \in DOMAIN call'[w]
  BY Zenon DEF SidesInv
<1>1. l \in Labels /\ l # "idle" /\ pc'[w] = l
  BY DEF Labels, SidesInv, Goto
<1>2. w \notin raced => SidesOK(w)'
  <2> SUFFICES ASSUME w \notin raced PROVE SidesOK(w)'
    OBVIOUS
  <2>1. SidesOK(w) /\ pc[w] \in Unread
    BY DEF SidesInv, Unread
  <2>2. sides'[w] = <<>>
    BY <2>1, ZenonT(40) DEF SidesOK
  <2> QED BY <1>1, <2>2, ZenonT(40) DEF SidesOK, Unread
<1> QED BY <1>0, <1>1, <1>2, OneStepKeeps, ZenonT(40)

(* One side is done, with what side_costs finds for it.                    *)
LEMMA SideDoneKeeps ==
    ASSUME SidesInv, UNCHANGED <<routes, geo>>, NEW w \in Worker,
           pc[w] \in {"routes", "locate", "geo", "routes2", "locate2", "geo2"},
           NEW found, SideDone(w, found), w \notin raced => found = SideOf(Side(w))
    PROVE  SidesInv'
<1> DEFINE l == IF pc[w] \in {"routes", "locate", "geo"} THEN "routes2" ELSE "choose"
<1>1. /\ Goto(w, l) /\ l \in Labels /\ l # "idle" /\ UNCHANGED <<call, raced>>
      /\ sides' = [sides EXCEPT ![w] = sides[w] \o found]
  BY DEF SideDone, history, Labels
<1>2. /\ pc'[w] = l /\ sides'[w] = sides[w] \o found /\ sides' = [sides EXCEPT ![w] = sides'[w]]
      /\ call' = [call EXCEPT ![w] = call'[w]] /\ call'[w] = call[w] /\ "at" \in DOMAIN call'[w]
  BY <1>1, ZenonT(40) DEF SidesInv, Goto
<1>3. w \notin raced => SidesOK(w)'
  <2> SUFFICES ASSUME w \notin raced PROVE SidesOK(w)'
    OBVIOUS
  <2>0. SidesOK(w)
    BY DEF SidesInv
  <2>1. \A ip : SideOf(ip)' = SideOf(ip)
    BY SidesStay
  <2>2. SideOf(call[w].from)' = SideOf(call[w].from) /\ SideOf(call[w].to)' = SideOf(call[w].to)
    BY <1>2, ZenonT(40) DEF SideOf, RuleOf, Placeable
  <2>3. CASE pc[w] \in {"routes", "locate", "geo"}
    <3>1. l = "routes2" /\ pc[w] \in Unread /\ Side(w) = call[w].from
      BY <2>3 DEF Unread, Side
    <3>2. sides[w] = <<>> /\ found = SideOf(call[w].from)
      BY <2>0, <3>1, ZenonT(40) DEF SidesOK
    <3>3. <<>> \o SideOf(call[w].from) = SideOf(call[w].from)
      <4>1. \A c : <<c>> \in Seq({c}) /\ <<>> \o <<c>> = <<c>>
        BY ConcatProperties
      <4>2. <<>> \o <<>> = <<>>
        OBVIOUS
      <4> QED BY <4>1, <4>2, ZenonT(40) DEF SideOf
    <3>4. sides'[w] = SideOf(call[w].from)'
      BY <1>2, <2>2, <3>2, <3>3, ZenonT(40)
    <3> HIDE DEF l
    <3> QED BY <1>2, <3>1, <3>4, ZenonT(40) DEF SidesOK, Unread
  <2>4. CASE pc[w] \in {"routes2", "locate2", "geo2"}
    <3>1. l = "choose" /\ Side(w) = call[w].to
      BY <2>4 DEF Side
    <3>2. sides[w] = SideOf(call[w].from) /\ found = SideOf(call[w].to)
      BY <2>0, <2>4, <3>1, ZenonT(40) DEF SidesOK
    <3>4. sides'[w] = SideOf(call[w].from)' \o SideOf(call[w].to)'
      BY <1>2, <2>2, <3>2, ZenonT(40)
    <3> HIDE DEF l
    <3> QED BY <1>2, <3>1, <3>4, ZenonT(40) DEF SidesOK, Unread
  <2> QED BY <2>3, <2>4
<1> HIDE DEF l
<1> QED BY <1>1, <1>2, <1>3, OneStepKeeps, ZenonT(40)

LEMMA StepKeepsSides ==
    ASSUME SidesInv, NEW w \in Worker, Step(w)
    PROVE  SidesInv'
<1>0. UNCHANGED <<routes, geo>>
  BY Zenon DEF Step, Preferred, Pinned, SideRoutes, SideLocate, SideGeo, Choose, Pin, store
<1>1. CASE Preferred(w)
  <2>1. CASE \E r : Answer(w, r)
    BY <1>0, <2>1, ReturnKeepsSides, ZenonT(40) DEF Answer
  <2>2. CASE UNCHANGED <<call, sides, history>> /\ Goto(w, IF call[w].commit THEN "pinned" ELSE "routes")
    <3>1. \E l \in {"pinned", "routes"} : Goto(w, l)
      BY <2>2, Zenon
    <3>2. pc[w] = "preferred" /\ UNCHANGED <<call, sides, raced>>
      BY <1>1, <2>2, ZenonT(40) DEF Preferred, history
    <3> QED BY <1>0, <3>1, <3>2, BeforeSides, ZenonT(40)
  <2> QED BY <1>1, <2>1, <2>2, ZenonT(40) DEF Preferred
<1>2. CASE Pinned(w)
  <2>1. CASE \E r : Answer(w, r)
    BY <1>0, <2>1, ReturnKeepsSides, ZenonT(40) DEF Answer
  <2>2. CASE UNCHANGED <<call, sides, history>> /\ Goto(w, "routes")
    <3>1. pc[w] = "pinned" /\ UNCHANGED <<call, sides, raced>>
      BY <1>2, <2>2, ZenonT(40) DEF Pinned, history
    <3> QED BY <1>0, <2>2, <3>1, BeforeSides, ZenonT(40)
  <2> QED BY <1>2, <2>1, <2>2, ZenonT(40) DEF Pinned
<1>3. CASE SideRoutes(w)
  <2>0. pc[w] \in {"routes", "routes2"}
    BY <1>3 DEF SideRoutes
  <2>1. CASE RuleOf(Side(w)) # NoRule /\ SideDone(w, <<Costs(RuleOf(Side(w)))>>)
    <3>1. SideOf(Side(w)) = <<Costs(RuleOf(Side(w)))>>
      BY <2>1, Zenon DEF SideOf
    <3> QED BY <1>0, <2>0, <2>1, <3>1, SideDoneKeeps, ZenonT(40)
  <2>2. CASE /\ RuleOf(Side(w)) = NoRule /\ UNCHANGED <<call, sides, history>>
             /\ Goto(w, IF pc[w] = "routes" THEN "locate" ELSE "locate2")
    <3> DEFINE l == IF pc[w] = "routes" THEN "locate" ELSE "locate2"
    <3>1. /\ sides' = [sides EXCEPT ![w] = sides'[w]] /\ call' = [call EXCEPT ![w] = call'[w]]
          /\ "at" \in DOMAIN call'[w]
      BY <2>2, ZenonT(40) DEF SidesInv
    <3>2. l \in Labels /\ l # "idle" /\ pc'[w] = l /\ raced' = raced
      BY <2>2, ZenonT(40) DEF Labels, SidesInv, Goto, history
    <3>3. w \notin raced => SidesOK(w)'
      <4> SUFFICES ASSUME w \notin raced PROVE SidesOK(w)'
        OBVIOUS
      <4>0. SidesOK(w)
        BY DEF SidesInv
      <4>1. Side(w)' = Side(w)
        BY <2>0, <2>2, <3>2, ZenonT(40) DEF Side
      <4>2. RuleOf(Side(w))' = RuleOf(Side(w)) /\ SideOf(call[w].from)' = SideOf(call[w].from)
        BY <1>0, <2>2, <4>1, ZenonT(40) DEF RuleOf, SideOf, Placeable
      <4>3. sides'[w] = IF pc[w] = "routes" THEN <<>> ELSE SideOf(call[w].from)
        BY <2>0, <2>2, <4>0, ZenonT(40) DEF SidesOK, Unread
      <4> QED BY <2>2, <3>2, <4>2, <4>3, ZenonT(40) DEF SidesOK, Unread
    <3> HIDE DEF l
    <3> QED BY <1>0, <2>2, <3>1, <3>2, <3>3, OneStepKeeps, ZenonT(40) DEF l
  <2> QED BY <1>3, <2>1, <2>2, ZenonT(40) DEF SideRoutes, RuleOf
<1>4. CASE SideLocate(w)
  <2>0. pc[w] \in {"locate", "locate2"}
    BY <1>4 DEF SideLocate
  <2>1. CASE ~ Placeable(Side(w)) /\ SideDone(w, <<>>)
    <3>1. w \notin raced => SideOf(Side(w)) = <<>>
      <4>1. w \notin raced => RuleOf(Side(w)) = NoRule
        BY <2>0 DEF SidesOK, SidesInv
      <4> QED BY <2>1, <4>1, ZenonT(40) DEF SideOf
    <3> QED BY <1>0, <2>0, <2>1, <3>1, SideDoneKeeps, ZenonT(40)
  <2>2. CASE /\ Placeable(Side(w)) /\ call' = [call EXCEPT ![w].at = geo.db[Side(w)]]
             /\ UNCHANGED <<sides, history>>
             /\ Goto(w, IF pc[w] = "locate" THEN "geo" ELSE "geo2")
    <3> DEFINE l == IF pc[w] = "locate" THEN "geo" ELSE "geo2"
    <3>1. /\ sides' = [sides EXCEPT ![w] = sides'[w]] /\ call' = [call EXCEPT ![w] = call'[w]]
          /\ "at" \in DOMAIN call'[w]
      BY <2>2, Zenon DEF SidesInv
    <3>2. l \in Labels /\ l # "idle" /\ pc'[w] = l /\ raced' = raced
      BY <2>2 DEF Labels, SidesInv, Goto, history
    <3>3. w \notin raced => SidesOK(w)'
      <4> SUFFICES ASSUME w \notin raced PROVE SidesOK(w)'
        OBVIOUS
      <4>0. SidesOK(w)
        BY DEF SidesInv
      <4>1. call'[w].from = call[w].from /\ call'[w].to = call[w].to /\ call'[w].at = geo.db[Side(w)]
        <5>1. call'[w] = [call[w] EXCEPT !.at = geo.db[Side(w)]]
          BY <2>2, ZenonT(40) DEF SidesInv
        <5>2. "at" \in DOMAIN call[w]
          BY DEF SidesInv
        <5> HIDE <2>2
        <5> QED BY <5>1, <5>2
      <4>2. Side(w)' = Side(w)
        BY <2>0, <3>2, <4>1, ZenonT(40) DEF Side
      <4>3. /\ RuleOf(Side(w))' = RuleOf(Side(w)) /\ (Placeable(Side(w))' <=> Placeable(Side(w)))
            /\ SideOf(call[w].from)' = SideOf(call[w].from)
        BY <1>0, <4>1, <4>2, ZenonT(40) DEF RuleOf, SideOf, Placeable
      <4>4. sides'[w] = IF pc[w] = "locate" THEN <<>> ELSE SideOf(call[w].from)
        BY <2>0, <2>2, <4>0, ZenonT(40) DEF SidesOK, Unread
      <4>5. RuleOf(Side(w)) = NoRule
        BY <2>0, <4>0, ZenonT(40) DEF SidesOK
      <4>6. (call[w].at = geo.db[Side(w)])'
        BY <1>0, <4>1, <4>2, ZenonT(40)
      <4>7. pc'[w] = "geo" \/ pc'[w] = "geo2"
        BY <3>2
      <4> QED BY <2>2, <3>2, <4>3, <4>4, <4>5, <4>6, <4>7, ZenonT(40) DEF SidesOK, Unread
    <3> HIDE DEF l
    <3> QED BY <1>0, <2>2, <3>1, <3>2, <3>3, OneStepKeeps, ZenonT(40) DEF l
  <2> QED BY <1>4, <2>1, <2>2, ZenonT(40) DEF SideLocate, Placeable
<1>5. CASE SideGeo(w)
  <2>0. pc[w] \in {"geo", "geo2"} /\ SideDone(w, <<costs_from(geo.loc.relays, call[w].at)>>)
    BY <1>5 DEF SideGeo
  <2>1. w \notin raced => SideOf(Side(w)) = <<costs_from(geo.loc.relays, call[w].at)>>
    <3>1. w \notin raced => /\ RuleOf(Side(w)) = NoRule /\ Placeable(Side(w))
                           /\ call[w].at = geo.db[Side(w)]
      BY <2>0 DEF SidesOK, SidesInv
    <3> QED BY <3>1, ZenonT(40) DEF SideOf
  <2> QED BY <1>0, <2>0, <2>1, SideDoneKeeps, ZenonT(40)
<1>6. CASE Choose(w)
  <2>1. CASE \E r : Answer(w, r)
    BY <1>0, <2>1, ReturnKeepsSides, ZenonT(40) DEF Answer
  <2>2. CASE UNCHANGED <<call, sides, history>> /\ Goto(w, "pin")
    <3>1. /\ sides' = [sides EXCEPT ![w] = sides'[w]] /\ call' = [call EXCEPT ![w] = call'[w]]
          /\ "at" \in DOMAIN call'[w]
      BY <2>2, Zenon DEF SidesInv
    <3>2. "pin" \in Labels /\ pc'[w] = "pin" /\ raced' = raced
      BY <2>2, Zenon DEF Labels, SidesInv, Goto, history
    <3>3. SidesOK(w)'
      BY <3>2, Zenon DEF SidesOK, Unread
    <3> QED BY <1>0, <2>2, <3>1, <3>2, <3>3, OneStepKeeps, ZenonT(40)
  <2> QED BY <1>6, <2>1, <2>2, ZenonT(40) DEF Choose
<1>7. CASE Pin(w)
  BY <1>0, <1>7, ReturnKeepsSides, ZenonT(40) DEF Pin
<1> QED BY <1>1, <1>2, <1>3, <1>4, <1>5, <1>6, <1>7, ZenonT(40) DEF Step

LEMMA SidesInvInit == Init => SidesInv
<1> SUFFICES ASSUME Init PROVE SidesInv
  OBVIOUS
<1>1. /\ pc = [w \in Worker |-> "idle"] /\ sides = [w \in Worker |-> <<>>]
      /\ call = [w \in Worker |-> NoCall]
  BY ZenonT(40) DEF Init
<1>2. "at" \in DOMAIN NoCall /\ "idle" \in Labels
  BY DEF NoCall, Labels
<1> QED BY <1>1, <1>2 DEF SidesInv, SidesOK

LEMMA CallsHaveAt == \A c \in Calls : "at" \in DOMAIN c
  BY DEF Calls

(* A table that is replaced was not in force when any call still under way *)
(* began, but those the history marks.                                     *)
LEMMA SidesNextInv == ASSUME FileInv, SidesInv, [Next]_<<vars, world>> PROVE SidesInv'
<1>1. ASSUME UNCHANGED <<routes, geo, callers>>, raced \subseteq raced' PROVE SidesInv'
  <2>1. UNCHANGED <<pc, call, sides>>
    BY <1>1 DEF callers
  <2>2. ASSUME NEW v \in Worker, v \notin raced' PROVE SidesOK(v)'
    BY <1>1, <2>1, <2>2, SidesKept, ZenonT(40) DEF SidesInv
  <2> QED BY <2>1, <2>2, ZenonT(40) DEF SidesInv
<1>2. ASSUME AllOpen, UNCHANGED callers PROVE SidesInv'
  <2>1. UNCHANGED <<pc, call, sides>>
    BY <1>2 DEF callers
  <2>2. ASSUME NEW v \in Worker, v \notin raced' PROVE SidesOK(v)'
    <3>1. pc'[v] = "idle" /\ sides'[v] = <<>>
      BY <1>2, <2>1, <2>2, ZenonT(40) DEF AllOpen, UnderWay, SidesInv
    <3> QED BY <3>1, Zenon DEF SidesOK
  <2> QED BY <2>1, <2>2, ZenonT(40) DEF SidesInv
<1>3. ASSUME NEW w \in Worker, Step(w) PROVE SidesInv'
  BY <1>3, StepKeepsSides
<1>4. ASSUME NEW w \in Worker, NEW c \in Calls, Pick(w, c) PROVE SidesInv'
  <2>1. UNCHANGED <<routes, geo, sides, raced>> /\ pc[w] = "idle" /\ Goto(w, "preferred")
    BY <1>4, ZenonT(40) DEF Pick, store
  <2>2. call' = [call EXCEPT ![w] = c] /\ "at" \in DOMAIN c
    BY <1>4, CallsHaveAt, ZenonT(40) DEF Pick
  <2>3. /\ sides' = [sides EXCEPT ![w] = sides'[w]] /\ call' = [call EXCEPT ![w] = call'[w]]
        /\ "at" \in DOMAIN call'[w] /\ sides'[w] = <<>>
    BY <2>1, <2>2, ZenonT(40) DEF SidesInv
  <2>4. "preferred" \in Labels /\ pc'[w] = "preferred"
    BY <2>1 DEF Labels, SidesInv, Goto
  <2>5. SidesOK(w)'
    BY <2>3, <2>4 DEF SidesOK
  <2> QED BY <2>1, <2>3, <2>4, <2>5, OneStepKeeps, ZenonT(40)
<1>5. CASE ReloadRoutes
  <2>1. \/ UNCHANGED <<routes, geo, callers, history>>
        \/ AllOpen /\ UNCHANGED callers
    BY <1>5, Zenon DEF ReloadRoutes
  <2> QED BY <1>1, <1>2, <2>1, ZenonT(40) DEF history
<1>6. CASE SetGeo
  <2>1. CASE loaded = {}
    <3>1. geo' = [f \in GeoParts |-> geo[f]] /\ UNCHANGED <<routes, callers, raced>>
      BY <1>6, <2>1 DEF SetGeo, GeoParts, history, AllOpen
    <3>2. geo' = geo
      BY <3>1, Zenon DEF FileInv
    <3> QED BY <1>1, <3>1, <3>2, ZenonT(40)
  <2>2. CASE loaded # {}
    <3>1. AllOpen /\ UNCHANGED callers
      BY <1>6, <2>2, ZenonT(40) DEF SetGeo
    <3> QED BY <1>2, <3>1
  <2> QED BY <2>1, <2>2
<1>7. CASE Restart
  <2>1. /\ pc' = [w \in Worker |-> "idle"] /\ sides' = [w \in Worker |-> <<>>]
        /\ call' = [w \in Worker |-> NoCall]
    BY <1>7 DEF Restart
  <2>2. "at" \in DOMAIN NoCall /\ "idle" \in Labels
    BY DEF NoCall, Labels
  <2> QED BY <2>1, <2>2, ZenonT(40) DEF SidesInv, SidesOK
<1>8. ASSUME NEW k \in Key, Expire(k) PROVE SidesInv'
  <2>1. UNCHANGED <<routes, geo, callers, raced>>
    BY <1>8 DEF Expire, store
  <2> QED BY <1>1, <2>1
<1>9. ASSUME NEW f, NEW x, WriteFile(f, x) PROVE SidesInv'
  <2>1. UNCHANGED <<routes, geo, callers, raced>>
    BY <1>9 DEF WriteFile, history
  <2> QED BY <1>1, <2>1
<1>10. CASE \/ LoadGeo \/ ClearPins \/ CommandClears \/ OpenFile \/ WriteChoice \/ Remove
            \/ UNCHANGED <<vars, world>>
  <2>1. UNCHANGED <<routes, geo, callers, raced>>
    BY <1>10, ZenonT(40) DEF LoadGeo, ClearPins, CommandClears, OpenFile, WriteChoice, Remove, OnFile,
                store, history, vars
  <2> QED BY <1>1, <2>1
<1>11. ASSUME (\E l \in Lists : SetLive(l)) \/ \E l : Commanded(l) PROVE SidesInv'
  BY <1>2, <1>11, ZenonT(40) DEF SetLive, Commanded
<1> QED BY <1>3, <1>4, <1>5, <1>6, <1>7, <1>8, <1>9, <1>10, <1>11, ZenonT(40) DEF Next, UseRelay, UseAuto, UseNothing

LEMMA FilesInvariant == Spec => [](FileInv /\ SidesInv)
<1>1. Init => FileInv /\ SidesInv
  BY FileInvInit, SidesInvInit
<1>2. (FileInv /\ SidesInv) /\ [Next]_<<vars, world>> => (FileInv /\ SidesInv)'
  BY FileNextInv, SidesNextInv
<1> QED BY <1>1, <1>2, PTL DEF Spec

-----------------------------------------------------------------------------
(* Entries of which no two name the same relay.                            *)
NoTwoName(s) == \A i, j \in 1..Len(s) : i < j => s[i].relay # s[j].relay

LEMMA NamedOnce ==
    ASSUME NEW s, s \in Seq(RangeOf(s)), NoTwoName(s), NEW k \in 1..Len(s), NEW r, s[k].relay = r
    PROVE  /\ (CHOOSE e \in {s[i] : i \in 1..Len(s)} : e.relay = r) = s[k]
           /\ {i \in 1..Len(s) : s[i].relay = r} = {k}
<1>1. ASSUME NEW i \in 1..Len(s), s[i].relay = r PROVE i = k
  <2>1. i < k \/ k < i \/ i = k
    OBVIOUS
  <2> QED BY <1>1, <2>1 DEF NoTwoName
<1> DEFINE e == CHOOSE e \in {s[i] : i \in 1..Len(s)} : e.relay = r
<1>2. e \in {s[i] : i \in 1..Len(s)} /\ e.relay = r
  OBVIOUS
<1>3. PICK i \in 1..Len(s) : e = s[i]
  BY <1>2
<1>4. e = s[k]
  BY <1>1, <1>2, <1>3, ZenonT(40)
<1> QED BY <1>1, <1>4, ZenonT(40)

(* What a line says of a relay, and what the relay locations say of it.    *)
LineSaid(s, r) == {s[i].ms : i \in {k \in 1..Len(s) : s[k].relay = r}}
LocationSaid(t, at, r) == {Distance[<<at, t[i].at>>] : i \in {k \in 1..Len(t) : t[k].relay = r}}
TheOne(said) == IF said = {} THEN Unlisted ELSE CHOOSE ms \in said : TRUE
CostsIn(s) ==
    [r \in {s[i].relay : i \in 1..Len(s)} |-> (CHOOSE e \in {s[i] : i \in 1..Len(s)} : e.relay = r).ms]

LEMMA TheOneIs == /\ TheOne({}) = Unlisted /\ \A x : TheOne({x}) = x
  BY Zenon DEF TheOne

(* Costs has what a line of the table says.                                *)
LEMMA EntriesSay ==
    ASSUME NEW s, s \in Seq(RangeOf(s)), NoTwoName(s), \A i \in 1..Len(s) : s[i].ms \in Nat, NEW r
    PROVE  CostOf(CostsIn(s), r) = TheOne(LineSaid(s, r)) /\ CostOf(CostsIn(s), r) \in Nat
<1>1. CASE \A k \in 1..Len(s) : s[k].relay # r
  <2>1. r \notin DOMAIN CostsIn(s)
    BY <1>1 DEF CostsIn
  <2>2. LineSaid(s, r) = {}
    BY <1>1, ZenonT(40) DEF LineSaid
  <2>3. CostOf(CostsIn(s), r) = Unlisted
    BY <2>1, ZenonT(40) DEF CostOf
  <2> QED BY <2>2, <2>3, RoutesAssumption, TheOneIs, ZenonT(40)
<1>2. ASSUME NEW k \in 1..Len(s), s[k].relay = r
      PROVE  CostOf(CostsIn(s), r) = TheOne(LineSaid(s, r)) /\ CostOf(CostsIn(s), r) \in Nat
  <2>1. /\ {i \in 1..Len(s) : s[i].relay = r} = {k}
        /\ (CHOOSE e \in {s[i] : i \in 1..Len(s)} : e.relay = r) = s[k]
    BY <1>2, NamedOnce
  <2>2. r \in DOMAIN CostsIn(s) /\ CostsIn(s)[r] = s[k].ms
    BY <1>2, <2>1, ZenonT(40) DEF CostsIn
  <2>3. LineSaid(s, r) = {s[k].ms}
    BY <2>1, ZenonT(40) DEF LineSaid
  <2>4. CostOf(CostsIn(s), r) = s[k].ms /\ s[k].ms \in Nat
    BY <1>2, <2>2, ZenonT(40) DEF CostOf
  <2> QED BY <2>3, <2>4, TheOneIs, ZenonT(40)
<1> QED BY <1>1, <1>2, ZenonT(40)

LEMMA LineSays ==
    ASSUME NEW line, IsLine(line), ~ BadLine(line), NEW r
    PROVE  CostOf(Costs(line), r) = TheOne(LineSaid(line.costs, r)) /\ CostOf(Costs(line), r) \in Nat
<1>1. \A i \in 1..Len(line.costs) : line.costs[i] \in RangeOf(line.costs) /\ line.costs[i] # Bad
  BY Zenon DEF BadLine, RangeOf
<1>2. \A e \in RangeOf(line.costs) : e = Bad \/ e.ms \in Nat
  BY Zenon DEF IsLine
<1>3. NoTwoName(line.costs) /\ line.costs \in Seq(RangeOf(line.costs))
  BY Zenon DEF NoTwoName, BadLine, IsLine
<1>4. Costs(line) = CostsIn(line.costs)
  BY Zenon DEF Costs, CostsIn
<1>5. \A i \in 1..Len(line.costs) : line.costs[i].ms \in Nat
  BY <1>1, <1>2, ZenonT(40)
<1> QED BY <1>3, <1>4, <1>5, EntriesSay, ZenonT(40)

(* costs_from has what the relay locations say.                            *)
LEMMA LocationSays ==
    ASSUME NEW t, t \in Seq(RangeOf(t)), parse_locations(t) # Bad,
           NEW at, \A e \in RangeOf(t) : e = Bad \/ Distance[<<at, e.at>>] \in Nat, NEW r
    PROVE  /\ CostOf(costs_from(parse_locations(t), at), r) = TheOne(LocationSaid(t, at, r))
           /\ CostOf(costs_from(parse_locations(t), at), r) \in Nat
<1>0. NoTwoName(t) /\ \A i \in 1..Len(t) : t[i] # Bad
  BY ZenonT(40) DEF parse_locations, NoTwoName
<1>1. PICK locs : locs = parse_locations(t)
  OBVIOUS
<1>2. locs = [q \in {t[i].relay : i \in 1..Len(t)} |->
                 (CHOOSE e \in {t[i] : i \in 1..Len(t)} : e.relay = q).at]
  BY <1>1, ZenonT(40) DEF parse_locations
<1>3. PICK side : side = costs_from(locs, at)
  OBVIOUS
<1>4. DOMAIN side = DOMAIN locs /\ \A q \in DOMAIN locs : side[q] = Distance[<<at, locs[q]>>]
  BY <1>3, ZenonT(40) DEF costs_from
<1>5. CASE \A k \in 1..Len(t) : t[k].relay # r
  <2>1. r \notin DOMAIN side
    BY <1>2, <1>4, <1>5
  <2>2. LocationSaid(t, at, r) = {}
    BY <1>5, ZenonT(40) DEF LocationSaid
  <2>3. CostOf(side, r) = Unlisted
    BY <2>1, Zenon DEF CostOf
  <2> QED BY <1>1, <1>3, <2>2, <2>3, RoutesAssumption, TheOneIs, ZenonT(40)
<1>6. ASSUME NEW k \in 1..Len(t), t[k].relay = r
      PROVE  CostOf(side, r) = TheOne(LocationSaid(t, at, r)) /\ CostOf(side, r) \in Nat
  <2>1. /\ {i \in 1..Len(t) : t[i].relay = r} = {k}
        /\ (CHOOSE e \in {t[i] : i \in 1..Len(t)} : e.relay = r) = t[k]
    BY <1>0, <1>6, NamedOnce
  <2>2. r \in DOMAIN locs /\ locs[r] = t[k].at
    BY <1>2, <1>6, <2>1, ZenonT(40)
  <2>3. LocationSaid(t, at, r) = {Distance[<<at, t[k].at>>]}
    BY <2>1, ZenonT(40) DEF LocationSaid
  <2>4. t[k] \in RangeOf(t) /\ t[k] # Bad
    BY <1>0, ZenonT(40) DEF RangeOf
  <2>5. CostOf(side, r) = Distance[<<at, t[k].at>>] /\ Distance[<<at, t[k].at>>] \in Nat
    BY <1>4, <2>2, <2>4, ZenonT(40) DEF CostOf
  <2> QED BY <2>3, <2>5, TheOneIs, ZenonT(40)
<1> QED BY <1>1, <1>3, <1>5, <1>6, ZenonT(40)

(* The table in force is a good text, read.                                *)
LEMMA RoutesInForce ==
    ASSUME FileInv, routes # Bad
    PROVE  /\ TextOf(routes) \in Texts \ {Bad} /\ ~ Refused(TextOf(routes))
           /\ routes.rules = parse(TextOf(routes))
<1>1. PICK t \in Texts : routes = LoadedRoutes(t)
  BY DEF FileInv
<1>2. t # Bad /\ parse(t) # Bad /\ routes = [text |-> t, rules |-> parse(t)]
  BY <1>1 DEF LoadedRoutes
<1>3. ~ Refused(t)
  BY <1>2 DEF parse
<1>4. TextOf(routes) = t /\ routes.rules = parse(t)
  BY <1>2, Zenon DEF TextOf
<1> QED BY <1>1, <1>2, <1>3, <1>4, ZenonT(40)

LEMMA LocationsInForce ==
    ASSUME FileInv, geo.loc # Bad
    PROVE  /\ TextOf(geo.loc) \in Locations \ {Bad} /\ parse_locations(TextOf(geo.loc)) # Bad
           /\ geo.loc.relays = parse_locations(TextOf(geo.loc))
<1>1. PICK t \in Locations : geo.loc = LoadedLocations(t)
  BY ZenonT(40) DEF FileInv, ReadFrom, TextsOf, GeoParts, LoadedGeo
<1>2. t # Bad /\ parse_locations(t) # Bad /\ geo.loc = [text |-> t, relays |-> parse_locations(t)]
  BY <1>1 DEF LoadedLocations
<1>3. TextOf(geo.loc) = t /\ geo.loc.relays = parse_locations(t)
  BY <1>2 DEF TextOf
<1> QED BY <1>1, <1>2, <1>3, ZenonT(40)

LEMMA PlacesInForce == ASSUME FileInv PROVE geo.db \in Places
<1>1. PICK x \in Places : geo.db = LoadedGeo("db", x)
  <2>1. "db" \in GeoParts /\ TextsOf("db") = Places
    BY DEF GeoParts, TextsOf
  <2> QED BY <2>1, Zenon DEF FileInv, ReadFrom
<1>2. LoadedGeo("db", x) = x
  BY DEF LoadedGeo
<1> QED BY <1>1, <1>2

(* What side_costs finds for an address is what the files say of it.       *)
Known(ip) == Hits(TextOf(routes), ip) # {} \/ Placed(ip) # Bad

LEMMA RoutedSays ==
    ASSUME FileInv, NEW ip, Hits(TextOf(routes), ip) # {}
    PROVE  \E c : SideOf(ip) = <<c>> /\ \A r : CostOf(c, r) = Cost(ip, r) /\ Cost(ip, r) \in Nat
<1> DEFINE text == TextOf(routes)
<1>0. Hits(text, ip) # {}
  OBVIOUS
<1>1. routes # Bad
  BY DEF TextOf, Hits
<1>2. /\ text \in Seq(RangeOf(text)) /\ ~ Refused(text) /\ routes.rules = parse(text)
      /\ \A l \in RangeOf(text) : IsLine(l)
  BY <1>1, RoutesInForce, FilesAssumption, ZenonT(40) DEF FileInv, Texts
<1> HIDE DEF text
<1>3. \A i \in 1..Len(text) : text[i] \in RangeOf(text) /\ ~ BadLine(text[i])
  BY <1>2, Zenon DEF RangeOf, Refused
<1>4. \A l \in RangeOf(text) : l # NoRule /\ l.net.prefix \in Nat
  BY <1>2, <1>3, ZenonT(40) DEF RangeOf, IsLine, BadLine
<1>5. IsLines(RangeOf(text))
  BY <1>4, ZenonT(40) DEF IsLines
<1>6. PICK i \in 1..Len(text) :
          /\ MostSpecific(text, ip, i) /\ lookup(parse(text), ip) = text[i]
          /\ \A j \in 1..Len(text) : MostSpecific(text, ip, j) => j = i
  BY <1>0, <1>2, <1>5, LongestPrefix
<1>7. (CHOOSE j \in 1..Len(text) : MostSpecific(text, ip, j)) = i
  BY <1>6, ZenonT(40)
<1>8. IsLine(text[i]) /\ ~ BadLine(text[i]) /\ text[i] # NoRule
  BY <1>2, <1>3, <1>4, ZenonT(40)
<1>9. RuleOf(ip) = text[i] /\ SideOf(ip) = <<Costs(text[i])>>
  BY <1>1, <1>2, <1>6, <1>8, ZenonT(40) DEF RuleOf, SideOf
<1>10. ASSUME NEW r PROVE Cost(ip, r) = TheOne(LineSaid(text[i].costs, r))
  <2> DEFINE j == CHOOSE j \in 1..Len(text) : MostSpecific(text, ip, j)
  <2>1. Cost(ip, r) = SaysOfOne(text, ip, TextOf(geo.loc), Placed(ip), r)
    BY DEF Cost, text
  <2>2. SaysOfOne(text, ip, TextOf(geo.loc), Placed(ip), r) = TheOne(LineSaid(text[j].costs, r))
    BY <1>0, ZenonT(40) DEF SaysOfOne, TheOne, LineSaid
  <2> QED BY <1>7, <2>1, <2>2, ZenonT(40)
<1>11. \A r : CostOf(Costs(text[i]), r) = Cost(ip, r) /\ Cost(ip, r) \in Nat
  BY <1>8, <1>10, LineSays, ZenonT(40)
<1> QED BY <1>9, <1>11, ZenonT(40)

LEMMA PlacedSays ==
    ASSUME FileInv, NEW ip, Hits(TextOf(routes), ip) = {}
    PROVE  /\ Placed(ip) = Bad => SideOf(ip) = <<>> /\ \A r : Cost(ip, r) = 0
           /\ Placed(ip) # Bad =>
                 \E c : SideOf(ip) = <<c>> /\ \A r : CostOf(c, r) = Cost(ip, r) /\ Cost(ip, r) \in Nat
<1>1. RuleOf(ip) = NoRule
  <2>1. CASE routes = Bad
    BY <2>1, ZenonT(40) DEF RuleOf
  <2>2. CASE routes # Bad
    <3>1. /\ TextOf(routes) \in Seq(RangeOf(TextOf(routes))) /\ ~ Refused(TextOf(routes))
          /\ routes.rules = parse(TextOf(routes)) /\ \A l \in RangeOf(TextOf(routes)) : IsLine(l)
      BY <2>2, RoutesInForce, FilesAssumption, ZenonT(40) DEF FileInv, Texts
    <3>2. \A i \in 1..Len(TextOf(routes)) : ~ BadLine(TextOf(routes)[i])
      BY <3>1, ZenonT(40) DEF Refused
    <3>3. IsLines(RangeOf(TextOf(routes)))
      BY <3>1, <3>2, ZenonT(40) DEF IsLines, RangeOf, IsLine, BadLine
    <3>4. lookup(parse(TextOf(routes)), ip) = NoRule
      BY <3>1, <3>3, LongestPrefix, ZenonT(40)
    <3> QED BY <2>2, <3>1, <3>4, ZenonT(40) DEF RuleOf
  <2> QED BY <2>1, <2>2
<1>2. Placeable(ip) => Placed(ip) = geo.db[ip] /\ geo.db[ip] # Bad
  BY PlacesInForce, FilesAssumption DEF Placeable, Placed, FileInv, Places
<1>3. ~ Placeable(ip) => Placed(ip) = Bad
  BY DEF Placeable, Placed
<1>4. CASE Placed(ip) = Bad
  <2>1. SideOf(ip) = <<>>
    BY <1>1, <1>2, <1>4, ZenonT(40) DEF SideOf
  <2>2. \A r : Cost(ip, r) = 0
    BY <1>4, ZenonT(40) DEF Cost, SaysOfOne
  <2> QED BY <1>4, <2>1, <2>2, ZenonT(40)
<1>5. CASE Placed(ip) # Bad
  <2> DEFINE t == TextOf(geo.loc)
             at == Placed(ip)
  <2>0. Placeable(ip) /\ at = geo.db[ip] /\ geo.loc # Bad /\ geo.db # Bad /\ ip \in DOMAIN geo.db
    BY <1>2, <1>3, <1>5, ZenonT(40) DEF Placeable
  <2>1. /\ t \in Locations \ {Bad} /\ parse_locations(t) # Bad
        /\ geo.loc.relays = parse_locations(t) /\ geo.db \in Places \ {Bad}
    BY <2>0, LocationsInForce, PlacesInForce, ZenonT(40)
  <2>2. t \in Seq(RangeOf(t)) /\ \A e \in RangeOf(t) : e = Bad \/ Distance[<<at, e.at>>] \in Nat
    <3> HIDE DEF t, at
    <3> QED BY <2>0, <2>1, FilesAssumption, ZenonT(40) DEF FileInv, Locations, Places
  <2>3. SideOf(ip) = <<costs_from(parse_locations(t), at)>>
    BY <1>1, <2>0, <2>1, ZenonT(40) DEF SideOf
  <2>4. ASSUME NEW r PROVE Cost(ip, r) = TheOne(LocationSaid(t, at, r))
    BY <1>5, ZenonT(40) DEF Cost, SaysOfOne, TheOne, LocationSaid
  <2> HIDE DEF t, at
  <2>5. \A r : /\ CostOf(costs_from(parse_locations(t), at), r) = Cost(ip, r)
               /\ Cost(ip, r) \in Nat
    BY <2>1, <2>2, <2>4, LocationSays, ZenonT(40)
  <2> QED BY <1>5, <2>3, <2>5, ZenonT(40)
<1> QED BY <1>4, <1>5, ZenonT(40)

(* The totals of one known side and of two.                                *)
LEMMA TotalOfOne ==
    ASSUME NEW c, NEW r, CostOf(c, r) \in Nat
    PROVE  Total(<<c>>, r) = CostOf(c, r)
<1> DEFINE known == <<c>>
           f == CHOOSE g : Sums(g, known, r, 1)
<1>1. Len(known) = 1 /\ known[1] = c
  OBVIOUS
<1> HIDE DEF known
<1>2. Total(known, r) = f[1]
  BY <1>1 DEF Total, Sums
<1>3. Sums(f, known, r, 1)
  <2>1. \E g : Sums(g, known, r, 1)
    BY SumIsDefined
  <2> QED BY <2>1
<1> HIDE DEF f
<1>4. f[0] = 0 /\ f[1] = f[0] + CostOf(known[1], r)
  BY <1>3 DEF Sums
<1>5. Total(known, r) = CostOf(c, r)
  BY <1>1, <1>2, <1>4
<1> QED BY <1>5 DEF known

LEMMA TotalOfTwo ==
    ASSUME NEW known, Len(known) = 2, NEW r, CostOf(known[1], r) \in Nat, CostOf(known[2], r) \in Nat
    PROVE  Total(known, r) = CostOf(known[1], r) + CostOf(known[2], r)
<1> DEFINE f == CHOOSE g : Sums(g, known, r, 2)
<1>1. Total(known, r) = f[2]
  BY DEF Total, Sums
<1>2. Sums(f, known, r, 2)
  <2>1. \E g : Sums(g, known, r, 2)
    BY SumIsDefined
  <2> QED BY <2>1
<1> HIDE DEF f
<1>3. f[0] = 0 /\ f[1] = f[0] + CostOf(known[1], r) /\ f[2] = f[1] + CostOf(known[2], r)
  BY <1>2 DEF Sums
<1> QED BY <1>1, <1>3

(* What the two sides add up to is what the files say of the two ends.     *)
LEMMA SidesAddUp ==
    ASSUME FileInv, NEW x, NEW y, Known(x) \/ Known(y)
    PROVE  LET known == SideOf(x) \o SideOf(y)
           IN  /\ known # <<>> /\ Len(known) \in Nat
               /\ \A r : Costed(known, r) /\ Total(known, r) = Cost(x, r) + Cost(y, r)
<1>1. ASSUME NEW ip, ~ Known(ip) PROVE SideOf(ip) = <<>> /\ \A r : Cost(ip, r) = 0
  BY <1>1, PlacedSays, ZenonT(40) DEF Known
<1>2. ASSUME NEW ip, Known(ip)
      PROVE  \E c : SideOf(ip) = <<c>> /\ \A r : CostOf(c, r) = Cost(ip, r) /\ Cost(ip, r) \in Nat
  BY <1>2, PlacedSays, RoutedSays, ZenonT(40) DEF Known
<1>3. ASSUME NEW c, \A r : CostOf(c, r) \in Nat
      PROVE  <<c>> # <<>> /\ Len(<<c>>) \in Nat /\ \A r : Costed(<<c>>, r)
  BY <1>3 DEF Costed
<1>5. CASE Known(x) /\ Known(y)
  <2>1. PICK c : SideOf(x) = <<c>> /\ \A r : CostOf(c, r) = Cost(x, r) /\ Cost(x, r) \in Nat
    BY <1>2, <1>5, ZenonT(40)
  <2>2. PICK d : SideOf(y) = <<d>> /\ \A r : CostOf(d, r) = Cost(y, r) /\ Cost(y, r) \in Nat
    BY <1>2, <1>5
  <2> DEFINE both == <<c>> \o <<d>>
  <2>3. Len(both) = 2 /\ both[1] = c /\ both[2] = d
    <3>1. <<c>> \in Seq({c, d}) /\ <<d>> \in Seq({c, d}) /\ Len(<<c>>) = 1 /\ Len(<<d>>) = 1
      OBVIOUS
    <3> QED BY <3>1, ConcatProperties
  <2>4. SideOf(x) \o SideOf(y) = both
    BY <2>1, <2>2, ZenonT(40)
  <2> HIDE DEF both
  <2>5. \A r : CostOf(both[1], r) \in Nat /\ CostOf(both[2], r) \in Nat
    BY <2>1, <2>2, <2>3, ZenonT(40)
  <2>6. \A r : Total(both, r) = Cost(x, r) + Cost(y, r)
    BY <2>1, <2>2, <2>3, <2>5, TotalOfTwo, ZenonT(40)
  <2>7. \A r : Costed(both, r)
    BY <2>3, <2>5 DEF Costed
  <2>8. both # <<>> /\ Len(both) \in Nat
    <3>1. Len(<<>>) = 0
      OBVIOUS
    <3> QED BY <2>3, <3>1
  <2> QED BY <2>4, <2>6, <2>7, <2>8, ZenonT(40)
<1>6. CASE Known(x) /\ ~ Known(y)
  <2>1. PICK c : SideOf(x) = <<c>> /\ \A r : CostOf(c, r) = Cost(x, r) /\ Cost(x, r) \in Nat
    BY <1>2, <1>6, ZenonT(40)
  <2>2. SideOf(y) = <<>> /\ \A r : Cost(y, r) = 0
    BY <1>1, <1>6, ZenonT(40)
  <2>3. <<c>> \o <<>> = <<c>>
    <3>1. <<c>> \in Seq({c})
      OBVIOUS
    <3> QED BY <3>1, ConcatEmptySeq, ZenonT(40)
  <2>4. \A r : CostOf(c, r) \in Nat
    BY <2>1, ZenonT(40)
  <2>5. ASSUME NEW r PROVE Total(<<c>>, r) = Cost(x, r) + Cost(y, r)
    <3>1. Cost(x, r) \in Nat /\ Cost(y, r) = 0 /\ Total(<<c>>, r) = Cost(x, r)
      BY <2>1, <2>2, <2>4, TotalOfOne, ZenonT(40)
    <3> QED BY <3>1
  <2>6. SideOf(x) \o SideOf(y) = <<c>>
    BY <2>1, <2>2, <2>3, ZenonT(40)
  <2> QED BY <1>3, <2>4, <2>5, <2>6, ZenonT(40)
<1>7. CASE ~ Known(x) /\ Known(y)
  <2>1. PICK c : SideOf(y) = <<c>> /\ \A r : CostOf(c, r) = Cost(y, r) /\ Cost(y, r) \in Nat
    BY <1>2, <1>7, ZenonT(40)
  <2>2. SideOf(x) = <<>> /\ \A r : Cost(x, r) = 0
    BY <1>1, <1>7, ZenonT(40)
  <2>3. <<>> \o <<c>> = <<c>>
    OBVIOUS
  <2>4. \A r : CostOf(c, r) \in Nat
    BY <2>1, ZenonT(40)
  <2>5. ASSUME NEW r PROVE Total(<<c>>, r) = Cost(x, r) + Cost(y, r)
    <3>1. Cost(y, r) \in Nat /\ Cost(x, r) = 0 /\ Total(<<c>>, r) = Cost(y, r)
      BY <2>1, <2>2, <2>4, TotalOfOne, ZenonT(40)
    <3> QED BY <3>1
  <2>6. SideOf(x) \o SideOf(y) = <<c>>
    BY <2>1, <2>2, <2>3, ZenonT(40)
  <2> QED BY <1>3, <2>4, <2>5, <2>6, ZenonT(40)
<1> QED BY <1>5, <1>6, <1>7, ZenonT(40)

(* A choice by routing table and locations is the first of the cheapest,   *)
(* by the lines of the files and for every table, database and list of     *)
(* healthy relays; whatever the other callers, the io loop and the console *)
(* do meanwhile, if no reload overtakes the call (pick, side_costs).       *)
THEOREM RoutesRightHolds == Spec => RoutesRight
<1> DEFINE Right(w) ==
        LET c == call[w]
            known == \E ip \in {c.from, c.to} : Hits(TextOf(routes), ip) # {} \/ Placed(ip) # Bad
        IN  pc[w] = "choose" /\ Step(w) /\ w \notin raced /\ known
            => FirstCheapest(snap[w], [r \in RangeOf(snap[w]) |-> Cost(c.from, r) + Cost(c.to, r)],
                             ans'[w])
<1>1. ASSUME FileInv, SidesInv, SnapInv, NEW w \in Worker PROVE Right(w)
  <2> DEFINE x == call[w].from
             y == call[w].to
             known == SideOf(x) \o SideOf(y)
  <2> SUFFICES ASSUME pc[w] = "choose", Step(w), w \notin raced, Known(x) \/ Known(y)
               PROVE  FirstCheapest(snap[w], [r \in RangeOf(snap[w]) |-> Cost(x, r) + Cost(y, r)], ans'[w])
    BY Zenon DEF Known
  <2>1. sides[w] = known
    BY <1>1, ZenonT(40) DEF SidesInv, SidesOK
  <2>2. /\ known # <<>>
        /\ \A r : Costed(known, r) /\ Total(known, r) = Cost(x, r) + Cost(y, r)
    <3> HIDE DEF x, y
    <3> QED BY <1>1, SidesAddUp, ZenonT(40)
  <2> HIDE DEF known
  <2>3. snap[w] \in Seq(Relay) /\ snap[w] # <<>>
    <3>1. pc[w] \in Choosing
      BY DEF Choosing, Labels
    <3> QED BY <1>1, <3>1, ZenonT(40) DEF SnapInv
  <2>4. Choose(w)
    BY ZenonT(40) DEF Step, Preferred, Pinned, SideRoutes, SideLocate, SideGeo, Pin
  <2>5. ans'[w] = choose_from(snap[w], sides[w])
    BY <1>1, <2>1, <2>2, <2>4, ZenonT(40) DEF Choose, Answer, SnapInv
  <2>6. FirstCheapest(snap[w], [r \in RangeOf(snap[w]) |-> Total(known, r)], ans'[w])
    BY <2>1, <2>2, <2>3, <2>5, CheapestFirst, ZenonT(40)
  <2>7. [r \in RangeOf(snap[w]) |-> Total(known, r)] = [r \in RangeOf(snap[w]) |-> Cost(x, r) + Cost(y, r)]
    BY <2>2, ZenonT(40)
  <2> QED BY <2>6, <2>7, ZenonT(40)
<1>2. FileInv /\ SidesInv /\ SnapInv => [\A w \in Worker : Right(w)]_vars
  BY <1>1, ZenonT(40)
<1> QED BY <1>2, FilesInvariant, SnapInvariant, PTL DEF RoutesRight
=============================================================================
