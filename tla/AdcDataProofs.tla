---------------------------- MODULE AdcDataProofs ----------------------------
(***************************************************************************)
(* What the calls of a pass compute, for any data: the subnets and static  *)
(* ranges of a network, the values for AKO, the check of IP families and   *)
(* the AKO role.                                                           *)
(***************************************************************************)
EXTENDS AviNetworks, AkoValues, AkoRole, FiniteSetTheorems, NaturalsInduction,
        WellFoundedInduction, TLAPS

LEMMA LeastExists ==
  ASSUME NEW S \in SUBSET Nat, S # {}
  PROVE  \E i \in S : \A j \in S : i <= j
<1> DEFINE R == OpToRel(<, Nat)
<1>1. IsWellFoundedOn(R, Nat)
  BY Zenon, NatLessThanWellFounded
<1>2. \A x, y \in Nat : x < y => <<x, y>> \in R
  BY DEF OpToRel
<1> HIDE DEF R
<1>3. PICK i \in S : \A j \in S : ~(<<j, i>> \in R)
  BY Zenon, <1>1, WFMin
<1>4. i \in Nat /\ \A j \in S : j \in Nat
  OBVIOUS
<1>5. \A j \in S : ~(j < i)
  BY Zenon, <1>2, <1>3, <1>4
<1>6. \A j \in S : i <= j
  BY <1>4, <1>5
<1> QED
  BY <1>6

\* What the provers need to know of sequences, for any elements.
LEMMA SeqFacts ==
  ASSUME NEW T, NEW s \in Seq(T)
  PROVE  Len(s) \in Nat /\ DOMAIN s = 1..Len(s) /\ \A i \in DOMAIN s : s[i] \in T
  OBVIOUS

LEMMA AppendFacts ==
  ASSUME NEW T, NEW s \in Seq(T), NEW x \in T
  PROVE  LET n == Len(s)
             a == Append(s, x)
         IN /\ a \in Seq(T) /\ Len(a) = n + 1 /\ DOMAIN a = 1..(n + 1) /\ a[n + 1] = x
            /\ \A i \in 1..n : i \in 1..(n + 1) /\ a[i] = s[i]
  OBVIOUS

LEMMA ExceptFacts ==
  ASSUME NEW T, NEW s \in Seq(T), NEW i \in DOMAIN s, NEW x \in T
  PROVE  LET a == [s EXCEPT ![i] = x]
         IN /\ a \in Seq(T) /\ DOMAIN a = DOMAIN s /\ a[i] = x
            /\ \A j \in DOMAIN s : j # i => a[j] = s[j]
  OBVIOUS

-----------------------------------------------------------------------------
(***************************************************************************)
(* Static ranges.                                                          *)
(***************************************************************************)

LEMMA Bijections ==
  ASSUME NEW S, NEW p
  PROVE  p \in Bijection(S, S) <=>
           /\ p \in [S -> S]
           /\ \A i, j \in S : p[i] = p[j] => i = j
           /\ \A i \in S : \E j \in S : p[j] = i
  BY DEF Bijection, Injection, Surjection, IsInjective

\* A reordering of the first n positions that puts f in order.
Orders(f, p, n) ==
  /\ p \in Bijection(1..n, 1..n)
  /\ \A i, j \in 1..n : i < j => f[p[i]] <= f[p[j]]

\* One more position: the smallest value goes first, and the last value takes its place.
LEMMA OrderMore ==
  ASSUME NEW m \in Nat, NEW f \in [1..(m + 1) -> Nat],
         \A g \in [1..m -> Nat] : \E q : Orders(g, q, m)
  PROVE  \E p : Orders(f, p, m + 1)
<1> DEFINE n == m + 1
<1>1. PICK k \in 1..n : \A j \in 1..n : f[k] <= f[j]
  <2> DEFINE S == {f[i] : i \in 1..n}
  <2>1. S \in SUBSET Nat /\ f[1] \in S
    OBVIOUS
  <2>2. PICK v \in S : \A w \in S : v <= w
    BY Zenon, <2>1, LeastExists
  <2> QED
    BY <2>2
<1> DEFINE swap(i) == IF i = k THEN n ELSE i
           g == [i \in 1..m |-> f[swap(i)]]
<1>2. \A i \in 1..m : swap(i) \in 1..n /\ swap(i) # k
  OBVIOUS
<1>3. \A i, j \in 1..m : swap(i) = swap(j) => i = j
  OBVIOUS
<1>4. \A i \in 1..n : i # k => \E j \in 1..m : swap(j) = i
  <2> SUFFICES ASSUME NEW i \in 1..n, i # k PROVE \E j \in 1..m : swap(j) = i
    BY Zenon
  <2>1. CASE i = n
    <3>1. k \in 1..m /\ swap(k) = i
      BY <2>1
    <3> QED
      BY Zenon, <3>1
  <2>2. CASE i # n
    <3>1. i \in 1..m /\ swap(i) = i
      BY <2>2
    <3> QED
      BY Zenon, <3>1
  <2> QED
    BY <2>1, <2>2
<1>5. g \in [1..m -> Nat]
  BY <1>2
<1>6. PICK q : Orders(g, q, m)
  BY Zenon, <1>5
<1>7. /\ q \in [1..m -> 1..m]
      /\ \A i, j \in 1..m : q[i] = q[j] => i = j
      /\ \A i \in 1..m : \E j \in 1..m : q[j] = i
  BY Zenon, <1>6, Bijections DEF Orders
<1>8. \A i, j \in 1..m : i < j => f[swap(q[i])] <= f[swap(q[j])]
  BY Zenon, <1>6, <1>7 DEF Orders
<1> HIDE DEF swap, g
<1> DEFINE p == [i \in 1..n |-> IF i = 1 THEN k ELSE swap(q[i - 1])]
<1>9. \A i \in 1..n : i # 1 => i - 1 \in 1..m /\ q[i - 1] \in 1..m
  <2>1. \A i \in 1..n : i # 1 => i - 1 \in 1..m
    OBVIOUS
  <2> QED
    BY Zenon, <1>7, <2>1
<1>10. p \in [1..n -> 1..n] /\ \A i, j \in 1..n : p[i] = p[j] => i = j
  <2>1. \A i \in 1..n : p[i] \in 1..n
    BY Zenon, <1>2, <1>9
  <2>2. ASSUME NEW i \in 1..n, NEW j \in 1..n, p[i] = p[j] PROVE i = j
    <3>1. CASE i = 1 \/ j = 1
      BY Zenon, <1>2, <1>9, <2>2, <3>1
    <3>2. CASE i # 1 /\ j # 1
      <4>1. q[i - 1] = q[j - 1]
        BY <1>3, <1>9, <2>2, <3>2
      <4>2. i - 1 = j - 1
        BY <1>7, <1>9, <3>2, <4>1
      <4> QED
        BY <4>2
    <3> QED
      BY <3>1, <3>2
  <2> QED
    BY <2>1, <2>2
<1>11. \A i \in 1..n : \E j \in 1..n : p[j] = i
  <2> SUFFICES ASSUME NEW i \in 1..n PROVE \E j \in 1..n : p[j] = i
    OBVIOUS
  <2>1. CASE i = k
    BY <2>1
  <2>2. CASE i # k
    <3>1. PICK j \in 1..m : swap(j) = i
      BY <1>4, <2>2
    <3>2. PICK l \in 1..m : q[l] = j
      BY <1>7
    <3>3. l + 1 \in 1..n /\ p[l + 1] = i
      BY <3>1, <3>2
    <3> QED
      BY Zenon, <3>3
  <2> QED
    BY <2>1, <2>2
<1>12. \A i, j \in 1..n : i < j => f[p[i]] <= f[p[j]]
  <2> SUFFICES ASSUME NEW i \in 1..n, NEW j \in 1..n, i < j PROVE f[p[i]] <= f[p[j]]
    OBVIOUS
  <2>1. CASE i = 1
    BY <1>1, <1>10, <2>1
  <2>2. CASE i # 1
    <3>1. i - 1 \in 1..m /\ j - 1 \in 1..m /\ i - 1 < j - 1
      BY <2>2
    <3>2. p[i] = swap(q[i - 1]) /\ p[j] = swap(q[j - 1])
      BY <2>2
    <3> QED
      BY <1>8, <3>1, <3>2
  <2> QED
    BY <2>1, <2>2
<1>13. Orders(f, p, m + 1)
  <2> HIDE DEF p
  <2>1. p \in Bijection(1..n, 1..n)
    BY Zenon, <1>10, <1>11, Bijections
  <2> QED
    BY <1>12, <2>1 DEF Orders
<1> QED
  BY <1>13

\* Any list of numbers can be put in order.
LEMMA OrderExists ==
  ASSUME NEW n \in Nat, NEW f \in [1..n -> Nat]
  PROVE  \E p : Orders(f, p, n)
<1> DEFINE Fails == {m \in Nat : \E g \in [1..m -> Nat] : \A p : ~Orders(g, p, m)}
<1> SUFFICES ASSUME Fails # {} PROVE FALSE
  OBVIOUS
<1>1. PICK m \in Fails : \A j \in Fails : m <= j
  <2>1. Fails \in SUBSET Nat
    OBVIOUS
  <2> HIDE DEF Fails
  <2> QED
    BY <2>1, LeastExists
<1>2. CASE m = 0
  <2>1. PICK g \in [1..0 -> Nat] : \A p : ~Orders(g, p, 0)
    BY <1>1, <1>2
  <2>2. Orders(g, [i \in 1..0 |-> i], 0)
    <3> DEFINE p == [i \in 1..0 |-> i]
    <3>1. p \in [1..0 -> 1..0] /\ \A i \in 1..0 : FALSE
      OBVIOUS
    <3> HIDE DEF p
    <3>2. p \in Bijection(1..0, 1..0)
      BY Zenon, <3>1, Bijections
    <3>3. Orders(g, p, 0)
      BY <3>1, <3>2 DEF Orders
    <3> QED
      BY <3>3 DEF p
  <2> QED
    BY <2>1, <2>2
<1>3. CASE m # 0
  <2>1. m - 1 \in Nat /\ m - 1 \notin Fails
    <3>1. m \in Nat /\ m - 1 \in Nat /\ ~(m <= m - 1)
      BY <1>3
    <3> HIDE DEF Fails
    <3> QED
      BY <1>1, <3>1
  <2>2. \A g \in [1..(m - 1) -> Nat] : \E q : Orders(g, q, m - 1)
    BY Zenon, <2>1
  <2>3. PICK g \in [1..m -> Nat] : \A p : ~Orders(g, p, m)
    BY Zenon, <1>1
  <2>4. m \in Nat /\ (m - 1) + 1 = m
    BY <1>1
  <2> HIDE DEF Fails
  <2> DEFINE l == m - 1
  <2>5. l \in Nat /\ g \in [1..(l + 1) -> Nat] /\ \A h \in [1..l -> Nat] : \E q : Orders(h, q, l)
    BY Zenon, <2>1, <2>2, <2>4
  <2> HIDE DEF l
  <2>6. \E p : Orders(g, p, l + 1)
    BY Zenon, <2>5, OrderMore
  <2> QED
    BY <2>3, <2>4, <2>6 DEF l
<1> QED
  BY <1>2, <1>3

\* Sorting ranges reorders them, and puts them in the order of their first addresses
\* (SortStaticRanges).
THEOREM SortIsSorted ==
  ASSUME NEW r \in Seq(Pools)
  PROVE  LET s == SortStaticRanges(r)
         IN /\ s \in Seq(Pools) /\ Len(s) = Len(r) /\ Range(s) = Range(r)
            /\ \A i, j \in DOMAIN s : i < j => s[i].begin <= s[j].begin
            /\ \E p \in Bijection(DOMAIN r, DOMAIN r) : \A i \in DOMAIN r : s[i] = r[p[i]]
<1> DEFINE n == Len(r)
           f == [i \in 1..n |-> r[i].begin]
           Good(p) == \A i, j \in DOMAIN r : i < j => ~isIPLessThan(r[p[j]], r[p[i]])
           p == CHOOSE p \in Bijection(DOMAIN r, DOMAIN r) : Good(p)
           s == SortStaticRanges(r)
<1>1. n \in Nat /\ DOMAIN r = 1..n /\ \A i \in 1..n : r[i] \in Pools
  OBVIOUS
<1>2. \A i \in 1..n : r[i].begin \in Nat
  BY <1>1 DEF Pools
<1>3. f \in [1..n -> Nat]
  BY <1>2
<1>4. PICK q : Orders(f, q, n)
  BY Zenon, <1>1, <1>3, OrderExists
<1>5. q \in Bijection(1..n, 1..n) /\ q \in [1..n -> 1..n]
  BY Zenon, <1>4, Bijections DEF Orders
<1>6. Good(q)
  <2> SUFFICES ASSUME NEW i \in 1..n, NEW j \in 1..n, i < j PROVE ~(r[q[j]].begin < r[q[i]].begin)
    BY <1>1 DEF isIPLessThan
  <2>1. q[i] \in 1..n /\ q[j] \in 1..n /\ f[q[i]] <= f[q[j]]
    BY Zenon, <1>4, <1>5 DEF Orders
  <2> QED
    BY <1>2, <2>1
<1>7. p \in Bijection(1..n, 1..n) /\ Good(p)
  <2> HIDE DEF Good
  <2> QED
    BY <1>1, <1>5, <1>6
<1>8. /\ p \in [1..n -> 1..n]
      /\ \A i \in 1..n : \E j \in 1..n : p[j] = i
  <2>1. p \in Bijection(1..n, 1..n)
    BY <1>7
  <2> HIDE DEF p
  <2> QED
    BY Zenon, <2>1, Bijections
<1>9. s = [i \in 1..n |-> r[p[i]]]
  BY <1>1 DEF SortStaticRanges
<1>10. \A i, j \in 1..n : i < j => ~(r[p[j]].begin < r[p[i]].begin)
  BY Zenon, <1>1, <1>7 DEF isIPLessThan
<1> HIDE DEF p, s, f, Good
<1>11. s \in Seq(Pools) /\ Len(s) = n /\ DOMAIN s = 1..n
  BY <1>1, <1>8, <1>9
<1>12. Range(s) = Range(r)
  BY Zenon, <1>1, <1>8, <1>9, <1>11 DEF Range
<1>13. ASSUME NEW i \in 1..n, NEW j \in 1..n, i < j PROVE s[i].begin <= s[j].begin
  <2>1. p[i] \in 1..n /\ p[j] \in 1..n /\ s[i] = r[p[i]] /\ s[j] = r[p[j]]
    BY Zenon, <1>8, <1>9
  <2> QED
    BY <1>2, <1>10, <1>13, <2>1
<1>14. \E b \in Bijection(DOMAIN r, DOMAIN r) : \A i \in DOMAIN r : s[i] = r[b[i]]
  BY <1>1, <1>7, <1>9
<1> QED
  BY <1>11, <1>12, <1>13, <1>14 DEF s

\* Lists with the same ranges have the same bounds.
LEMMA BoundsOfRange ==
  ASSUME NEW r \in Seq(Pools), NEW s \in Seq(Pools), Range(r) = Range(s)
  PROVE  Range(Bounds(r)) = Range(Bounds(s))
<1>1. Range(Bounds(r)) = {<<x.begin, x.end>> : x \in Range(r)}
  BY DEF Range, Bounds
<1>2. Range(Bounds(s)) = {<<x.begin, x.end>> : x \in Range(s)}
  BY DEF Range, Bounds
<1> QED
  BY <1>1, <1>2

\* Ranges that IsStaticIPRangeEqual takes for equal have the same bounds.
LEMMA EqualBounds ==
  ASSUME NEW r \in Seq(Pools), NEW s \in Seq(Pools), IsStaticIPRangeEqual(r, s)
  PROVE  Range(Bounds(r)) = Range(Bounds(s))
<1> DEFINE sr == SortStaticRanges(r)
           ss == SortStaticRanges(s)
<1>1. sr \in Seq(Pools) /\ Range(sr) = Range(r) /\ ss \in Seq(Pools) /\ Range(ss) = Range(s)
  BY SortIsSorted
<1>2. Bounds(sr) = Bounds(ss)
  BY DEF IsStaticIPRangeEqual
<1> HIDE DEF sr, ss
<1>3. Range(Bounds(sr)) = Range(Bounds(r)) /\ Range(Bounds(ss)) = Range(Bounds(s))
  BY <1>1, BoundsOfRange
<1> QED
  BY <1>2, <1>3

\* The subnet after EnsureStaticRanges has the pools, unless none are given.
LEMMA RangesEnsured ==
  ASSUME NEW C, NEW subnet \in [prefix : C, ranges : Seq(Pools)],
         NEW pools, pools # Nil => pools \in Seq(Pools)
  PROVE  LET new == EnsureStaticRanges(subnet, pools)
         IN /\ new \in [prefix : C, ranges : Seq(Pools)] /\ new.prefix = subnet.prefix
            /\ pools # Nil => Range(Bounds(new.ranges)) = Range(Bounds(pools))
<1> DEFINE sorted == SortStaticRanges(pools)
           new == EnsureStaticRanges(subnet, pools)
<1>1. CASE pools = Nil \/ IsStaticIPRangeEqual(pools, subnet.ranges)
  <2>1. new = subnet
    BY <1>1 DEF EnsureStaticRanges
  <2>2. pools # Nil => Range(Bounds(subnet.ranges)) = Range(Bounds(pools))
    BY <1>1, EqualBounds
  <2> QED
    BY <2>1, <2>2
<1>2. CASE ~(pools = Nil \/ IsStaticIPRangeEqual(pools, subnet.ranges))
  <2>1. new = [subnet EXCEPT !.ranges = sorted]
    BY <1>2 DEF EnsureStaticRanges
  <2>2. sorted \in Seq(Pools) /\ Range(sorted) = Range(pools)
    BY <1>2, SortIsSorted
  <2> HIDE DEF sorted, new
  <2>3. Range(Bounds(sorted)) = Range(Bounds(pools))
    BY <1>2, <2>2, BoundsOfRange
  <2>4. new \in [prefix : C, ranges : Seq(Pools)] /\ new.prefix = subnet.prefix /\ new.ranges = sorted
    BY <2>1, <2>2
  <2> QED
    BY <2>3, <2>4 DEF new
<1> QED
  BY <1>1, <1>2

\* A network that had these subnets, each with another prefix, has one subnet for cidr
\* with the pools, and its other subnets are as they were.
Brought(new, subnets, cidr, pools) ==
  /\ \A i, j \in DOMAIN new : new[i].prefix = new[j].prefix => i = j
  /\ \E i \in DOMAIN new :
       /\ new[i].prefix = cidr
       /\ pools # Nil => Range(Bounds(new[i].ranges)) = Range(Bounds(pools))
  /\ \A i \in DOMAIN subnets : subnets[i].prefix # cidr =>
       i \in DOMAIN new /\ new[i] = subnets[i]

\* A network whose subnets have different prefixes is brought to have one subnet with
\* the prefix of the ADC, whose ranges are the pools; its other subnets stay as they
\* are (EnsureAviNetwork).  An address and a mask determine a prefix.
THEOREM NetworkEnsured ==
  ASSUME NEW C \in SUBSET Prefixes,
         \A c, d \in C : c.addr = d.addr /\ c.size = d.size => c = d,
         NEW cidr \in C, NEW pools, pools # Nil => pools \in Seq(Pools),
         NEW subnets \in Seq([prefix : C, ranges : Seq(Pools)]),
         \A i, j \in DOMAIN subnets : subnets[i].prefix = subnets[j].prefix => i = j
  PROVE  LET new == EnsureAviNetwork(subnets, cidr, pools)
         IN new \in Seq([prefix : C, ranges : Seq(Pools)]) /\ Brought(new, subnets, cidr, pools)
<1> DEFINE S == [prefix : C, ranges : Seq(Pools)]
           found == AviNetworkContainsSubnet(subnets, cidr)
           new == EnsureAviNetwork(subnets, cidr, pools)
<1>1. /\ subnets \in Seq(S) /\ Len(subnets) \in Nat /\ DOMAIN subnets = 1..Len(subnets)
      /\ \A i \in DOMAIN subnets : subnets[i] \in S
  <2>1. subnets \in Seq(S)
    OBVIOUS
  <2> HIDE DEF S
  <2> QED
    BY <2>1, SeqFacts
<1>2. \A i \in DOMAIN subnets : i \in found <=> subnets[i].prefix = cidr
  BY <1>1 DEF AviNetworkContainsSubnet
<1>3. found \subseteq DOMAIN subnets
  BY DEF AviNetworkContainsSubnet
<1>4. CASE found # {}
  <2> DEFINE first == CHOOSE i \in found : \A j \in found : i <= j
  <2>1. first \in found
    <3>1. found \in SUBSET Nat
      BY <1>1, <1>3
    <3> HIDE DEF found
    <3>2. \E i \in found : \A j \in found : i <= j
      BY <1>4, <3>1, LeastExists
    <3> QED
      BY <3>2
  <2> DEFINE old == subnets[first]
             ens == EnsureStaticRanges(old, pools)
  <2>2. new = [subnets EXCEPT ![first] = ens]
    BY <1>4 DEF EnsureAviNetwork
  <2> HIDE DEF first, new, found
  <2>3. first \in DOMAIN subnets /\ old.prefix = cidr /\ old \in S
    BY <1>1, <1>2, <1>3, <2>1
  <2> HIDE DEF old
  <2>4. /\ ens \in S /\ ens.prefix = cidr
        /\ pools # Nil => Range(Bounds(ens.ranges)) = Range(Bounds(pools))
    BY <2>3, RangesEnsured
  <2> HIDE DEF ens, S
  <2>5. /\ DOMAIN new = DOMAIN subnets /\ new[first] = ens
        /\ \A i \in DOMAIN subnets : i # first => new[i] = subnets[i]
    BY <1>1, <2>2, <2>3, <2>4, ExceptFacts
  <2>6. new \in Seq(S)
    BY <1>1, <2>2, <2>3, <2>4, ExceptFacts
  <2>7. \A i \in DOMAIN new : new[i].prefix = subnets[i].prefix
    BY Zenon, <2>3, <2>4, <2>5 DEF old
  <2>8. \A i, j \in DOMAIN new : new[i].prefix = new[j].prefix => i = j
    BY <2>5, <2>7
  <2>9. \A i \in DOMAIN subnets : subnets[i].prefix # cidr => i \in DOMAIN new /\ new[i] = subnets[i]
    BY <2>3, <2>5 DEF old
  <2> QED
    BY <2>3, <2>4, <2>5, <2>6, <2>8, <2>9 DEF Brought, new, S
<1>5. CASE found = {}
  <2> DEFINE added == [prefix |-> cidr, ranges |-> IF pools = Nil THEN <<>> ELSE pools]
  <2>1. new = Append(subnets, added)
    BY <1>5 DEF EnsureAviNetwork
  <2>2. /\ added \in S /\ added.prefix = cidr
        /\ pools # Nil => added.ranges = pools
    OBVIOUS
  <2> HIDE DEF added, new, found, S
  <2> DEFINE n == Len(subnets)
  <2>3. /\ new \in Seq(S) /\ DOMAIN new = 1..(n + 1) /\ new[n + 1] = added
        /\ \A i \in 1..n : i \in 1..(n + 1) /\ new[i] = subnets[i]
    BY <1>1, <2>1, <2>2, AppendFacts
  <2>4. \A i \in 1..n : subnets[i].prefix # cidr
    BY Zenon, <1>1, <1>2, <1>5
  <2>5. \A i \in 1..(n + 1) : i \in 1..n \/ i = n + 1
    BY <1>1
  <2>6. \A i, j \in DOMAIN new : new[i].prefix = new[j].prefix => i = j
    BY <1>1, <2>2, <2>3, <2>4, <2>5
  <2>7. n + 1 \in DOMAIN new
    BY <1>1, <2>3
  <2> QED
    BY <1>1, <2>2, <2>3, <2>6, <2>7 DEF Brought, new, S
<1> QED
  BY <1>4, <1>5

-----------------------------------------------------------------------------
(***************************************************************************)
(* The values for AKO.                                                     *)
(***************************************************************************)

\* Every option of the ADC that is written to its own place arrives in the values, unless
\* one of those that are written to another's place is set (NewValues and the functions
\* for its sections).
THEOREM ValuesReflect ==
  ASSUME NEW spec, NEW version, NEW secret, \A o \in Misplaced : spec.extra[o] = Nil
  PROVE  Reflects(NewValues(spec, version, secret), spec.extra)
<1> DEFINE x == spec.extra
           values == NewValues(spec, version, secret)
<1>1. x.layer7Only = Nil /\ x.enableEvents = Nil /\ x.nodePortValue = Nil
  BY DEF Misplaced
<1>2. /\ values.replica_count = Replicas(x)
      /\ values.ako_settings = NewAKOSettings(x)
      /\ values.network_settings = NewNetworkSettings(spec)
      /\ values.l7_settings = NewL7Settings(x)
      /\ values.l4_settings = NewL4Settings(x)
      /\ values.nodeport_selector = NewNodePortSelector(x)
      /\ values.rbac = NewRbac(x)
      /\ values.feature_gates = NewFeatureGates(x)
  BY DEF NewValues
<1> HIDE DEF values, x
<1>3. x.replicaCount # Nil => values.replica_count = x.replicaCount
  BY <1>2 DEF Replicas, Set
<1>4. ASSUME NEW section \in DOMAIN Textual, NEW o \in DOMAIN Textual[section], x[o] # Nil
      PROVE  values[section][Textual[section][o]] = IF x[o] THEN "true" ELSE "false"
  <2>1. CASE section = "ako_settings"
    <3>1. values[section] = NewAKOSettings(x)
      BY <1>2, <2>1
    <3>2. o \in DOMAIN Textual.ako_settings /\ Textual[section][o] = Textual.ako_settings[o]
      BY Zenon, <2>1
    <3>3. NewAKOSettings(x)[Textual.ako_settings[o]] = IF x[o] THEN "true" ELSE "false"
      BY <1>1, <1>4, <3>2 DEF Textual, NewAKOSettings, SetBool, FormatBool
    <3> QED
      BY <3>1, <3>2, <3>3
  <2>2. CASE section = "network_settings"
    <3>1. values[section] = NewNetworkSettings(spec) /\ o = "enableRHI" /\ Textual[section][o] = "enable_rhi"
      BY <1>2, <2>2 DEF Textual
    <3> QED
      BY <1>4, <3>1 DEF NewNetworkSettings, SetBool, FormatBool, x
  <2>3. CASE section = "l7_settings"
    BY <1>2, <1>4, <2>3 DEF Textual, NewL7Settings, SetBool, FormatBool
  <2>4. CASE section = "feature_gates"
    BY <1>2, <1>4, <2>4 DEF Textual, NewFeatureGates, SetBool, FormatBool
  <2> QED
    BY <2>1, <2>2, <2>3, <2>4 DEF Textual
<1>5. ASSUME NEW section \in DOMAIN Plain, NEW o \in DOMAIN Plain[section], x[o] # Nil
      PROVE  values[section][Plain[section][o]] = x[o]
  <2>1. CASE section = "ako_settings"
    <3>1. values[section] = NewAKOSettings(x)
      BY <1>2, <2>1
    <3>2. o \in DOMAIN Plain.ako_settings /\ Plain[section][o] = Plain.ako_settings[o]
      BY <2>1
    <3>3. NewAKOSettings(x)[Plain.ako_settings[o]] = x[o]
      BY <1>5, <3>2 DEF Plain, NewAKOSettings, Set
    <3> QED
      BY Zenon, <3>1, <3>2, <3>3
  <2>2. CASE section = "network_settings"
    <3>1. values[section] = NewNetworkSettings(spec)
      BY <1>2, <2>2
    <3>2. o \in DOMAIN Plain.network_settings /\ Plain[section][o] = Plain.network_settings[o]
      BY Zenon, <2>2
    <3>3. NewNetworkSettings(spec)[Plain.network_settings[o]] = x[o]
      BY <3>2 DEF Plain, NewNetworkSettings, x
    <3> QED
      BY <3>1, <3>2, <3>3
  <2>3. CASE section = "l7_settings"
    <3>1. values[section] = NewL7Settings(x)
      BY <1>2, <2>3
    <3>2. o \in DOMAIN Plain.l7_settings /\ Plain[section][o] = Plain.l7_settings[o]
      BY <2>3
    <3>3. NewL7Settings(x)[Plain.l7_settings[o]] = x[o]
      <4>1. o \in {"disableIngressClass", "defaultIngressController", "shardVSSize", "serviceType",
                   "passthroughShardSize", "noPGForSNI"}
        BY <3>2 DEF Plain
      <4>2. CASE o \in {"disableIngressClass", "defaultIngressController", "noPGForSNI"}
        <5>1. Set(x[o], FALSE) = x[o]
          BY <1>5 DEF Set
        <5>2. NewL7Settings(x)[Plain.l7_settings[o]] = Set(x[o], FALSE)
          <6>1. CASE o = "disableIngressClass"
            BY Zenon, <6>1 DEF Plain, NewL7Settings
          <6>2. CASE o = "defaultIngressController"
            BY Zenon, <6>2 DEF Plain, NewL7Settings
          <6>3. CASE o = "noPGForSNI"
            BY Zenon, <6>3 DEF Plain, NewL7Settings
          <6> QED
            BY Zenon, <4>2, <6>1, <6>2, <6>3
        <5> QED
          BY Zenon, <5>1, <5>2
      <4>3. CASE o \in {"shardVSSize", "serviceType", "passthroughShardSize"}
        BY <1>5, <4>3 DEF Plain, NewL7Settings, Set
      <4> QED
        BY Zenon, <4>1, <4>2, <4>3
    <3> QED
      BY <3>1, <3>2, <3>3
  <2>4. CASE section = "l4_settings"
    BY <1>2, <2>4 DEF Plain, NewL4Settings
  <2>5. CASE section = "nodeport_selector"
    BY <1>1, <1>2, <2>5 DEF Plain, NewNodePortSelector, Set
  <2>6. CASE section = "rbac"
    <3>1. CASE o = "pspEnabled"
      BY <1>2, <1>5, <2>6, <3>1 DEF Plain, NewRbac, Set
    <3>2. CASE o = "pspPolicyAPIVersion"
      BY <1>2, <2>6, <3>2 DEF Plain, NewRbac
    <3> QED
      BY Zenon, <2>6, <3>1, <3>2 DEF Plain
  <2> QED
    BY <2>1, <2>2, <2>3, <2>4, <2>5, <2>6 DEF Plain
<1> QED
  BY <1>3, <1>4, <1>5 DEF Reflects, values, x

\* A list of CIDRs that is taken for dual-stack has one of each family, and one that is
\* taken for IPv4 has none of IPv6.
LEMMA ListFamilies ==
  ASSUME NEW cidrs \in Seq({"V4", "V6", "INVALID"})
  PROVE  LET f == ipFamilyFromCIDRStrings(cidrs)
         IN /\ f \in {"INVALID", "DUAL", "V4", "V6"}
            /\ f = "DUAL" => Range(cidrs) = {"V4", "V6"}
            /\ f = "V4" => "V6" \notin Range(cidrs)
<1> DEFINE F == Families(cidrs)
<1>1. Len(cidrs) \in Nat /\ DOMAIN cidrs = 1..Len(cidrs)
      /\ \A i \in DOMAIN cidrs : cidrs[i] \in {"V4", "V6", "INVALID"}
  OBVIOUS
<1>2. F \subseteq {"V4", "V6"} /\ F = Range(cidrs) \ {"INVALID"}
  BY <1>1 DEF Families, Range
<1>3. F = {} \/ F = {"V4"} \/ F = {"V6"} \/ F = {"V4", "V6"}
  BY <1>2
<1>4. CASE Len(cidrs) > 2 \/ F = {}
  BY <1>4 DEF ipFamilyFromCIDRStrings
<1>5. CASE ~(Len(cidrs) > 2) /\ F = {"V4", "V6"}
  <2>1. ipFamilyFromCIDRStrings(cidrs) = "DUAL"
    BY <1>1, <1>5 DEF ipFamilyFromCIDRStrings
  <2>2. PICK i \in DOMAIN cidrs : cidrs[i] = "V4"
    BY Zenon, <1>2, <1>5 DEF Range
  <2>3. PICK j \in DOMAIN cidrs : cidrs[j] = "V6"
    BY <1>2, <1>5 DEF Range
  <2>4. i # j /\ i \in 1..2 /\ j \in 1..2 /\ DOMAIN cidrs \subseteq 1..2
    BY <1>1, <1>5, <2>2, <2>3
  <2>5. \A l \in DOMAIN cidrs : l = i \/ l = j
    BY <2>4
  <2>6. Range(cidrs) = {"V4", "V6"}
    BY <2>2, <2>3, <2>5 DEF Range
  <2> QED
    BY <2>1, <2>6
<1>6. CASE ~(Len(cidrs) > 2) /\ F = {"V4"}
  <2>1. ipFamilyFromCIDRStrings(cidrs) = "V4"
    BY <1>1, <1>6 DEF ipFamilyFromCIDRStrings
  <2> QED
    BY <1>2, <1>6, <2>1
<1>7. CASE ~(Len(cidrs) > 2) /\ F = {"V6"}
  BY <1>1, <1>7 DEF ipFamilyFromCIDRStrings
<1> QED
  BY <1>3, <1>4, <1>5, <1>6, <1>7

\* A Cluster is let through only if IPv4 comes first, and an ADC for IPv6 only together
\* with a dual-stack Cluster that does not use AVI for its control plane
\* (ValidateClusterIpFamily, GetClusterIPFamily).
THEOREM FamilyWorks ==
  ASSUME NEW net, NEW vip, NEW adcFamily,
         net.pods \in Seq({"V4", "V6", "INVALID"}), net.services \in Seq({"V4", "V6", "INVALID"}),
         ValidateClusterIpFamily(net, vip, adcFamily)
  PROVE  /\ net.pods # <<>> => Head(net.pods) # "V6"
         /\ adcFamily = "V6" =>
              ~vip /\ \E cidrs \in {net.pods, net.services} : Range(cidrs) = {"V4", "V6"}
<1> DEFINE given == {cidrs \in {net.pods, net.services} : cidrs # <<>>}
           families == {ipFamilyFromCIDRStrings(cidrs) : cidrs \in given}
           leading == IF net.pods # <<>> THEN net.pods ELSE net.services
           family == GetClusterIPFamily(net)
<1>1. family \in {"V4", "V4,V6"} /\ (adcFamily = "V6" => family # "V4" /\ ~(vip /\ family = "V4,V6"))
  BY Zenon DEF ValidateClusterIpFamily
<1>2. family = IF given = {} THEN "V4"
               ELSE IF "INVALID" \in families \/ \E f, g \in families : f # g THEN "INVALID"
               ELSE IF families = {"DUAL"} THEN Primary(leading)
               ELSE CHOOSE f \in families : TRUE
  BY DEF GetClusterIPFamily
<1>3. \A cidrs \in given :
        /\ cidrs \in Seq({"V4", "V6", "INVALID"}) /\ ipFamilyFromCIDRStrings(cidrs) \in families
        /\ LET f == ipFamilyFromCIDRStrings(cidrs)
           IN /\ f \in {"INVALID", "DUAL", "V4", "V6"}
              /\ f = "DUAL" => Range(cidrs) = {"V4", "V6"}
              /\ f = "V4" => "V6" \notin Range(cidrs)
  BY ListFamilies
<1>4. families \subseteq {"INVALID", "DUAL", "V4", "V6"}
  BY <1>3
<1> HIDE DEF families, family
<1>5. CASE given = {}
  <2>1. family = "V4" /\ net.pods = <<>>
    BY Zenon, <1>2, <1>5
  <2> QED
    BY <1>1, <2>1
<1>6. CASE given # {} /\ families = {"DUAL"}
  <2>1. family = Primary(leading) /\ leading \in given
    BY <1>2, <1>6
  <2>2. family # "V6,V4" /\ leading[1] = "V4"
    BY Zenon, <1>1, <2>1 DEF Primary
  <2>3. net.pods # <<>> => Head(net.pods) # "V6"
    <3>1. net.pods # <<>> => Head(net.pods) = leading[1]
      OBVIOUS
    <3> HIDE DEF leading
    <3> QED
      BY Zenon, <2>2, <3>1
  <2>4. leading \in {net.pods, net.services} /\ Range(leading) = {"V4", "V6"}
    BY <1>3, <1>6, <2>1
  <2>5. family = "V4,V6"
    BY Zenon, <2>1, <2>2 DEF Primary
  <2> QED
    BY Zenon, <1>1, <2>3, <2>4, <2>5
<1>7. CASE given # {} /\ families # {"DUAL"}
  <2>1. ~("INVALID" \in families \/ \E f, g \in families : f # g)
    BY Zenon, <1>1, <1>2, <1>7
  <2>2. family = CHOOSE f \in families : TRUE
    BY Zenon, <1>2, <1>7, <2>1
  <2>3. families # {}
    BY <1>3, <1>7
  <2>4. family \in families
    BY <2>2, <2>3
  <2>5. family = "V4" /\ families = {"V4"}
    BY Zenon, <1>1, <1>4, <2>1, <2>4
  <2>6. net.pods # <<>> => "V6" \notin Range(net.pods)
    BY <1>3, <2>5
  <2>7. net.pods # <<>> => Head(net.pods) # "V6"
    BY <2>6 DEF Range
  <2> QED
    BY <1>1, <2>5, <2>7
<1> QED
  BY Zenon, <1>5, <1>6, <1>7

-----------------------------------------------------------------------------
(***************************************************************************)
(* The AKO role.                                                           *)
(***************************************************************************)

\* A new role has what AKO needs of the version it is created for
\* (filterAkoRolePermissionByVersion).
THEOREM NewRoleComplete ==
  ASSUME NEW v \in Nat
  PROVE  Complete(filterAkoRolePermissionByVersion(v), v)
  BY DEF Complete, filterAkoRolePermissionByVersion, Essential

\* After one sync a role has what AKO needs, whatever it was before, and the
\* resources the operator does not know are as they were: "left as-is"
\* (syncAkoUserRole).
THEOREM SyncCompletes ==
  ASSUME NEW role, NEW v \in Nat
  PROVE  LET new == syncAkoUserRole(role, v)
         IN /\ Complete(new, v)
            /\ DOMAIN role \subseteq DOMAIN new
            /\ \A r \in DOMAIN role \ Essential : new[r] = role[r]
            /\ \A r \in DOMAIN new \ DOMAIN role : r \in Essential
  BY DEF Complete, syncAkoUserRole, Essential

\* A second sync finds nothing to do, so the role is not updated at every
\* reconcile (syncAkoUserRole returns false).
THEOREM SyncIsIdempotent ==
  ASSUME NEW role, NEW v \in Nat
  PROVE  syncAkoUserRole(syncAkoUserRole(role, v), v) = syncAkoUserRole(role, v)
<1> DEFINE new == syncAkoUserRole(role, v)
           needed == {x \in Essential : ~Deprecated(x, v)}
<1>1. /\ DOMAIN new = DOMAIN role \cup needed
      /\ \A r \in DOMAIN new : r \in Essential => new[r] = AkoRolePermissionMap[r]
      /\ new = [r \in DOMAIN new |-> new[r]]
  BY DEF syncAkoUserRole
<1>2. DOMAIN new \cup needed = DOMAIN new
  BY <1>1
<1>3. syncAkoUserRole(new, v) =
        [r \in DOMAIN new \cup needed |->
           IF r \in Essential THEN AkoRolePermissionMap[r] ELSE new[r]]
  BY DEF syncAkoUserRole
<1> HIDE DEF new, needed
<1>4. [r \in DOMAIN new \cup needed |->
         IF r \in Essential THEN AkoRolePermissionMap[r] ELSE new[r]] = new
  BY <1>1, <1>2
<1> QED
  BY <1>3, <1>4 DEF new

\* A role that is complete for one version of AVI is complete for a later one:
\* an upgrade of AVI alone takes nothing from AKO.
THEOREM UpgradeKeepsComplete ==
  ASSUME NEW role, NEW v \in Nat, NEW w \in Nat, v <= w, Complete(role, v)
  PROVE  Complete(role, w)
<1>1. ASSUME NEW r, Deprecated(r, v) PROVE Deprecated(r, w)
  BY <1>1, Permissions DEF Deprecated
<1> QED
  BY <1>1 DEF Complete
=============================================================================
