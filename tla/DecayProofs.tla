---------------------------- MODULE DecayProofs ----------------------------
(***************************************************************************)
(* Proofs about Decay, for any pool of items, kinds and bounds.            *)
(*                                                                         *)
(* The invariant speaks of one item at a time: of its case, that is its    *)
(* state and how often each list names it.  Kept says that its references  *)
(* are those of the lists and of the world, and that each of its entries   *)
(* is in a bucket that is looked at in time (Soon) and, if it was listed   *)
(* but once, not too early (Late): what matters is how many checks ahead   *)
(* its bucket is.  In the middle of a walk the entries of the bucket that  *)
(* are still to come count as well (rest), so that one predicate holds     *)
(* between the steps and between the visits of a check.                    *)
(*                                                                         *)
(* There are three layers: what an operation does to a case (.. Kept),     *)
(* that it does so to the case of its item and to no other (.. Does), and  *)
(* what a walk through a bucket and the sorting of toDecayItems, which are *)
(* folds, do entry by entry (AfterWalkIs, SortingIs).                      *)
(***************************************************************************)
EXTENDS Decay, FiniteSetTheorems, WellFoundedInduction, TLAPS

\* A set of numbers has a least one.
LEMMA LeastOne ==
  ASSUME NEW S \in SUBSET Nat, S # {}
  PROVE  \E least \in S : \A k \in S : least <= k
<1>1. \E least \in S : \A k \in S : ~(<<k, least>> \in OpToRel(<, Nat))
  BY NatLessThanWellFounded, WFMin
<1>2. OpToRel(<, Nat) = {ss \in Nat \X Nat : ss[1] < ss[2]}
  BY DEF OpToRel
<1>3. PICK least \in S : \A k \in S : <<k, least>> \notin {ss \in Nat \X Nat : ss[1] < ss[2]}
  BY <1>1, <1>2
<1>4. \A k \in S : least <= k
  <2> SUFFICES ASSUME NEW k \in S  PROVE least <= k
    OBVIOUS
  <2>1. ~(<<k, least>>[1] < <<k, least>>[2])
    BY <1>3
  <2> QED BY <2>1
<1> QED BY <1>4

-----------------------------------------------------------------------------
(* The entries of a list.                                                  *)

\* How often s is in a list after its first n entries.
Rest(s, list, n) == Cardinality({k \in DOMAIN list : k > n /\ list[k] = s})

\* The places of s in a list are finitely many.
LEMMA PlacesAreFinite ==
  ASSUME NEW S, NEW list \in Seq(S), NEW s, NEW n \in Nat
  PROVE  /\ IsFiniteSet({k \in DOMAIN list : list[k] = s}) /\ Count(s, list) \in Nat
         /\ IsFiniteSet({k \in DOMAIN list : k > n /\ list[k] = s}) /\ Rest(s, list, n) \in Nat
<1>1. DOMAIN list = 1..Len(list) /\ Len(list) \in Nat
  OBVIOUS
<1>2. IsFiniteSet(DOMAIN list)
  BY <1>1, FS_Interval
<1>3. IsFiniteSet({k \in DOMAIN list : list[k] = s})
  BY <1>2, FS_Subset
<1>4. IsFiniteSet({k \in DOMAIN list : k > n /\ list[k] = s})
  BY <1>2, FS_Subset
<1> QED BY <1>3, <1>4, FS_CardinalityType DEF Count, Rest

\* What is counted is in the list.
LEMMA CountedIsThere ==
  ASSUME NEW S, NEW list \in Seq(S), NEW s
  PROVE  Count(s, list) \in Nat /\ (Count(s, list) > 0 <=> \E k \in DOMAIN list : list[k] = s)
<1> DEFINE places == {k \in DOMAIN list : list[k] = s}
<1>1. IsFiniteSet(places) /\ Count(s, list) \in Nat /\ Count(s, list) = Cardinality(places)
  BY PlacesAreFinite DEF Count
<1>2. Cardinality(places) = 0 <=> places = {}
  BY <1>1, FS_EmptySet
<1> QED BY <1>1, <1>2

\* An empty list has no entries.
LEMMA CountNone == \A s : Count(s, <<>>) = 0
<1> SUFFICES ASSUME NEW s  PROVE Count(s, <<>>) = 0
  OBVIOUS
<1>1. {k \in DOMAIN <<>> : <<>>[k] = s} = {}
  OBVIOUS
<1> QED BY <1>1, FS_EmptySet DEF Count

\* One entry more at the end.
LEMMA CountAppended ==
  ASSUME NEW S, NEW list \in Seq(S), NEW x \in S, NEW s
  PROVE  Count(s, Append(list, x)) = Count(s, list) + (IF x = s THEN 1 ELSE 0)
<1> DEFINE n == Len(list)
           places == {k \in DOMAIN list : list[k] = s}
           more == {k \in DOMAIN Append(list, x) : Append(list, x)[k] = s}
<1>1. DOMAIN list = 1..n /\ n \in Nat /\ DOMAIN Append(list, x) = 1..(n + 1)
  OBVIOUS
<1>2. \A k \in 1..n : Append(list, x)[k] = list[k]
  OBVIOUS
<1>3. Append(list, x)[n + 1] = x
  OBVIOUS
<1>4. IsFiniteSet(places) /\ Cardinality(places) \in Nat
  BY PlacesAreFinite, FS_CardinalityType
<1>5. n + 1 \notin places
  BY <1>1
<1>6. CASE x = s
  <2>1. more = places \cup {n + 1}
    BY <1>1, <1>2, <1>3, <1>6
  <2> HIDE DEF n, places, more
  <2>2. Cardinality(more) = Cardinality(places) + 1
    BY <1>4, <1>5, <2>1, FS_AddElement
  <2> QED BY <1>6, <2>2 DEF Count, places, more
<1>7. CASE x # s
  <2>1. more = places
    BY <1>1, <1>2, <1>3, <1>7
  <2>2. Count(s, Append(list, x)) = Cardinality(more) /\ Count(s, list) = Cardinality(places)
    BY DEF Count
  <2> HIDE DEF n, places, more
  <2> QED BY <1>4, <1>7, <2>1, <2>2
<1> QED BY <1>6, <1>7

\* One entry more at the front.
LEMMA CountPushed ==
  ASSUME NEW S, NEW list \in Seq(S), NEW x \in S, NEW s
  PROVE  Count(s, <<x>> \o list) = Count(s, list) + (IF x = s THEN 1 ELSE 0)
<1> DEFINE n == Len(list)
           new == <<x>> \o list
           places == {k \in DOMAIN list : list[k] = s}
           moved == {k \in DOMAIN new : k > 1 /\ new[k] = s}
           more == {k \in DOMAIN new : new[k] = s}
           up == [k \in places |-> k + 1]
<1>1. DOMAIN list = 1..n /\ n \in Nat /\ DOMAIN new = 1..(n + 1)
  OBVIOUS
<1>2. \A k \in 1..n : new[k + 1] = list[k]
  OBVIOUS
<1>3. new[1] = x
  OBVIOUS
<1>4. IsFiniteSet(places) /\ Cardinality(places) \in Nat
  BY PlacesAreFinite, FS_CardinalityType
<1>5. up \in Bijection(places, moved)
  <2>1. \A k \in places : k \in Nat /\ k + 1 \in moved
    BY <1>1, <1>2
  <2>2. up \in [places -> moved]
    BY <2>1
  <2>3. \A a, b \in places : up[a] = up[b] => a = b
    BY <2>1
  <2>4. \A k \in moved : \E a \in places : up[a] = k
    <3> SUFFICES ASSUME NEW k \in moved  PROVE \E a \in places : up[a] = k
      OBVIOUS
    <3>1. k \in 2..(n + 1) /\ k - 1 \in 1..n /\ (k - 1) + 1 = k
      BY <1>1
    <3>2. list[k - 1] = s
      BY <1>2, <3>1
    <3>3. k - 1 \in places
      BY <1>1, <3>1, <3>2
    <3>4. up[k - 1] = k
      BY <3>1, <3>3
    <3> QED BY <3>3, <3>4
  <2> HIDE DEF places, moved, up
  <2> QED BY <2>2, <2>3, <2>4 DEF Bijection, Injection, Surjection, IsInjective
<1>6. IsFiniteSet(moved) /\ Cardinality(moved) = Cardinality(places)
  <2> HIDE DEF places, moved, up
  <2>1. ExistsBijection(places, moved)
    BY <1>5 DEF ExistsBijection
  <2> QED BY <1>4, <2>1, FS_Bijection
<1>7. CASE x = s
  <2>1. more = moved \cup {1} /\ 1 \notin moved
    BY <1>1, <1>3, <1>7
  <2> HIDE DEF n, places, more, moved, up
  <2>2. Cardinality(more) = Cardinality(moved) + 1
    BY <1>6, <2>1, FS_AddElement
  <2>3. Count(s, <<x>> \o list) = Cardinality(more) /\ Count(s, list) = Cardinality(places)
    BY DEF Count, more, places, new
  <2> QED BY <1>6, <1>7, <2>2, <2>3
<1>8. CASE x # s
  <2>1. more = moved
    BY <1>1, <1>3, <1>8
  <2>2. Count(s, <<x>> \o list) = Cardinality(more) /\ Count(s, list) = Cardinality(places)
    BY DEF Count
  <2> HIDE DEF n, places, moved, up, more, new
  <2> QED BY <1>4, <1>6, <1>8, <2>1, <2>2
<1> QED BY <1>7, <1>8

\* The rest of a list, one entry further.
LEMMA RestStep ==
  ASSUME NEW S, NEW list \in Seq(S), NEW s, NEW n \in 0..(Len(list) - 1)
  PROVE  Rest(s, list, n) = Rest(s, list, n + 1) + (IF list[n + 1] = s THEN 1 ELSE 0)
<1> DEFINE now == {k \in DOMAIN list : k > n /\ list[k] = s}
           then == {k \in DOMAIN list : k > n + 1 /\ list[k] = s}
<1>1. DOMAIN list = 1..Len(list) /\ Len(list) \in Nat /\ n \in Nat /\ n + 1 \in DOMAIN list
  OBVIOUS
<1>2. IsFiniteSet(then) /\ Cardinality(then) \in Nat
  <2> DEFINE m == n + 1
             far == {k \in DOMAIN list : k > m /\ list[k] = s}
  <2>1. m \in Nat
    OBVIOUS
  <2> HIDE DEF m
  <2>2. IsFiniteSet(far)
    BY <2>1, PlacesAreFinite
  <2>3. Cardinality(far) \in Nat
    <3> HIDE DEF far
    <3> QED BY <2>2, FS_CardinalityType
  <2> QED BY <2>2, <2>3 DEF m
<1>3. CASE list[n + 1] = s
  <2>1. now = then \cup {n + 1} /\ n + 1 \notin then
    BY <1>1, <1>3
  <2> HIDE DEF now, then
  <2>2. Cardinality(now) = Cardinality(then) + 1
    BY <1>2, <2>1, FS_AddElement
  <2> QED BY <1>3, <2>2 DEF Rest, now, then
<1>4. CASE list[n + 1] # s
  <2>1. now = then
    BY <1>1, <1>4
  <2>2. Rest(s, list, n) = Cardinality(now) /\ Rest(s, list, n + 1) = Cardinality(then)
    BY DEF Rest
  <2> HIDE DEF now, then
  <2> QED BY <1>2, <1>4, <2>1, <2>2
<1> QED BY <1>3, <1>4

\* At the beginning all is left, at the end nothing.
LEMMA RestEnds ==
  ASSUME NEW S, NEW list \in Seq(S), NEW s
  PROVE  Rest(s, list, 0) = Count(s, list) /\ Rest(s, list, Len(list)) = 0
<1>1. DOMAIN list = 1..Len(list) /\ Len(list) \in Nat
  OBVIOUS
<1>2. {k \in DOMAIN list : k > 0 /\ list[k] = s} = {k \in DOMAIN list : list[k] = s}
  BY <1>1
<1>3. {k \in DOMAIN list : k > Len(list) /\ list[k] = s} = {}
  BY <1>1
<1> QED BY <1>2, <1>3, FS_EmptySet DEF Rest, Count

\* What is true at first and stays true step by step is true throughout.
LEMMA Upwards ==
  ASSUME NEW N \in Nat, NEW P, 0 \in P, \A n \in 0..(N - 1) : n \in P => n + 1 \in P
  PROVE  \A n \in 0..N : n \in P
<1> DEFINE bad == {n \in 0..N : n \notin P}
<1>1. SUFFICES ASSUME bad # {}  PROVE FALSE
  OBVIOUS
<1>2. PICK least \in bad : \A k \in bad : least <= k
  <2>1. bad \in SUBSET Nat
    OBVIOUS
  <2> HIDE DEF bad
  <2> QED BY <1>1, <2>1, LeastOne
<1>3. least # 0 /\ least - 1 \in 0..(N - 1) /\ (least - 1) + 1 = least
  BY <1>2
<1>4. least - 1 \in P
  BY <1>2, <1>3
<1> QED BY <1>2, <1>3, <1>4
-----------------------------------------------------------------------------
\* What becomes of the buckets when s is sorted in.
SortedIn(buckets, s, its, last) == [buckets EXCEPT ![FirstBucket(its[s].duration, last)] = Append(@, s)]
-----------------------------------------------------------------------------
(* Walks through lists.                                                    *)

\* The last number of a set of numbers up to a bound is in it, and no other is greater.
LEMMA LastOne ==
  ASSUME NEW N \in Nat, NEW s \in SUBSET (1..N), s # {}
  PROVE  Max(s) \in s /\ \A k \in s : Max(s) >= k
<1> DEFINE under == {N - k : k \in s}
<1>1. under \in SUBSET Nat /\ under # {}
  <2>1. \A k \in s : N - k \in Nat
    OBVIOUS
  <2> QED BY <2>1
<1>2. PICK least \in under : \A d \in under : least <= d
  <2> HIDE DEF under
  <2> QED BY <1>1, LeastOne
<1>3. PICK k \in s : least = N - k
  BY <1>2
<1>4. \A j \in s : k >= j
  <2> SUFFICES ASSUME NEW j \in s  PROVE k >= j
    OBVIOUS
  <2>1. least <= N - j
    BY <1>2
  <2> QED BY <1>3, <2>1
<1> QED BY <1>3, <1>4 DEF Max

\* A way through cleanup's loop over toDecayItems.
IsSorting(g, buckets, list, its, last) ==
  /\ g[0] = buckets
  /\ \A n \in 0..(Len(list) - 1) : g[n + 1] = SortedIn(g[n], list[n + 1], its, last)
  /\ Sorted(buckets, list, its, last) = g[Len(list)]

\* What cleanup's loop does, entry by entry.
LEMMA SortingIs ==
  ASSUME NEW list \in Seq(Slot), NEW buckets, NEW its, NEW last
  PROVE  \E g : IsSorting(g, buckets, list, its, last)
<1> DEFINE N == Len(list)
           T == 1..N
           base == buckets
           right(f, s) == f[s] = IF s = {} THEN base ELSE SortedIn(f[s \ {Max(s)}], list[Max(s)], its, last)
           upto(n) == \E f : f = [s \in SUBSET T |-> f[s]] /\ \A s \in SUBSET T : Cardinality(s) <= n => right(f, s)
           eq(f) == f = [s \in SUBSET T |-> IF s = {} THEN base ELSE SortedIn(f[s \ {Max(s)}], list[Max(s)], its, last)]
           all == CHOOSE f : eq(f)
<1>1. N \in Nat /\ DOMAIN list = T /\ IsFiniteSet(T) /\ Cardinality(T) = N
  <2>1. N \in Nat /\ DOMAIN list = T
    OBVIOUS
  <2> HIDE DEF N
  <2>2. 1 \in Int /\ N \in Int /\ (1 > N => N = 0) /\ N - 1 + 1 = N
    BY <2>1
  <2>3. IsFiniteSet(1..N) /\ Cardinality(1..N) = IF 1 > N THEN 0 ELSE N - 1 + 1
    BY <2>2, FS_Interval
  <2> QED BY <2>1, <2>2, <2>3
<1> HIDE DEF T, N, base
<1>2. \A s \in SUBSET T : IsFiniteSet(s) /\ Cardinality(s) \in Nat /\ Cardinality(s) <= N
  BY <1>1, FS_Subset, FS_CardinalityType
<1>3. \A s \in SUBSET T : s # {} => Max(s) \in s
  BY <1>1, LastOne DEF T
<1>4. \A s \in SUBSET T : s # {} => s \ {Max(s)} \in SUBSET T /\ Cardinality(s \ {Max(s)}) = Cardinality(s) - 1
  BY <1>2, <1>3, FS_RemoveElement
<1>5. \A s \in SUBSET T : Cardinality(s) = 0 <=> s = {}
  BY <1>2, FS_EmptySet
<1>6. upto(0)
  <2> DEFINE f == [s \in SUBSET T |-> base]
  <2>1. f = [s \in SUBSET T |-> f[s]]
    OBVIOUS
  <2>2. \A s \in SUBSET T : Cardinality(s) <= 0 => s = {}
    BY <1>2, <1>5
  <2>3. \A s \in SUBSET T : Cardinality(s) <= 0 => right(f, s)
    BY <2>2
  <2> HIDE DEF f, right
  <2> QED BY <2>1, <2>3
<1>7. ASSUME NEW n \in Nat, upto(n)  PROVE upto(n + 1)
  <2>1. PICK f : f = [s \in SUBSET T |-> f[s]] /\ \A s \in SUBSET T : Cardinality(s) <= n => right(f, s)
    BY <1>7
  <2> DEFINE g == [s \in SUBSET T |-> IF Cardinality(s) <= n THEN f[s] ELSE SortedIn(f[s \ {Max(s)}], list[Max(s)], its, last)]
  <2>2. g = [s \in SUBSET T |-> g[s]]
    OBVIOUS
  <2>3. ASSUME NEW s \in SUBSET T, Cardinality(s) <= n + 1  PROVE right(g, s)
    <3>1. s # {} => s \ {Max(s)} \in SUBSET T /\ Cardinality(s \ {Max(s)}) <= n
      BY <1>2, <1>4, <2>3
    <3>2. s # {} => g[s \ {Max(s)}] = f[s \ {Max(s)}]
      BY <3>1
    <3>3. CASE Cardinality(s) <= n
      <4>1. g[s] = f[s] /\ right(f, s)
        BY <2>1, <3>3
      <4> HIDE DEF g
      <4> QED BY <3>2, <4>1
    <3>4. CASE ~(Cardinality(s) <= n)
      <4>1. s # {}
        BY <1>2, <1>5, <3>4
      <4>2. g[s] = SortedIn(f[s \ {Max(s)}], list[Max(s)], its, last)
        BY <3>4
      <4> HIDE DEF g
      <4> QED BY <3>2, <4>1, <4>2
    <3> QED BY <3>3, <3>4
  <2> HIDE DEF g, right
  <2> QED BY <2>2, <2>3
<1>8. upto(N)
  <2> HIDE DEF upto
  <2> DEFINE P == {n \in Nat : upto(n)}
  <2>1. 0 \in P
    BY <1>6
  <2>2. \A n \in 0..(N - 1) : n \in P => n + 1 \in P
    BY <1>7
  <2>3. N \in 0..N
    BY <1>1
  <2> HIDE DEF P
  <2>4. \A n \in 0..N : n \in P
    BY <1>1, <2>1, <2>2, Upwards
  <2> QED BY <2>3, <2>4 DEF P
<1>9. PICK f : f = [s \in SUBSET T |-> f[s]] /\ \A s \in SUBSET T : right(f, s)
  <2>1. PICK f : f = [s \in SUBSET T |-> f[s]] /\ \A s \in SUBSET T : Cardinality(s) <= N => right(f, s)
    BY <1>8
  <2> QED BY <1>2, <2>1
<1>10. eq(f)
  BY <1>9
<1>11. eq(all)
  <2> HIDE DEF eq
  <2> QED BY <1>10
<1>12. Sorted(buckets, list, its, last) = all[T]
  BY <1>1 DEF Sorted, SortedIn, FoldLeft, MapThenFoldSet, base
<1> HIDE DEF all
<1>13. \A s \in SUBSET T : right(all, s)
  BY <1>11
<1> DEFINE g == [n \in 0..N |-> all[1..n]]
<1>14. g[0] = base
  <2>1. 1..0 = {}
    OBVIOUS
  <2>2. {} \in SUBSET T /\ 0 \in 0..N
    BY <1>1
  <2>3. all[{}] = base
    BY <1>13, <2>2
  <2> QED BY <2>1, <2>2, <2>3
<1>15. ASSUME NEW n \in 0..(N - 1)  PROVE g[n + 1] = SortedIn(g[n], list[n + 1], its, last)
  <2>0. n \in Nat /\ n + 1 \in 1..N /\ N \in Nat
    BY <1>1
  <2>1. 1..(n + 1) \in SUBSET T /\ 1..(n + 1) # {} /\ n + 1 \in 0..N /\ n \in 0..N /\ n + 1 \in 1..(n + 1)
    <3>1. n + 1 \in 1..(n + 1) /\ n + 1 \in 0..N /\ n \in 0..N
      BY <2>0
    <3>2. \A k \in 1..(n + 1) : k \in 1..N
      BY <2>0
    <3> QED BY <3>1, <3>2 DEF T
  <2>2. (1..(n + 1)) \ {n + 1} = 1..n
    BY <2>0
  <2>3. Max(1..(n + 1)) = n + 1
    <3> DEFINE m == Max(1..(n + 1))
    <3>1. n + 1 \in Nat /\ 1..(n + 1) \in SUBSET (1..(n + 1))
      BY <2>0
    <3>2. m \in 1..(n + 1) /\ \A k \in 1..(n + 1) : m >= k
      BY <2>1, <3>1, LastOne
    <3> HIDE DEF m
    <3>3. m = n + 1
      BY <2>1, <3>1, <3>2
    <3> QED BY <3>3 DEF m
  <2>4. all[1..(n + 1)] = SortedIn(all[(1..(n + 1)) \ {Max(1..(n + 1))}], list[Max(1..(n + 1))], its, last)
    BY <1>13, <2>1
  <2>5. all[1..(n + 1)] = SortedIn(all[1..n], list[n + 1], its, last)
    BY <2>2, <2>3, <2>4
  <2>6. g[n + 1] = all[1..(n + 1)] /\ g[n] = all[1..n]
    BY <2>1
  <2> HIDE DEF g
  <2> QED BY <2>5, <2>6
<1>16. g[N] = all[T]
  BY <1>1 DEF T
<1> HIDE DEF g
<1> QED BY <1>12, <1>14, <1>15, <1>16 DEF N, base, IsSorting

\* A way through checkDecay's loop over a bucket.
IsWalk(g, list, bucket) ==
  /\ g[0] = [Work EXCEPT !.buckets[bucket] = <<>>]
  /\ \A n \in 0..(Len(list) - 1) : g[n + 1] = Visit(g[n], list[n + 1], bucket)
  /\ AfterWalk(bucket) = g[Len(list)]

\* What checkDecay's loop does, entry by entry.
LEMMA AfterWalkIs ==
  ASSUME NEW list, NEW bucket, list = decayItems[bucket], list \in Seq(Slot)
  PROVE  \E g : IsWalk(g, list, bucket)
<1> DEFINE N == Len(list)
           T == 1..N
           base == [Work EXCEPT !.buckets[bucket] = <<>>]
           right(f, s) == f[s] = IF s = {} THEN base ELSE Visit(f[s \ {Max(s)}], list[Max(s)], bucket)
           upto(n) == \E f : f = [s \in SUBSET T |-> f[s]] /\ \A s \in SUBSET T : Cardinality(s) <= n => right(f, s)
           eq(f) == f = [s \in SUBSET T |-> IF s = {} THEN base ELSE Visit(f[s \ {Max(s)}], list[Max(s)], bucket)]
           all == CHOOSE f : eq(f)
<1>1. N \in Nat /\ DOMAIN list = T /\ IsFiniteSet(T) /\ Cardinality(T) = N
  <2>1. N \in Nat /\ DOMAIN list = T
    OBVIOUS
  <2> HIDE DEF N
  <2>2. 1 \in Int /\ N \in Int /\ (1 > N => N = 0) /\ N - 1 + 1 = N
    BY <2>1
  <2>3. IsFiniteSet(1..N) /\ Cardinality(1..N) = IF 1 > N THEN 0 ELSE N - 1 + 1
    BY <2>2, FS_Interval
  <2> QED BY <2>1, <2>2, <2>3
<1> HIDE DEF T, N, base
<1>2. \A s \in SUBSET T : IsFiniteSet(s) /\ Cardinality(s) \in Nat /\ Cardinality(s) <= N
  BY <1>1, FS_Subset, FS_CardinalityType
<1>3. \A s \in SUBSET T : s # {} => Max(s) \in s
  BY <1>1, LastOne DEF T
<1>4. \A s \in SUBSET T : s # {} => s \ {Max(s)} \in SUBSET T /\ Cardinality(s \ {Max(s)}) = Cardinality(s) - 1
  BY <1>2, <1>3, FS_RemoveElement
<1>5. \A s \in SUBSET T : Cardinality(s) = 0 <=> s = {}
  BY <1>2, FS_EmptySet
<1>6. upto(0)
  <2> DEFINE f == [s \in SUBSET T |-> base]
  <2>1. f = [s \in SUBSET T |-> f[s]]
    OBVIOUS
  <2>2. \A s \in SUBSET T : Cardinality(s) <= 0 => s = {}
    BY <1>2, <1>5
  <2>3. \A s \in SUBSET T : Cardinality(s) <= 0 => right(f, s)
    BY <2>2
  <2> HIDE DEF f, right
  <2> QED BY <2>1, <2>3
<1>7. ASSUME NEW n \in Nat, upto(n)  PROVE upto(n + 1)
  <2>1. PICK f : f = [s \in SUBSET T |-> f[s]] /\ \A s \in SUBSET T : Cardinality(s) <= n => right(f, s)
    BY <1>7
  <2> DEFINE g == [s \in SUBSET T |-> IF Cardinality(s) <= n THEN f[s] ELSE Visit(f[s \ {Max(s)}], list[Max(s)], bucket)]
  <2>2. g = [s \in SUBSET T |-> g[s]]
    OBVIOUS
  <2>3. ASSUME NEW s \in SUBSET T, Cardinality(s) <= n + 1  PROVE right(g, s)
    <3>1. s # {} => s \ {Max(s)} \in SUBSET T /\ Cardinality(s \ {Max(s)}) <= n
      BY <1>2, <1>4, <2>3
    <3>2. s # {} => g[s \ {Max(s)}] = f[s \ {Max(s)}]
      BY <3>1
    <3>3. CASE Cardinality(s) <= n
      <4>1. g[s] = f[s] /\ right(f, s)
        BY <2>1, <3>3
      <4> HIDE DEF g
      <4> QED BY <3>2, <4>1
    <3>4. CASE ~(Cardinality(s) <= n)
      <4>1. s # {}
        BY <1>2, <1>5, <3>4
      <4>2. g[s] = Visit(f[s \ {Max(s)}], list[Max(s)], bucket)
        BY <3>4
      <4> HIDE DEF g
      <4> QED BY <3>2, <4>1, <4>2
    <3> QED BY <3>3, <3>4
  <2> HIDE DEF g, right
  <2> QED BY <2>2, <2>3
<1>8. upto(N)
  <2> HIDE DEF upto
  <2> DEFINE P == {n \in Nat : upto(n)}
  <2>1. 0 \in P
    BY <1>6
  <2>2. \A n \in 0..(N - 1) : n \in P => n + 1 \in P
    BY <1>7
  <2>3. N \in 0..N
    BY <1>1
  <2> HIDE DEF P
  <2>4. \A n \in 0..N : n \in P
    BY <1>1, <2>1, <2>2, Upwards
  <2> QED BY <2>3, <2>4 DEF P
<1>9. PICK f : f = [s \in SUBSET T |-> f[s]] /\ \A s \in SUBSET T : right(f, s)
  <2>1. PICK f : f = [s \in SUBSET T |-> f[s]] /\ \A s \in SUBSET T : Cardinality(s) <= N => right(f, s)
    BY <1>8
  <2> QED BY <1>2, <2>1
<1>10. eq(f)
  BY <1>9
<1>11. eq(all)
  <2> HIDE DEF eq
  <2> QED BY <1>10
<1>12. AfterWalk(bucket) = all[T]
  BY <1>1 DEF AfterWalk, FoldLeft, MapThenFoldSet, base
<1> HIDE DEF all
<1>13. \A s \in SUBSET T : right(all, s)
  BY <1>11
<1> DEFINE g == [n \in 0..N |-> all[1..n]]
<1>14. g[0] = base
  <2>1. 1..0 = {}
    OBVIOUS
  <2>2. {} \in SUBSET T /\ 0 \in 0..N
    BY <1>1
  <2>3. all[{}] = base
    BY <1>13, <2>2
  <2> QED BY <2>1, <2>2, <2>3
<1>15. ASSUME NEW n \in 0..(N - 1)  PROVE g[n + 1] = Visit(g[n], list[n + 1], bucket)
  <2>0. n \in Nat /\ n + 1 \in 1..N /\ N \in Nat
    BY <1>1
  <2>1. 1..(n + 1) \in SUBSET T /\ 1..(n + 1) # {} /\ n + 1 \in 0..N /\ n \in 0..N /\ n + 1 \in 1..(n + 1)
    <3>1. n + 1 \in 1..(n + 1) /\ n + 1 \in 0..N /\ n \in 0..N
      BY <2>0
    <3>2. \A k \in 1..(n + 1) : k \in 1..N
      BY <2>0
    <3> QED BY <3>1, <3>2 DEF T
  <2>2. (1..(n + 1)) \ {n + 1} = 1..n
    BY <2>0
  <2>3. Max(1..(n + 1)) = n + 1
    <3> DEFINE m == Max(1..(n + 1))
    <3>1. n + 1 \in Nat /\ 1..(n + 1) \in SUBSET (1..(n + 1))
      BY <2>0
    <3>2. m \in 1..(n + 1) /\ \A k \in 1..(n + 1) : m >= k
      BY <2>1, <3>1, LastOne
    <3> HIDE DEF m
    <3>3. m = n + 1
      BY <2>1, <3>1, <3>2
    <3> QED BY <3>3 DEF m
  <2>4. all[1..(n + 1)] = Visit(all[(1..(n + 1)) \ {Max(1..(n + 1))}], list[Max(1..(n + 1))], bucket)
    BY <1>13, <2>1
  <2>5. all[1..(n + 1)] = Visit(all[1..n], list[n + 1], bucket)
    BY <2>2, <2>3, <2>4
  <2>6. g[n + 1] = all[1..(n + 1)] /\ g[n] = all[1..n]
    BY <2>1
  <2> HIDE DEF g
  <2> QED BY <2>5, <2>6
<1>16. g[N] = all[T]
  BY <1>1 DEF T
<1> HIDE DEF g
<1> QED BY <1>12, <1>14, <1>15, <1>16 DEF N, base, IsWalk

-----------------------------------------------------------------------------
(* What is true of one item while a check, or any other step, works.       *)

ItemStates == [kind : Kinds, duration : Nat, decaying : BOOLEAN, here : BOOLEAN, refs : Nat]
Waits == [since : Nat, left : Nat, twice : BOOLEAN]
AllBuckets == 0..(Buckets - 1)

\* An item, and how often it is in toDecayItems, in ToReleaseItems and in each bucket.
Cases == [item : ItemStates, wait : Waits, waiting : Nat, freed : Nat, in : [AllBuckets -> Nat]]

\* The entries of an item; rest: those of the bucket that is walked which are still to come.
Listings(v, rest) == v.waiting + v.in[0] + v.in[1] + v.in[2] + v.in[3] + rest

\* What an item has left when it is put in a bucket is not known by less than this.
Slack(duration) == IF duration >= Round THEN Round ELSE Interval

\* An entry looked at in so many checks is looked at in time, or not too early.
InTime(v, checks) ==
  (v.wait.since + checks) * Interval <= v.wait.left - v.item.duration + Interval + Slack(v.item.duration)
NotEarly(v, checks) ==
  (v.wait.since + checks) * Interval >= v.wait.left - v.item.duration + Slack(v.item.duration)

\* One entry at least is in time; ahead: the checks until a bucket is looked at.
Soon(v, ahead, rest) ==
  \/ v.waiting > 0 /\ v.wait.since = 0 /\ v.item.duration <= v.wait.left
  \/ \E b \in AllBuckets : v.in[b] > 0 /\ InTime(v, ahead[b])
  \/ rest > 0 /\ InTime(v, 1)

\* No entry comes too early.
Late(v, ahead, rest) ==
  /\ v.waiting > 0 => v.wait.since = 0 /\ v.item.duration = v.wait.left
  /\ \A b \in AllBuckets : v.in[b] > 0 => NotEarly(v, ahead[b])
  /\ rest > 0 => NotEarly(v, 1)

Kept(v, ahead, rest) ==
  /\ v.item.refs = Listings(v, rest) + v.freed + (IF v.item.here THEN 1 ELSE 0)
  /\ v.item.kind = NoKind => v.item = Free
  /\ v.item.here /\ Type[v.item.kind].time > 0 => v.item.duration > 0
  /\ v.item.here /\ v.item.decaying => Soon(v, ahead, rest)
  /\ ~v.wait.twice =>
       /\ Listings(v, rest) <= 1
       /\ Listings(v, rest) = 1 => v.item.decaying
       /\ v.item.here /\ v.item.decaying => Late(v, ahead, rest)

\* Between the steps an item that decays has an entry, also when it is gone.
Held(v) == v.item.decaying => Listings(v, 0) > 0

\* The parts of a case, one by one.
Case(item, wt, waiting, freed, in) == [item |-> item, wait |-> wt, waiting |-> waiting, freed |-> freed, in |-> in]

\* What the operations make of an item and of a case.
Outside(item) == [item EXCEPT !.here = FALSE]
Older(item) == [item EXCEPT !.duration = item.duration - Elapsed(item.duration)]
Stopped(item) == [item EXCEPT !.decaying = FALSE]

DroppedCase(v) == Case(Outside(v.item), v.wait, v.waiting, v.freed + 1, v.in)
ListedCase(v) ==
  IF CanDecay(v.item) /\ ~v.item.decaying
  THEN Case(TakenUp(v.item), Anew(v.wait, v.item.duration), v.waiting + 1, v.freed, v.in)
  ELSE v
SetCase(v, kind, waits) ==
  Case(SetId(v.item, kind),
       Twice(v.wait, waits /\ v.item.decaying /\ ~SetId(v.item, kind).decaying),
       v.waiting, v.freed, v.in)
NewCase(v, kind, duration) == Case(Created(kind, duration), NotWaiting, v.waiting, v.freed, v.in)
Aged(v) == Case(Older(v.item), v.wait, v.waiting, v.freed, v.in)
EndedCase(v) == Case(v.item, v.wait, v.waiting, v.freed + 1, v.in)
StoppedCase(v) == EndedCase(Case(Stopped(v.item), v.wait, v.waiting, v.freed, v.in))
PutCase(v, b) == Case(Older(v.item), v.wait, v.waiting, v.freed, [v.in EXCEPT ![b] = @ + 1])

\* What the assumptions say of a kind.
LEMMA KindIs ==
  ASSUME NEW kind \in Kinds
  PROVE  /\ Type[kind].time \in Nat /\ Type[kind].stop \in BOOLEAN
         /\ Type[kind].decayTo \in Kinds \cup {Gone}
         /\ UsesTo[kind] \in Kinds
BY DecayAssumption

\* The fields of a case are typed.
LEMMA CaseIs ==
  ASSUME NEW v \in Cases
  PROVE  /\ v.item \in ItemStates /\ v.wait \in Waits /\ v.waiting \in Nat /\ v.freed \in Nat
         /\ v.in \in [AllBuckets -> Nat]
         /\ v.item.kind \in Kinds /\ v.item.duration \in Nat /\ v.item.decaying \in BOOLEAN
         /\ v.item.here \in BOOLEAN /\ v.item.refs \in Nat
         /\ v.wait.since \in Nat /\ v.wait.left \in Nat /\ v.wait.twice \in BOOLEAN
         /\ v.in[0] \in Nat /\ v.in[1] \in Nat /\ v.in[2] \in Nat /\ v.in[3] \in Nat
         /\ \A b \in AllBuckets : v.in[b] \in Nat
BY DEF Cases, ItemStates, Waits, AllBuckets, Buckets

\* What Item::setID makes of an item: its clock starts anew, is cleared or goes on.
Starts(item, kind) == Type[kind].time > 0 /\ (~Type[item.kind].stop \/ item.duration = 0)
Clears(kind) == Type[kind].time = 0 /\ ~Type[kind].stop /\ Type[kind].decayTo = NoKind
IsSetTo(new, item, kind) ==
  /\ new \in ItemStates
  /\ new.kind = kind /\ new.here = item.here /\ new.refs = item.refs
  /\ new.duration = IF Starts(item, kind) THEN Type[kind].time ELSE IF Clears(kind) THEN 0 ELSE item.duration
  /\ new.decaying = IF Starts(item, kind) \/ Clears(kind) THEN FALSE ELSE item.decaying

\* Item::setID does so.
LEMMA SetIdIs ==
  ASSUME NEW item \in ItemStates, NEW kind \in Kinds, item.kind \in Kinds
  PROVE  IsSetTo(SetId(item, kind), item, kind)
BY KindIs DEF SetId, ItemStates, IsSetTo, Starts, Clears

\* What the operations make of an item.
LEMMA ItemsChange ==
  ASSUME NEW item \in ItemStates
  PROVE  /\ Outside(item) \in ItemStates /\ TakenUp(item) \in ItemStates /\ Stopped(item) \in ItemStates
         /\ Older(item) \in ItemStates
         /\ Outside(item).kind = item.kind /\ Outside(item).duration = item.duration
         /\ Outside(item).decaying = item.decaying /\ Outside(item).here = FALSE /\ Outside(item).refs = item.refs
         /\ TakenUp(item).kind = item.kind /\ TakenUp(item).duration = item.duration
         /\ TakenUp(item).decaying = TRUE /\ TakenUp(item).here = item.here /\ TakenUp(item).refs = item.refs + 1
         /\ Stopped(item).kind = item.kind /\ Stopped(item).duration = item.duration
         /\ Stopped(item).decaying = FALSE /\ Stopped(item).here = item.here /\ Stopped(item).refs = item.refs
         /\ Older(item).kind = item.kind /\ Older(item).duration = item.duration - Elapsed(item.duration)
         /\ Older(item).decaying = item.decaying /\ Older(item).here = item.here /\ Older(item).refs = item.refs
<1>1. item.duration \in Nat /\ item.refs \in Nat
  BY DEF ItemStates
<1>2. item.duration - Elapsed(item.duration) \in Nat
  BY <1>1 DEF Elapsed, Round, Interval, Buckets
<1>3. /\ Outside(item) \in ItemStates
      /\ Outside(item).kind = item.kind /\ Outside(item).duration = item.duration
      /\ Outside(item).decaying = item.decaying /\ Outside(item).here = FALSE /\ Outside(item).refs = item.refs
  BY DEF Outside, ItemStates
<1>4. /\ TakenUp(item) \in ItemStates
      /\ TakenUp(item).kind = item.kind /\ TakenUp(item).duration = item.duration
      /\ TakenUp(item).decaying = TRUE /\ TakenUp(item).here = item.here /\ TakenUp(item).refs = item.refs + 1
  <2> DEFINE r == item.refs + 1
  <2>1. r \in Nat
    BY <1>1
  <2>2. TakenUp(item) = [item EXCEPT !.refs = r, !.decaying = TRUE]
    BY DEF TakenUp
  <2> HIDE DEF r
  <2>3. /\ TakenUp(item).kind = item.kind /\ TakenUp(item).duration = item.duration
        /\ TakenUp(item).decaying = TRUE /\ TakenUp(item).here = item.here /\ TakenUp(item).refs = r
    BY <2>2 DEF ItemStates
  <2>4. TakenUp(item) \in ItemStates
    BY <2>1, <2>2 DEF ItemStates
  <2> QED BY <2>3, <2>4 DEF r
<1>5. /\ Stopped(item) \in ItemStates
      /\ Stopped(item).kind = item.kind /\ Stopped(item).duration = item.duration
      /\ Stopped(item).decaying = FALSE /\ Stopped(item).here = item.here /\ Stopped(item).refs = item.refs
  BY DEF Stopped, ItemStates
<1>6. /\ Older(item) \in ItemStates
      /\ Older(item).kind = item.kind /\ Older(item).duration = item.duration - Elapsed(item.duration)
      /\ Older(item).decaying = item.decaying /\ Older(item).here = item.here /\ Older(item).refs = item.refs
  BY <1>2 DEF Older, ItemStates
<1> QED BY <1>3, <1>4, <1>5, <1>6

\* What the operations make of a wait.
LEMMA AnewIs ==
  ASSUME NEW wt \in Waits, NEW duration \in Nat
  PROVE  /\ Anew(wt, duration) \in Waits
         /\ Anew(wt, duration).since = 0 /\ Anew(wt, duration).left = duration /\ Anew(wt, duration).twice = wt.twice
BY DEF Anew, Waits

\* A wait that is doubled is otherwise the same.
LEMMA TwiceIs ==
  ASSUME NEW wt \in Waits, NEW again \in BOOLEAN
  PROVE  /\ Twice(wt, again) \in Waits
         /\ Twice(wt, again).since = wt.since /\ Twice(wt, again).left = wt.left
         /\ Twice(wt, again).twice = (wt.twice \/ again)
<1>1. wt.twice \in BOOLEAN
  BY DEF Waits
<1> QED BY <1>1 DEF Twice, Waits

\* There are four buckets.
LEMMA FourBuckets == \A b : b \in AllBuckets <=> b = 0 \/ b = 1 \/ b = 2 \/ b = 3
BY DEF AllBuckets, Buckets

\* The entries are a number, and there are some if one of the parts has some.
LEMMA ListingsAre ==
  ASSUME NEW v \in Cases, NEW rest \in Nat
  PROVE  /\ Listings(v, rest) \in Nat
         /\ v.waiting <= Listings(v, rest) /\ rest <= Listings(v, rest)
         /\ \A b \in AllBuckets : v.in[b] <= Listings(v, rest)
<1>1. /\ v.waiting \in Nat /\ v.in[0] \in Nat /\ v.in[1] \in Nat /\ v.in[2] \in Nat /\ v.in[3] \in Nat
  BY CaseIs
<1> QED BY <1>1, FourBuckets DEF Listings

\* Something that is looked at in time has an entry.
LEMMA SoonIsListed ==
  ASSUME NEW v \in Cases, NEW rest \in Nat, NEW ahead, Soon(v, ahead, rest)
  PROVE  Listings(v, rest) > 0
<1>1. /\ Listings(v, rest) \in Nat /\ v.waiting <= Listings(v, rest) /\ rest <= Listings(v, rest)
      /\ \A b \in AllBuckets : v.in[b] <= Listings(v, rest)
  BY ListingsAre
<1>2. v.waiting \in Nat /\ \A b \in AllBuckets : v.in[b] \in Nat
  BY CaseIs
<1>3. CASE v.waiting > 0 \/ rest > 0
  BY <1>1, <1>2, <1>3
<1>4. CASE \E b \in AllBuckets : v.in[b] > 0
  BY <1>1, <1>2, <1>4
<1> QED BY <1>3, <1>4 DEF Soon

\* Taking an item out of the world.
LEMMA DroppedKept ==
  ASSUME NEW v \in Cases, NEW ahead, NEW rest \in Nat, Kept(v, ahead, rest), v.item.here
  PROVE  LET u == DroppedCase(v)
         IN u \in Cases /\ Kept(u, ahead, rest) /\ (rest = 0 => Held(u))
<1> DEFINE u == DroppedCase(v)
<1>0. v.item.kind # NoKind
  BY DEF Kept, Free
<1>t. /\ v.item \in ItemStates /\ v.wait \in Waits /\ v.waiting \in Nat /\ v.freed \in Nat /\ v.in \in [AllBuckets -> Nat]
  BY CaseIs
<1>1. /\ u.item.kind = v.item.kind /\ u.item.duration = v.item.duration /\ u.item.decaying = v.item.decaying
      /\ u.item.here = FALSE /\ u.item.refs = v.item.refs /\ u.wait = v.wait /\ u.waiting = v.waiting
      /\ u.freed = v.freed + 1 /\ u.in = v.in /\ u.item \in ItemStates
  BY <1>t, ItemsChange DEF DroppedCase, Case
<1>2. u \in Cases
  BY <1>t, <1>1 DEF Cases, DroppedCase, Case
<1> HIDE DEF u
<1>3. Listings(u, rest) = Listings(v, rest) /\ Listings(v, rest) \in Nat
  BY <1>1, ListingsAre DEF Listings
<1>4. v.item.refs = Listings(v, rest) + v.freed + 1
  BY DEF Kept
<1>5. u.item.refs = Listings(u, rest) + u.freed + 0
  BY <1>t, <1>1, <1>3, <1>4
<1>6. Kept(u, ahead, rest)
  BY <1>0, <1>1, <1>3, <1>5 DEF Kept
<1>7. ASSUME rest = 0  PROVE Held(u)
  <2>1. v.item.decaying => Soon(v, ahead, 0)
    BY <1>7 DEF Kept
  <2>2. Soon(v, ahead, 0) => Listings(v, 0) > 0
    BY SoonIsListed
  <2> QED BY <1>1, <1>3, <1>7, <2>1, <2>2 DEF Held
<1> QED BY <1>2, <1>6, <1>7 DEF u

\* Game::startDecay
LEMMA ListedKept ==
  ASSUME NEW v \in Cases, NEW ahead, NEW rest \in Nat, Kept(v, ahead, rest)
  PROVE  LET u == ListedCase(v)
         IN u \in Cases /\ Kept(u, ahead, rest) /\ (Held(v) => Held(u))
<1> DEFINE u == ListedCase(v)
<1>1. CASE ~(CanDecay(v.item) /\ ~v.item.decaying)
  BY <1>1 DEF ListedCase
<1>2. CASE CanDecay(v.item) /\ ~v.item.decaying
  <2>t. /\ v.item \in ItemStates /\ v.wait \in Waits /\ v.waiting \in Nat /\ v.freed \in Nat /\ v.in \in [AllBuckets -> Nat]
        /\ v.item.duration \in Nat /\ v.item.refs \in Nat
    BY CaseIs
  <2>0. u = Case(TakenUp(v.item), Anew(v.wait, v.item.duration), v.waiting + 1, v.freed, v.in)
    BY <1>2 DEF ListedCase
  <2> HIDE DEF u
  <2>1. /\ u.item.kind = v.item.kind /\ u.item.duration = v.item.duration /\ u.item.decaying = TRUE
        /\ u.item.here = v.item.here /\ u.item.refs = v.item.refs + 1 /\ u.item \in ItemStates
    BY <2>0, <2>t, ItemsChange DEF Case
  <2>2. /\ u.wait.since = 0 /\ u.wait.left = v.item.duration /\ u.wait.twice = v.wait.twice /\ u.wait \in Waits
    <3>1. LET m == Anew(v.wait, v.item.duration)
          IN m.since = 0 /\ m.left = v.item.duration /\ m.twice = v.wait.twice /\ m \in Waits
      BY <2>t, AnewIs
    <3> QED BY <2>0, <3>1 DEF Case
  <2>3. u.waiting = v.waiting + 1 /\ u.freed = v.freed /\ u.in = v.in
    BY <2>0 DEF Case
  <2>4. u \in Cases
    BY <2>0, <2>t, <2>1, <2>2, <2>3 DEF Cases, Case
  <2>5. v.item.here /\ v.item.kind # NoKind
    BY <1>2 DEF CanDecay, Kept, Free
  <2>6. Listings(u, rest) = Listings(v, rest) + 1 /\ Listings(u, 0) > 0 /\ Listings(v, rest) \in Nat
    <3>1. v.in[0] \in Nat /\ v.in[1] \in Nat /\ v.in[2] \in Nat /\ v.in[3] \in Nat
      BY CaseIs
    <3> QED BY <2>t, <2>3, <3>1 DEF Listings
  <2>7. Soon(u, ahead, rest)
    BY <2>t, <2>1, <2>2, <2>3 DEF Soon
  <2>8. ASSUME ~v.wait.twice  PROVE Listings(v, rest) = 0 /\ Late(u, ahead, rest)
    <3>1. Listings(v, rest) = 0
      BY <1>2, <2>6, <2>8 DEF Kept
    <3>2. v.waiting <= 0 /\ rest <= 0 /\ \A b \in AllBuckets : v.in[b] <= 0
      BY <3>1, ListingsAre
    <3>3. \A b \in AllBuckets : v.in[b] \in Nat
      BY CaseIs
    <3>4. rest = 0 /\ \A b \in AllBuckets : u.in[b] = 0
      BY <2>3, <3>2, <3>3
    <3> QED BY <2>1, <2>2, <3>1, <3>4 DEF Late
  <2>9. u.item.refs = Listings(u, rest) + u.freed + (IF u.item.here THEN 1 ELSE 0)
    <3>1. v.item.refs = Listings(v, rest) + v.freed + 1
      BY <2>5 DEF Kept
    <3> QED BY <2>t, <2>1, <2>3, <2>5, <2>6, <3>1
  <2>10. Type[u.item.kind].time > 0 => u.item.duration > 0
    BY <2>1, <2>5 DEF Kept
  <2>11. Kept(u, ahead, rest)
    BY <2>1, <2>2, <2>5, <2>6, <2>7, <2>8, <2>9, <2>10 DEF Kept
  <2> QED BY <2>4, <2>6, <2>11 DEF Held, u
<1> QED BY <1>1, <1>2

\* One entry fewer to come.
LEMMA OneFewer ==
  ASSUME NEW v \in Cases, NEW rest \in Nat
  PROVE  /\ Listings(v, rest + 1) = Listings(v, rest) + 1
         /\ Listings(v, rest) \in Nat /\ Listings(v, rest + 1) \in Nat
<1>1. /\ v.waiting \in Nat /\ v.in[0] \in Nat /\ v.in[1] \in Nat /\ v.in[2] \in Nat /\ v.in[3] \in Nat
  BY CaseIs
<1>2. /\ Listings(v, rest + 1) = v.waiting + v.in[0] + v.in[1] + v.in[2] + v.in[3] + (rest + 1)
      /\ Listings(v, rest) = v.waiting + v.in[0] + v.in[1] + v.in[2] + v.in[3] + rest
  BY DEF Listings
<1> QED BY <1>1, <1>2

\* With one entry at most, and one to come, there is no other.
LEMMA NoOther ==
  ASSUME NEW v \in Cases, NEW rest \in Nat, Listings(v, rest + 1) <= 1
  PROVE  /\ v.waiting = 0 /\ rest = 0 /\ \A b \in AllBuckets : v.in[b] = 0
         /\ Listings(v, rest + 1) = 1 /\ Listings(v, rest) = 0
<1>1. Listings(v, rest) = 0 /\ Listings(v, rest + 1) = 1
  <2>1. /\ Listings(v, rest + 1) = Listings(v, rest) + 1
        /\ Listings(v, rest) \in Nat /\ Listings(v, rest + 1) \in Nat
    BY OneFewer
  <2> QED BY <2>1
<1>2. v.waiting <= 0 /\ rest <= 0 /\ \A b \in AllBuckets : v.in[b] <= 0
  BY <1>1, ListingsAre
<1>3. v.waiting \in Nat /\ \A b \in AllBuckets : v.in[b] \in Nat
  BY CaseIs
<1> QED BY <1>1, <1>2, <1>3

\* Item::setID of an item in the world that is used.
LEMMA SetKept ==
  ASSUME NEW v \in Cases, NEW ahead, Kept(v, ahead, 0), v.item.here,
         NEW kind \in Kinds \ {NoKind}
  PROVE  LET u == SetCase(v, kind, Listings(v, 0) > 0)
         IN u \in Cases /\ Kept(u, ahead, 0) /\ (Held(v) => Held(u))
<1> DEFINE new == SetId(v.item, kind)
           starts == Type[kind].time > 0 /\ (~Type[v.item.kind].stop \/ v.item.duration = 0)
           clears == Type[kind].time = 0 /\ ~Type[kind].stop /\ Type[kind].decayTo = NoKind
           u == SetCase(v, kind, Listings(v, 0) > 0)
<1>t. /\ v.item \in ItemStates /\ v.wait \in Waits /\ v.waiting \in Nat /\ v.freed \in Nat /\ v.in \in [AllBuckets -> Nat]
      /\ v.item.kind \in Kinds /\ v.item.duration \in Nat /\ v.item.decaying \in BOOLEAN /\ v.wait.twice \in BOOLEAN
  BY CaseIs
<1>1. /\ new \in ItemStates
      /\ new.kind = kind /\ new.here = v.item.here /\ new.refs = v.item.refs
      /\ new.duration = IF starts THEN Type[kind].time ELSE IF clears THEN 0 ELSE v.item.duration
      /\ new.decaying = IF starts \/ clears THEN FALSE ELSE v.item.decaying
  BY <1>t, SetIdIs DEF IsSetTo, Starts, Clears
<1>2. /\ u.item = new /\ u.waiting = v.waiting /\ u.freed = v.freed /\ u.in = v.in
      /\ u.wait.since = v.wait.since /\ u.wait.left = v.wait.left
      /\ u.wait.twice = (v.wait.twice \/ (Listings(v, 0) > 0 /\ v.item.decaying /\ ~new.decaying))
  BY <1>t, <1>1, TwiceIs DEF SetCase, Case
<1>3. u \in Cases
  BY <1>t, <1>1, TwiceIs DEF SetCase, Case, Cases
<1> HIDE DEF u, new
<1>4. Listings(u, 0) = Listings(v, 0) /\ Listings(v, 0) \in Nat
  BY <1>2, ListingsAre DEF Listings
<1>5. u.item.decaying => v.item.decaying /\ u.item.duration = v.item.duration
  BY <1>1, <1>2
<1>6. Type[kind].time > 0 => u.item.duration > 0
  <2>1. Type[kind].time \in Nat
    BY KindIs
  <2> QED BY <1>t, <1>1, <1>2, <2>1
<1>7. u.item.here /\ u.item.decaying => Soon(u, ahead, 0)
  <2> SUFFICES ASSUME u.item.decaying  PROVE Soon(u, ahead, 0)
    OBVIOUS
  <2>1. Soon(v, ahead, 0)
    BY <1>5 DEF Kept
  <2> QED BY <1>2, <1>5, <2>1 DEF Soon, InTime
<1>8. ASSUME ~u.wait.twice
      PROVE  /\ Listings(u, 0) <= 1
             /\ Listings(u, 0) = 1 => u.item.decaying
             /\ u.item.here /\ u.item.decaying => Late(u, ahead, 0)
  <2>1. ~v.wait.twice /\ ~(Listings(v, 0) > 0 /\ v.item.decaying /\ ~new.decaying)
    BY <1>2, <1>8
  <2>2. /\ Listings(v, 0) <= 1 /\ (Listings(v, 0) = 1 => v.item.decaying)
        /\ v.item.decaying => Late(v, ahead, 0)
    BY <2>1 DEF Kept
  <2>3. Listings(u, 0) = 1 => u.item.decaying
    BY <1>2, <1>4, <2>1, <2>2
  <2>4. u.item.decaying => Late(u, ahead, 0)
    BY <1>2, <1>5, <2>2 DEF Late, NotEarly
  <2> QED BY <1>4, <2>2, <2>3, <2>4
<1>9. u.item.refs = Listings(u, 0) + u.freed + (IF u.item.here THEN 1 ELSE 0)
  <2>1. v.item.refs = Listings(v, 0) + v.freed + 1
    BY DEF Kept
  <2> QED BY <1>1, <1>2, <1>4, <2>1
<1>10. Kept(u, ahead, 0)
  BY <1>1, <1>2, <1>6, <1>7, <1>8, <1>9 DEF Kept
<1>11. Held(v) => Held(u)
  BY <1>4, <1>5 DEF Held
<1> QED BY <1>3, <1>10, <1>11 DEF u

\* An item that is made of a free slot.
LEMMA NewKept ==
  ASSUME NEW v \in Cases, NEW ahead, NEW rest \in Nat, Kept(v, ahead, rest), v.item.kind = NoKind,
         NEW kind \in Kinds \ {NoKind}, NEW duration \in Nat, Type[kind].time > 0 => duration > 0
  PROVE  LET u == NewCase(v, kind, duration)
         IN u \in Cases /\ Kept(u, ahead, rest) /\ Held(u) /\ rest = 0
<1> DEFINE u == NewCase(v, kind, duration)
<1>t. v.waiting \in Nat /\ v.freed \in Nat /\ v.in \in [AllBuckets -> Nat]
  BY CaseIs
<1>1. /\ u.item.kind = kind /\ u.item.duration = duration /\ u.item.decaying = FALSE /\ u.item.here = TRUE
      /\ u.item.refs = 1 /\ u.wait.twice = FALSE /\ u.waiting = v.waiting /\ u.freed = v.freed /\ u.in = v.in
  BY DEF NewCase, Case, Created, NotWaiting
<1>2. u \in Cases
  BY <1>t DEF NewCase, Case, Created, NotWaiting, Cases, ItemStates, Waits
<1> HIDE DEF u
<1>3. Listings(u, rest) = Listings(v, rest) /\ Listings(v, rest) \in Nat /\ rest <= Listings(v, rest)
  BY <1>1, ListingsAre DEF Listings
<1>4. v.item.refs = 0 /\ ~v.item.here
  BY DEF Kept, Free
<1>5. v.item.refs = Listings(v, rest) + v.freed + 0
  BY <1>4 DEF Kept
<1>6. Listings(v, rest) = 0 /\ v.freed = 0
  BY <1>t, <1>3, <1>4, <1>5
<1>7. Kept(u, ahead, rest)
  BY <1>1, <1>3, <1>6 DEF Kept
<1>8. Held(u)
  BY <1>1 DEF Held
<1> QED BY <1>2, <1>3, <1>6, <1>7, <1>8 DEF u

\* An item that decays into one without a successor of its own.
LEMMA AnewKept ==
  ASSUME NEW v \in Cases, NEW ahead, NEW rest \in Nat, Kept(v, ahead, rest + 1), CanDecay(v.item),
         NEW to \in Kinds \ {NoKind}, to = Type[v.item.kind].decayTo, <<v.item.kind, to>> \notin Replaces,
         NEW waits \in BOOLEAN
  PROVE  LET u == EndedCase(ListedCase(SetCase(Aged(v), to, waits)))
         IN u \in Cases /\ Kept(u, ahead, rest)
<1> DEFINE old == Older(v.item)
           new == SetId(old, to)
           b == SetCase(Aged(v), to, waits)
           e == EndedCase(b)
           starts == Type[to].time > 0 /\ (~Type[v.item.kind].stop \/ old.duration = 0)
           clears == Type[to].time = 0 /\ ~Type[to].stop /\ Type[to].decayTo = NoKind
<1>t. /\ v.item \in ItemStates /\ v.wait \in Waits /\ v.waiting \in Nat /\ v.freed \in Nat /\ v.in \in [AllBuckets -> Nat]
      /\ v.item.kind \in Kinds /\ v.item.duration \in Nat /\ v.item.decaying \in BOOLEAN /\ v.wait.twice \in BOOLEAN
      /\ v.wait.since \in Nat /\ v.wait.left \in Nat
  BY CaseIs
<1>1. v.item.here /\ v.item.kind # NoKind /\ Decays(v.item.kind)
  BY DEF CanDecay, Kept, Free
<1>2. /\ old \in ItemStates /\ old.kind = v.item.kind /\ old.here = v.item.here /\ old.refs = v.item.refs
      /\ old.decaying = v.item.decaying /\ old.duration \in Nat
  <2>1. Older(v.item) \in ItemStates
    BY <1>t, ItemsChange
  <2> QED BY <1>t, <2>1, ItemsChange DEF ItemStates
<1>3. /\ new \in ItemStates
      /\ new.kind = to /\ new.here = v.item.here /\ new.refs = v.item.refs
      /\ new.duration = IF starts THEN Type[to].time ELSE IF clears THEN 0 ELSE old.duration
      /\ new.decaying = IF starts \/ clears THEN FALSE ELSE old.decaying
  <2> HIDE DEF old, new, b, e, starts, clears
  <2>1. old \in ItemStates /\ to \in Kinds /\ old.kind \in Kinds
    BY <1>t, <1>2
  <2>2. IsSetTo(SetId(old, to), old, to)
    BY <2>1, SetIdIs
  <2> QED BY <1>2, <2>2 DEF IsSetTo, Starts, Clears, new, starts, clears
<1>4. starts \/ clears
  <2>1. to # Gone
    BY DecayAssumption
  <2> QED BY <1>t, <1>1, <2>1, ClocksAssumption
<1>5. new.decaying = FALSE
  BY <1>3, <1>4
<1>6. /\ e.item = new /\ e.waiting = v.waiting /\ e.freed = v.freed + 1 /\ e.in = v.in
      /\ e.wait.since = v.wait.since /\ e.wait.left = v.wait.left
      /\ e.wait.twice = (v.wait.twice \/ (waits /\ v.item.decaying /\ ~new.decaying))
  <2>1. e = Case(new, Twice(v.wait, waits /\ old.decaying /\ ~new.decaying), v.waiting, v.freed + 1, v.in)
    BY DEF EndedCase, SetCase, Case, Aged
  <2> HIDE DEF old, new, e, b
  <2>2. (waits /\ old.decaying /\ ~new.decaying) \in BOOLEAN
    OBVIOUS
  <2>3. LET m == Twice(v.wait, waits /\ old.decaying /\ ~new.decaying)
        IN m.since = v.wait.since /\ m.left = v.wait.left /\ m.twice = (v.wait.twice \/ (waits /\ old.decaying /\ ~new.decaying))
    BY <1>t, <2>2, TwiceIs
  <2> QED BY <1>2, <2>1, <2>3 DEF Case
<1>7. e = Case(new, Twice(v.wait, waits /\ old.decaying /\ ~new.decaying), v.waiting, v.freed + 1, v.in)
  BY DEF EndedCase, SetCase, Case, Aged
<1>8. EndedCase(ListedCase(b)) = ListedCase(e)
  BY DEF EndedCase, ListedCase, Case
<1> HIDE DEF new, old, e, b
<1>9. e \in Cases
  <2>1. (waits /\ old.decaying /\ ~new.decaying) \in BOOLEAN
    OBVIOUS
  <2>2. Twice(v.wait, waits /\ old.decaying /\ ~new.decaying) \in Waits
    BY <1>t, <2>1, TwiceIs
  <2> QED BY <1>t, <1>3, <1>7, <2>2 DEF Case, Cases
<1>10. Listings(e, rest) = Listings(v, rest)
  BY <1>6 DEF Listings
<1>11. Listings(v, rest + 1) = Listings(v, rest) + 1 /\ Listings(v, rest) \in Nat
  BY OneFewer
<1>12. e.item.refs = Listings(e, rest) + e.freed + (IF e.item.here THEN 1 ELSE 0)
  <2>1. v.item.refs = Listings(v, rest + 1) + v.freed + 1
    BY <1>1 DEF Kept
  <2>2. e.item.refs = v.item.refs /\ e.item.here /\ e.freed = v.freed + 1
    BY <1>1, <1>3, <1>6
  <2> HIDE DEF starts, clears
  <2> QED BY <1>t, <1>10, <1>11, <2>1, <2>2
<1>13. Type[to].time > 0 => e.item.duration > 0
  <2>1. Type[to].time \in Nat
    BY KindIs
  <2> QED BY <1>3, <1>4, <1>6, <2>1
<1>14. ~e.wait.twice => Listings(e, rest) <= 1 /\ Listings(e, rest) # 1
  <2>0. ~e.wait.twice => ~v.wait.twice
    BY <1>6
  <2> SUFFICES ASSUME ~v.wait.twice  PROVE Listings(v, rest) = 0
    BY <1>10, <2>0
  <2>1. Listings(v, rest + 1) <= 1
    BY DEF Kept
  <2> QED BY <1>11, <2>1
<1>15. Kept(e, ahead, rest)
  BY <1>3, <1>5, <1>6, <1>12, <1>13, <1>14 DEF Kept
<1> QED BY <1>8, <1>9, <1>15, ListedKept DEF b

\* An item that decays and is no more, or is replaced by another one.
LEMMA GoneKept ==
  ASSUME NEW v \in Cases, NEW ahead, NEW rest \in Nat, Kept(v, ahead, rest + 1), v.item.here
  PROVE  LET u == EndedCase(DroppedCase(Aged(v)))
         IN u \in Cases /\ Kept(u, ahead, rest)
<1> DEFINE u == EndedCase(DroppedCase(Aged(v)))
<1>t. /\ v.item \in ItemStates /\ v.wait \in Waits /\ v.waiting \in Nat /\ v.freed \in Nat /\ v.in \in [AllBuckets -> Nat]
      /\ v.item.kind \in Kinds /\ v.item.duration \in Nat /\ v.item.decaying \in BOOLEAN /\ v.item.refs \in Nat
  BY CaseIs
<1>0. v.item.kind # NoKind
  BY DEF Kept, Free
<1>1. /\ u.item.kind = v.item.kind /\ u.item.here = FALSE /\ u.item.refs = v.item.refs
      /\ u.wait = v.wait /\ u.waiting = v.waiting /\ u.freed = (v.freed + 1) + 1 /\ u.in = v.in
  <2>1. u = Case(Outside(Older(v.item)), v.wait, v.waiting, (v.freed + 1) + 1, v.in)
    BY DEF EndedCase, DroppedCase, Aged, Case
  <2>2. Older(v.item) \in ItemStates
    BY <1>t, ItemsChange
  <2> DEFINE o == Outside(Older(v.item))
  <2>3. o.kind = v.item.kind /\ o.here = FALSE /\ o.refs = v.item.refs
    <3>1. /\ o.kind = Older(v.item).kind /\ o.here = FALSE /\ o.refs = Older(v.item).refs
      BY <2>2, ItemsChange
    <3>2. Older(v.item).kind = v.item.kind /\ Older(v.item).refs = v.item.refs
      BY <1>t, ItemsChange
    <3> QED BY <3>1, <3>2
  <2> HIDE DEF u, o
  <2> QED BY <2>1, <2>3 DEF Case, o
<1>2. u \in Cases
  <2>1. Outside(Older(v.item)) \in ItemStates
    BY <1>t, ItemsChange
  <2> QED BY <1>t, <2>1 DEF EndedCase, DroppedCase, Aged, Case, Cases
<1> HIDE DEF u
<1>3. Listings(u, rest) = Listings(v, rest)
  BY <1>1 DEF Listings
<1>4. Listings(v, rest + 1) = Listings(v, rest) + 1 /\ Listings(v, rest) \in Nat
  BY OneFewer
<1>5. u.item.refs = Listings(u, rest) + u.freed + 0
  <2>1. v.item.refs = Listings(v, rest + 1) + v.freed + 1
    BY DEF Kept
  <2> QED BY <1>t, <1>1, <1>3, <1>4, <2>1
<1>6. ~u.wait.twice => Listings(u, rest) <= 1 /\ Listings(u, rest) # 1
  <2> SUFFICES ASSUME ~v.wait.twice  PROVE Listings(v, rest) = 0
    BY <1>1, <1>3
  <2>1. Listings(v, rest + 1) <= 1
    BY DEF Kept
  <2> QED BY <1>4, <2>1
<1>7. Kept(u, ahead, rest)
  BY <1>0, <1>1, <1>5, <1>6 DEF Kept
<1> QED BY <1>2, <1>7 DEF u

\* An entry of an item that does not decay any more.
LEMMA StoppedKept ==
  ASSUME NEW v \in Cases, NEW ahead, NEW rest \in Nat, Kept(v, ahead, rest + 1)
  PROVE  LET u == StoppedCase(v)
         IN u \in Cases /\ Kept(u, ahead, rest)
<1> DEFINE u == StoppedCase(v)
<1>t. /\ v.item \in ItemStates /\ v.wait \in Waits /\ v.waiting \in Nat /\ v.freed \in Nat /\ v.in \in [AllBuckets -> Nat]
      /\ v.item.kind \in Kinds /\ v.item.duration \in Nat /\ v.item.here \in BOOLEAN /\ v.item.refs \in Nat
  BY CaseIs
<1>1. /\ u.item.kind = v.item.kind /\ u.item.here = v.item.here /\ u.item.refs = v.item.refs
      /\ u.item.decaying = FALSE /\ u.item.duration = v.item.duration
      /\ u.wait = v.wait /\ u.waiting = v.waiting /\ u.freed = v.freed + 1 /\ u.in = v.in
  BY <1>t, ItemsChange DEF StoppedCase, EndedCase, Case
<1>2. u \in Cases
  <2>1. Stopped(v.item) \in ItemStates
    BY <1>t, ItemsChange
  <2> QED BY <1>t, <2>1 DEF StoppedCase, EndedCase, Case, Cases
<1> HIDE DEF u
<1>3. Listings(u, rest) = Listings(v, rest)
  BY <1>1 DEF Listings
<1>4. Listings(v, rest + 1) = Listings(v, rest) + 1 /\ Listings(v, rest) \in Nat
  BY OneFewer
<1>5. v.item.refs = Listings(v, rest + 1) + v.freed + (IF v.item.here THEN 1 ELSE 0)
  BY DEF Kept
<1>6. u.item.refs = Listings(u, rest) + u.freed + (IF u.item.here THEN 1 ELSE 0)
  BY <1>t, <1>1, <1>3, <1>4, <1>5
<1>7. v.item.kind # NoKind
  <2>1. v.item.refs # 0
    BY <1>t, <1>4, <1>5
  <2> QED BY <2>1 DEF Kept, Free
<1>8. ~u.wait.twice => Listings(u, rest) <= 1 /\ Listings(u, rest) # 1
  <2> SUFFICES ASSUME ~v.wait.twice  PROVE Listings(v, rest) = 0
    BY <1>1, <1>3
  <2>1. Listings(v, rest + 1) <= 1
    BY DEF Kept
  <2> QED BY <1>4, <2>1
<1>9. u.item.here /\ Type[u.item.kind].time > 0 => u.item.duration > 0
  BY <1>1 DEF Kept
<1>10. Kept(u, ahead, rest)
  BY <1>1, <1>6, <1>7, <1>8, <1>9 DEF Kept
<1> QED BY <1>2, <1>10 DEF u

\* An entry of an item that has something left, put in the bucket it is to be looked at in.
LEMMA PutKept ==
  ASSUME NEW v \in Cases, NEW ahead \in [AllBuckets -> Nat], NEW rest \in Nat, Kept(v, ahead, rest + 1),
         CanDecay(v.item), NEW b \in AllBuckets,
         Older(v.item).duration > 0,
         ahead[b] = IF Older(v.item).duration >= Round THEN Buckets + 1 ELSE 2
  PROVE  LET u == PutCase(v, b)
         IN u \in Cases /\ Kept(u, ahead, rest)
<1> DEFINE u == PutCase(v, b)
           d == v.item.duration
           left == d - 1000
           n == v.wait.since
           D == v.wait.left
<1>t. /\ v.item \in ItemStates /\ v.wait \in Waits /\ v.waiting \in Nat /\ v.freed \in Nat /\ v.in \in [AllBuckets -> Nat]
      /\ v.item.kind \in Kinds /\ v.item.duration \in Nat /\ v.item.decaying \in BOOLEAN /\ v.item.here \in BOOLEAN
      /\ v.item.refs \in Nat /\ v.wait.since \in Nat /\ v.wait.left \in Nat
      /\ \A c \in AllBuckets : v.in[c] \in Nat
  BY CaseIs
<1>0. v.item.here /\ v.item.kind # NoKind
  BY DEF CanDecay, Kept, Free
<1>1. d >= 1000 /\ Older(v.item).duration = left /\ left \in Nat /\ left > 0
  <2>1. Older(v.item).duration = d - Elapsed(d)
    BY <1>t, ItemsChange
  <2> QED BY <1>t, <2>1 DEF Elapsed, Round, Interval, Buckets
<1>2. ahead[b] = IF left >= 1000 THEN 5 ELSE 2
  BY <1>1 DEF Round, Interval, Buckets
<1>3. /\ u.item.kind = v.item.kind /\ u.item.here = v.item.here /\ u.item.refs = v.item.refs
      /\ u.item.decaying = v.item.decaying /\ u.item.duration = left
      /\ u.wait = v.wait /\ u.waiting = v.waiting /\ u.freed = v.freed /\ u.in = [v.in EXCEPT ![b] = @ + 1]
  <2> DEFINE o == Older(v.item)
  <2>1. o.kind = v.item.kind /\ o.here = v.item.here /\ o.refs = v.item.refs /\ o.decaying = v.item.decaying
    BY <1>t, ItemsChange
  <2>2. u = Case(o, v.wait, v.waiting, v.freed, [v.in EXCEPT ![b] = @ + 1])
    BY DEF PutCase
  <2>3. o.duration = left
    BY <1>1
  <2> HIDE DEF u, o
  <2> QED BY <2>1, <2>2, <2>3 DEF Case
<1>4. u \in Cases
  <2>1. Older(v.item) \in ItemStates
    BY <1>t, ItemsChange
  <2>2. [v.in EXCEPT ![b] = @ + 1] \in [AllBuckets -> Nat]
    BY <1>t
  <2> QED BY <1>t, <2>1, <2>2 DEF PutCase, Case, Cases
<1>5. u.in[b] = v.in[b] + 1 /\ \A c \in AllBuckets : c # b => u.in[c] = v.in[c]
  BY <1>t, <1>3
<1>6. \A c \in AllBuckets : v.in[c] > 0 => u.in[c] > 0
  BY <1>t, <1>5
<1> HIDE DEF u
<1>7. Listings(u, rest) = Listings(v, rest + 1) /\ Listings(v, rest + 1) \in Nat
  <2>1. /\ v.waiting \in Nat /\ v.in[0] \in Nat /\ v.in[1] \in Nat /\ v.in[2] \in Nat /\ v.in[3] \in Nat
    BY CaseIs
  <2>2. b = 0 \/ b = 1 \/ b = 2 \/ b = 3
    BY FourBuckets
  <2>3. \A c \in {0, 1, 2, 3} : u.in[c] = v.in[c] + (IF c = b THEN 1 ELSE 0)
    BY <1>t, <1>5, FourBuckets
  <2>4. /\ u.in[0] = v.in[0] + (IF b = 0 THEN 1 ELSE 0) /\ u.in[1] = v.in[1] + (IF b = 1 THEN 1 ELSE 0)
        /\ u.in[2] = v.in[2] + (IF b = 2 THEN 1 ELSE 0) /\ u.in[3] = v.in[3] + (IF b = 3 THEN 1 ELSE 0)
    BY <2>3
  <2>5. u.waiting = v.waiting
    BY <1>3
  <2>6. Listings(u, rest) = Listings(v, rest + 1)
    BY <2>1, <2>2, <2>4, <2>5 DEF Listings
  <2> QED BY <2>6, OneFewer
<1>8. \A c : ahead[c] \in Nat /\ InTime(v, ahead[c]) => InTime(u, ahead[c])
  <2> SUFFICES ASSUME NEW c, ahead[c] \in Nat, InTime(v, ahead[c])  PROVE InTime(u, ahead[c])
    OBVIOUS
  <2> DEFINE k == ahead[c]
  <2>1. k \in Nat
    OBVIOUS
  <2> HIDE DEF k
  <2>2. (n + k) * 250 <= D - d + 250 + 1000
    BY <1>1 DEF k, InTime, Slack, Round, Interval, Buckets
  <2>3. (n + k) * 250 <= D - left + 250 + (IF left >= 1000 THEN 1000 ELSE 250)
    BY <1>t, <1>1, <2>1, <2>2
  <2> QED BY <1>3, <2>3 DEF k, InTime, Slack, Round, Interval, Buckets
<1>9. InTime(v, 1) => InTime(u, ahead[b])
  <2> SUFFICES ASSUME InTime(v, 1)  PROVE InTime(u, ahead[b])
    OBVIOUS
  <2>1. (n + 1) * 250 <= D - d + 250 + 1000
    BY <1>1 DEF InTime, Slack, Round, Interval, Buckets
  <2>2. (n + ahead[b]) * 250 <= D - left + 250 + (IF left >= 1000 THEN 1000 ELSE 250)
    BY <1>t, <1>1, <1>2, <2>1
  <2> QED BY <1>3, <2>2 DEF InTime, Slack, Round, Interval, Buckets
<1>10. NotEarly(v, 1) => NotEarly(u, ahead[b])
  <2> SUFFICES ASSUME NotEarly(v, 1)  PROVE NotEarly(u, ahead[b])
    OBVIOUS
  <2>1. (n + 1) * 250 >= D - d + 1000
    BY <1>1 DEF NotEarly, Slack, Round, Interval, Buckets
  <2>2. (n + ahead[b]) * 250 >= D - left + (IF left >= 1000 THEN 1000 ELSE 250)
    BY <1>t, <1>1, <1>2, <2>1
  <2> QED BY <1>3, <2>2 DEF NotEarly, Slack, Round, Interval, Buckets
<1>11. ASSUME Soon(v, ahead, rest + 1)  PROVE Soon(u, ahead, rest)
  <2>1. CASE v.waiting > 0 /\ v.wait.since = 0 /\ v.item.duration <= v.wait.left
    <3>1. u.waiting > 0 /\ u.wait.since = 0
      BY <1>3, <2>1
    <3>2. u.item.duration <= u.wait.left
      <4>1. left <= D
        BY <1>t, <1>1, <2>1
      <4> QED BY <1>3, <4>1
    <3> QED BY <3>1, <3>2 DEF Soon
  <2>2. CASE \E c \in AllBuckets : v.in[c] > 0 /\ InTime(v, ahead[c])
    BY <1>6, <1>8, <2>2 DEF Soon
  <2>3. CASE InTime(v, 1)
    <3>1. u.in[b] > 0
      BY <1>t, <1>5
    <3> QED BY <1>9, <2>3, <3>1 DEF Soon
  <2> QED BY <1>11, <2>1, <2>2, <2>3 DEF Soon
<1>12. ASSUME ~v.wait.twice
       PROVE  /\ Listings(v, rest + 1) <= 1 /\ v.item.decaying /\ Late(u, ahead, rest)
  <2>1. /\ Listings(v, rest + 1) <= 1 /\ (Listings(v, rest + 1) = 1 => v.item.decaying)
        /\ v.item.decaying => Late(v, ahead, rest + 1)
    BY <1>0, <1>12 DEF Kept
  <2>2. v.waiting = 0 /\ rest = 0 /\ (\A c \in AllBuckets : v.in[c] = 0) /\ Listings(v, rest + 1) = 1
    BY <2>1, NoOther
  <2>3. NotEarly(u, ahead[b])
    <3>1. rest + 1 > 0
      BY <2>2
    <3> QED BY <1>10, <2>1, <2>2, <3>1 DEF Late
  <2>4. \A c \in AllBuckets : u.in[c] > 0 => c = b
    BY <1>5, <2>2
  <2> QED BY <1>3, <2>1, <2>2, <2>3, <2>4 DEF Late
<1>13. u.item.refs = Listings(u, rest) + u.freed + (IF u.item.here THEN 1 ELSE 0)
  <2>1. v.item.refs = Listings(v, rest + 1) + v.freed + (IF v.item.here THEN 1 ELSE 0)
    BY DEF Kept
  <2> QED BY <1>3, <1>7, <2>1
<1>14. u.item.here /\ u.item.decaying => Soon(u, ahead, rest)
  <2>1. v.item.here /\ v.item.decaying => Soon(v, ahead, rest + 1)
    BY DEF Kept
  <2> QED BY <1>3, <1>11, <2>1
<1>15. u.item.duration > 0
  BY <1>1, <1>3
<1>16. Kept(u, ahead, rest)
  BY <1>0, <1>3, <1>7, <1>12, <1>13, <1>14, <1>15 DEF Kept
<1> QED BY <1>4, <1>16 DEF u

\* What cleanup makes of a case: to is the bucket its entries in toDecayItems are put in, and
\* one check may have passed.
ReleasedItem(v) ==
  IF v.item.kind # NoKind /\ v.item.refs - v.freed = 0 THEN Free
  ELSE [v.item EXCEPT !.refs = v.item.refs - v.freed]
WaitAfter(v, checks) ==
  IF ReleasedItem(v).kind = NoKind THEN NotWaiting
  ELSE IF checks = 1 /\ v.item.decaying THEN [v.wait EXCEPT !.since = v.wait.since + 1] ELSE v.wait
CleanedCase(v, to, checks) ==
  Case(ReleasedItem(v), WaitAfter(v, checks), 0, 0, [v.in EXCEPT ![to] = @ + v.waiting])

\* A free slot has no references.
LEMMA ZeroRefs == [Free EXCEPT !.refs = 0] = Free
<1>1. \A x : x \in ItemStates /\ x.refs = 0 => [x EXCEPT !.refs = 0] = x
  BY DEF ItemStates
<1>2. Free \in ItemStates /\ Free.refs = 0
  BY DecayAssumption DEF Free, ItemStates
<1> QED BY <1>1, <1>2

\* Cleaning up leaves a sound case, the buckets being so many checks nearer.
LEMMA CleanedKept ==
  ASSUME NEW v \in Cases, NEW ahead \in [AllBuckets -> Nat], NEW later \in [AllBuckets -> Nat], Kept(v, ahead, 0),
         NEW checks \in 0..1, NEW to \in AllBuckets,
         \A b \in AllBuckets : ahead[b] = later[b] + checks,
         later[to] = IF v.item.duration >= Round THEN Buckets ELSE 1
  PROVE  LET u == CleanedCase(v, to, checks)
         IN u \in Cases /\ Kept(u, later, 0) /\ Held(u)
<1> DEFINE u == CleanedCase(v, to, checks)
           d == v.item.duration
           n == v.wait.since
           D == v.wait.left
<1>t. /\ v.item \in ItemStates /\ v.wait \in Waits /\ v.waiting \in Nat /\ v.freed \in Nat /\ v.in \in [AllBuckets -> Nat]
      /\ v.item.kind \in Kinds /\ v.item.duration \in Nat /\ v.item.decaying \in BOOLEAN /\ v.item.here \in BOOLEAN
      /\ v.item.refs \in Nat /\ v.wait.since \in Nat /\ v.wait.left \in Nat /\ v.wait.twice \in BOOLEAN
      /\ \A b \in AllBuckets : v.in[b] \in Nat
  BY CaseIs
<1>l. Listings(v, 0) \in Nat
  BY ListingsAre
<1>1. v.item.refs = Listings(v, 0) + v.freed + (IF v.item.here THEN 1 ELSE 0)
  BY DEF Kept
<1>2. v.item.refs - v.freed = Listings(v, 0) + (IF v.item.here THEN 1 ELSE 0)
  BY <1>t, <1>l, <1>1
<1>3. u.waiting = 0 /\ u.freed = 0 /\ u.in = [v.in EXCEPT ![to] = @ + v.waiting]
  BY DEF CleanedCase, Case
<1>4. u.in[to] = v.in[to] + v.waiting /\ \A b \in AllBuckets : b # to => u.in[b] = v.in[b]
  BY <1>t, <1>3
<1>5. u.item = ReleasedItem(v) /\ u.wait = WaitAfter(v, checks)
  BY DEF CleanedCase, Case
<1>6. v.in \in [AllBuckets -> Nat] /\ [v.in EXCEPT ![to] = @ + v.waiting] \in [AllBuckets -> Nat]
  BY <1>t
<1> HIDE DEF u
<1>7. Listings(u, 0) = Listings(v, 0)
  <2>1. /\ v.waiting \in Nat /\ v.in[0] \in Nat /\ v.in[1] \in Nat /\ v.in[2] \in Nat /\ v.in[3] \in Nat
    BY CaseIs
  <2>2. to = 0 \/ to = 1 \/ to = 2 \/ to = 3
    BY FourBuckets
  <2>3. \A c \in {0, 1, 2, 3} : u.in[c] = v.in[c] + (IF c = to THEN v.waiting ELSE 0)
    BY <1>t, <1>4, FourBuckets
  <2>4. /\ u.in[0] = v.in[0] + (IF to = 0 THEN v.waiting ELSE 0) /\ u.in[1] = v.in[1] + (IF to = 1 THEN v.waiting ELSE 0)
        /\ u.in[2] = v.in[2] + (IF to = 2 THEN v.waiting ELSE 0) /\ u.in[3] = v.in[3] + (IF to = 3 THEN v.waiting ELSE 0)
    BY <2>3
  <2> QED BY <1>3, <2>1, <2>2, <2>4 DEF Listings
<1>8. CASE v.item.kind = NoKind \/ v.item.refs - v.freed = 0
  <2>1. u.item = Free /\ u.wait = NotWaiting /\ Listings(v, 0) = 0
    <3>1. CASE v.item.kind = NoKind
      <4>1. v.item = Free
        BY <3>1 DEF Kept
      <4>2. v.item.refs = 0 /\ ~v.item.here
        BY <4>1 DEF Free
      <4>3. v.freed = 0 /\ Listings(v, 0) = 0
        BY <1>t, <1>l, <1>1, <4>2
      <4>4. v.item.refs - v.freed = 0
        BY <4>2, <4>3
      <4>5. ReleasedItem(v) = Free
        <5>1. v.item.kind = NoKind /\ v.item.duration = 0 /\ v.item.decaying = FALSE /\ v.item.here = FALSE
          BY <4>1 DEF Free
        <5>2. ReleasedItem(v) = [Free EXCEPT !.refs = 0]
          BY <4>1, <4>4, <5>1 DEF ReleasedItem
        <5>3. [Free EXCEPT !.refs = 0] = Free
          BY ZeroRefs
        <5> QED BY <5>2, <5>3
      <4>6. WaitAfter(v, checks) = NotWaiting
        BY <4>5 DEF WaitAfter, Free
      <4> QED BY <1>5, <4>3, <4>5, <4>6
    <3>2. CASE v.item.kind # NoKind /\ v.item.refs - v.freed = 0
      <4>1. Listings(v, 0) = 0
        BY <1>l, <1>2, <3>2
      <4>2. ReleasedItem(v) = Free
        BY <3>2 DEF ReleasedItem
      <4>3. WaitAfter(v, checks) = NotWaiting
        BY <4>2 DEF WaitAfter, Free
      <4> QED BY <1>5, <4>1, <4>2, <4>3
    <3> QED BY <1>8, <3>1, <3>2
  <2>2. Free \in ItemStates /\ NotWaiting \in Waits
    BY DecayAssumption DEF Free, NotWaiting, ItemStates, Waits
  <2>3. u \in Cases
    BY <1>6, <2>1, <2>2, <1>5 DEF u, CleanedCase, Case, Cases
  <2>4. Kept(u, later, 0) /\ Held(u)
    BY <1>3, <1>7, <2>1 DEF Kept, Held, Free, NotWaiting
  <2> QED BY <2>3, <2>4 DEF u
<1>9. CASE v.item.kind # NoKind /\ v.item.refs - v.freed # 0
  <2>1. /\ ReleasedItem(v) = [v.item EXCEPT !.refs = v.item.refs - v.freed]
        /\ v.item.refs - v.freed \in Nat
    BY <1>l, <1>2, <1>9 DEF ReleasedItem
  <2>2. /\ u.item.kind = v.item.kind /\ u.item.duration = d /\ u.item.decaying = v.item.decaying
        /\ u.item.here = v.item.here /\ u.item.refs = v.item.refs - v.freed /\ u.item \in ItemStates
    BY <1>t, <1>5, <2>1 DEF ItemStates
  <2>3. u.wait = IF checks = 1 /\ v.item.decaying THEN [v.wait EXCEPT !.since = v.wait.since + 1] ELSE v.wait
    <3>1. ReleasedItem(v).kind # NoKind
      BY <1>5, <1>9, <2>2
    <3> QED BY <1>5, <3>1 DEF WaitAfter
  <2>4. u.wait.left = D /\ u.wait.twice = v.wait.twice /\ (v.item.decaying => u.wait.since = n + checks) /\ u.wait \in Waits
    <3>1. CASE checks = 1 /\ v.item.decaying
      <4>1. n + 1 \in Nat
        BY <1>t
      <4> QED BY <1>t, <2>3, <3>1, <4>1 DEF Waits
    <3>2. CASE ~(checks = 1 /\ v.item.decaying)
      <4>1. v.item.decaying => n + checks = n
        BY <1>t, <3>2
      <4> QED BY <1>t, <2>3, <3>2, <4>1
    <3> QED BY <3>1, <3>2
  <2>5. u \in Cases
    BY <1>5, <1>6, <2>2, <2>4 DEF u, CleanedCase, Case, Cases
  <2>6. Listings(v, 0) + (IF v.item.here THEN 1 ELSE 0) # 0
    BY <1>2, <1>9
  <2>7. ASSUME v.item.decaying, NEW b \in AllBuckets, InTime(v, ahead[b])  PROVE InTime(u, later[b])
    <3>1. n + ahead[b] = u.wait.since + later[b]
      BY <1>t, <2>4, <2>7
    <3> QED BY <2>2, <2>4, <2>7, <3>1 DEF InTime
  <2>8. ASSUME v.item.decaying, NEW b \in AllBuckets, NotEarly(v, ahead[b])  PROVE NotEarly(u, later[b])
    <3>1. n + ahead[b] = u.wait.since + later[b]
      BY <1>t, <2>4, <2>8
    <3> QED BY <2>2, <2>4, <2>8, <3>1 DEF NotEarly
  <2>9. later[to] = IF d >= 1000 THEN 4 ELSE 1
    BY DEF Round, Interval, Buckets
  <2>10. ASSUME v.item.here, v.item.decaying  PROVE Soon(u, later, 0)
    <3>1. Soon(v, ahead, 0)
      BY <2>10 DEF Kept
    <3>2. CASE v.waiting > 0 /\ n = 0 /\ d <= D
      <4>1. u.in[to] > 0
        BY <1>t, <1>4, <3>2
      <4>2. u.wait.since = checks /\ checks \in 0..1
        BY <2>4, <2>10, <3>2
      <4>3. (checks + later[to]) * 250 <= D - d + 250 + (IF d >= 1000 THEN 1000 ELSE 250)
        BY <1>t, <2>9, <3>2, <4>2
      <4>4. InTime(u, later[to])
        BY <2>2, <2>4, <4>2, <4>3 DEF InTime, Slack, Round, Interval, Buckets
      <4> QED BY <4>1, <4>4 DEF Soon
    <3>3. CASE \E b \in AllBuckets : v.in[b] > 0 /\ InTime(v, ahead[b])
      <4>1. PICK b \in AllBuckets : v.in[b] > 0 /\ InTime(v, ahead[b])
        BY <3>3
      <4>2. u.in[b] > 0
        BY <1>t, <1>4, <4>1
      <4>3. InTime(u, later[b])
        BY <2>7, <2>10, <4>1
      <4> QED BY <4>2, <4>3 DEF Soon
    <3> QED BY <3>1, <3>2, <3>3 DEF Soon
  <2>11. ASSUME ~v.wait.twice, v.item.here, v.item.decaying  PROVE Late(u, later, 0)
    <3>1. Late(v, ahead, 0)
      BY <2>11 DEF Kept
    <3>2. ASSUME NEW b \in AllBuckets, u.in[b] > 0  PROVE NotEarly(u, later[b])
      <4>1. CASE v.in[b] > 0
        BY <2>8, <2>11, <3>1, <4>1 DEF Late
      <4>2. CASE ~(v.in[b] > 0)
        <5>1. b = to /\ v.waiting > 0
          BY <1>t, <1>4, <3>2, <4>2
        <5>2. n = 0 /\ d = D
          BY <3>1, <5>1 DEF Late
        <5>3. u.wait.since = checks /\ checks \in 0..1
          BY <2>4, <2>11, <5>2
        <5>4. (checks + later[to]) * 250 >= D - d + (IF d >= 1000 THEN 1000 ELSE 250)
          <6>1. D - d = 0 /\ d \in Nat
            BY <1>t, <5>2
          <6>2. CASE d >= 1000
            BY <2>9, <5>3, <6>1, <6>2
          <6>3. CASE ~(d >= 1000)
            BY <2>9, <5>3, <6>1, <6>3
          <6> QED BY <6>2, <6>3
        <5> QED BY <2>2, <2>4, <5>1, <5>3, <5>4 DEF NotEarly, Slack, Round, Interval, Buckets
      <4> QED BY <4>1, <4>2
    <3> QED BY <1>3, <3>2 DEF Late
  <2>12. Held(u)
    <3> SUFFICES ASSUME v.item.decaying  PROVE Listings(v, 0) > 0
      BY <1>7, <2>2 DEF Held
    <3>1. CASE v.item.here
      <4>1. Soon(v, ahead, 0)
        BY <3>1 DEF Kept
      <4> QED BY <4>1, SoonIsListed
    <3>2. CASE ~v.item.here
      BY <1>l, <2>6, <3>2
    <3> QED BY <3>1, <3>2
  <2>13. u.item.refs = Listings(u, 0) + u.freed + (IF u.item.here THEN 1 ELSE 0)
    BY <1>2, <1>3, <1>7, <1>l, <2>2
  <2>14. u.item.here /\ Type[u.item.kind].time > 0 => u.item.duration > 0
    BY <2>2 DEF Kept
  <2>15. ~u.wait.twice => Listings(u, 0) <= 1 /\ (Listings(u, 0) = 1 => u.item.decaying)
    BY <1>7, <2>2, <2>4 DEF Kept
  <2>16. Kept(u, later, 0)
    BY <1>9, <2>2, <2>4, <2>10, <2>11, <2>13, <2>14, <2>15 DEF Kept
  <2> QED BY <2>5, <2>12, <2>16 DEF u
<1> QED BY <1>8, <1>9

-----------------------------------------------------------------------------
(* What the operations do to the cases of the items.                       *)

Lists == [AllBuckets -> Seq(Slot)]
Works == [items : [Slot -> ItemStates], toDecay : Seq(Slot), toRelease : Seq(Slot),
          wait : [Slot -> Waits], buckets : Lists]
WorkOf(its, waiting, freed, waits, buckets) ==
  [items |-> its, toDecay |-> waiting, toRelease |-> freed, wait |-> waits, buckets |-> buckets]
Counts(s, buckets) == [b \in AllBuckets |-> Count(s, buckets[b])]
CaseOf(w, s) ==
  Case(w.items[s], w.wait[s], Count(s, w.toDecay), Count(s, w.toRelease), Counts(s, w.buckets))
\* An operation changes the case of s, and no other.
Changes(w, u, s, v) == \A x \in Slot : CaseOf(u, x) = IF x = s THEN v ELSE CaseOf(w, x)

\* The parts of a work.
LEMMA WorkIs ==
  ASSUME NEW w \in Works
  PROVE  /\ w = WorkOf(w.items, w.toDecay, w.toRelease, w.wait, w.buckets)
         /\ w.items \in [Slot -> ItemStates] /\ w.toDecay \in Seq(Slot) /\ w.toRelease \in Seq(Slot)
         /\ w.wait \in [Slot -> Waits] /\ w.buckets \in Lists
         /\ \A b \in AllBuckets : w.buckets[b] \in Seq(Slot)
BY DEF Works, WorkOf, Lists

\* A work is made of its parts.
LEMMA PartsMakeWork ==
  ASSUME NEW its \in [Slot -> ItemStates], NEW waiting \in Seq(Slot), NEW freed \in Seq(Slot),
         NEW waits \in [Slot -> Waits], NEW buckets \in Lists, NEW w, w = WorkOf(its, waiting, freed, waits, buckets)
  PROVE  /\ w \in Works
         /\ w.items = its /\ w.toDecay = waiting /\ w.toRelease = freed /\ w.wait = waits /\ w.buckets = buckets
BY DEF Works, WorkOf

\* The cases are typed.
LEMMA CasesAre == ASSUME NEW w \in Works, NEW s \in Slot PROVE CaseOf(w, s) \in Cases
<1>1. /\ w.items[s] \in ItemStates /\ w.wait[s] \in Waits /\ Count(s, w.toDecay) \in Nat /\ Count(s, w.toRelease) \in Nat
  BY WorkIs, CountedIsThere
<1>2. Counts(s, w.buckets) \in [AllBuckets -> Nat]
  BY WorkIs, CountedIsThere DEF Counts
<1> QED BY <1>1, <1>2 DEF CaseOf, Case, Cases

\* The parts of a case.
LEMMA PartsOfCase ==
  ASSUME NEW w, NEW s
  PROVE  /\ CaseOf(w, s).item = w.items[s] /\ CaseOf(w, s).wait = w.wait[s]
         /\ CaseOf(w, s).waiting = Count(s, w.toDecay) /\ CaseOf(w, s).freed = Count(s, w.toRelease)
         /\ CaseOf(w, s).in = Counts(s, w.buckets)
BY DEF CaseOf, Case

\* What leaves all that concerns the others as it is changes the case of s alone.
LEMMA OneChanges ==
  ASSUME NEW w, NEW u, NEW s \in Slot,
         \A x \in Slot \ {s} : /\ u.items[x] = w.items[x] /\ u.wait[x] = w.wait[x]
                               /\ Count(x, u.toDecay) = Count(x, w.toDecay)
                               /\ Count(x, u.toRelease) = Count(x, w.toRelease)
                               /\ Counts(x, u.buckets) = Counts(x, w.buckets)
  PROVE  Changes(w, u, s, CaseOf(u, s))
BY DEF Changes, CaseOf

\* The parts of a work that some operation changes.
WithItems(w, its) == [w EXCEPT !.items = its]
WithFreed(w, freed) == [w EXCEPT !.toRelease = freed]
WithBuckets(w, buckets) == [w EXCEPT !.buckets = buckets]
WithItemsFreed(w, its, freed) == [w EXCEPT !.items = its, !.toRelease = freed]
WithItemsWait(w, its, waits) == [w EXCEPT !.items = its, !.wait = waits]
WithItemsListWait(w, its, waiting, waits) == [w EXCEPT !.items = its, !.toDecay = waiting, !.wait = waits]

\* It changes no other part.
LEMMA WithItemsIs ==
  ASSUME NEW w \in Works, NEW its \in [Slot -> ItemStates]
  PROVE  /\ WithItems(w, its) \in Works
         /\ WithItems(w, its).items = its /\ WithItems(w, its).toDecay = w.toDecay
         /\ WithItems(w, its).toRelease = w.toRelease /\ WithItems(w, its).wait = w.wait /\ WithItems(w, its).buckets = w.buckets
<1> DEFINE u == WithItems(w, its)
           a == w.items
           b == w.toDecay
           c == w.toRelease
           d == w.wait
           e == w.buckets
<1>1. w = WorkOf(a, b, c, d, e)
  BY WorkIs
<1>2. a \in [Slot -> ItemStates] /\ b \in Seq(Slot) /\ c \in Seq(Slot) /\ d \in [Slot -> Waits] /\ e \in Lists
  BY WorkIs
<1>3. u = [w EXCEPT !.items = its]
  BY DEF WithItems
<1> HIDE DEF a, b, c, d, e, u
<1>4. [w EXCEPT !.items = its] = WorkOf(its, b, c, d, e)
  BY <1>1 DEF WorkOf
<1>5. u = WorkOf(its, b, c, d, e)
  BY <1>3, <1>4
<1>6. u \in Works /\ u.items = its /\ u.toDecay = b /\ u.toRelease = c /\ u.wait = d /\ u.buckets = e
  BY <1>2, <1>5 DEF WorkOf, Works
<1> QED BY <1>6 DEF a, b, c, d, e, u

\* It changes no other part.
LEMMA WithFreedIs ==
  ASSUME NEW w \in Works, NEW freed \in Seq(Slot)
  PROVE  /\ WithFreed(w, freed) \in Works
         /\ WithFreed(w, freed).items = w.items /\ WithFreed(w, freed).toDecay = w.toDecay
         /\ WithFreed(w, freed).toRelease = freed /\ WithFreed(w, freed).wait = w.wait /\ WithFreed(w, freed).buckets = w.buckets
<1> DEFINE u == WithFreed(w, freed)
           a == w.items
           b == w.toDecay
           c == w.toRelease
           d == w.wait
           e == w.buckets
<1>1. w = WorkOf(a, b, c, d, e)
  BY WorkIs
<1>2. a \in [Slot -> ItemStates] /\ b \in Seq(Slot) /\ c \in Seq(Slot) /\ d \in [Slot -> Waits] /\ e \in Lists
  BY WorkIs
<1>3. u = [w EXCEPT !.toRelease = freed]
  BY DEF WithFreed
<1> HIDE DEF a, b, c, d, e, u
<1>4. [w EXCEPT !.toRelease = freed] = WorkOf(a, b, freed, d, e)
  BY <1>1 DEF WorkOf
<1>5. u = WorkOf(a, b, freed, d, e)
  BY <1>3, <1>4
<1>6. u \in Works /\ u.items = a /\ u.toDecay = b /\ u.toRelease = freed /\ u.wait = d /\ u.buckets = e
  BY <1>2, <1>5 DEF WorkOf, Works
<1> QED BY <1>6 DEF a, b, c, d, e, u

\* It changes no other part.
LEMMA WithBucketsIs ==
  ASSUME NEW w \in Works, NEW buckets \in Lists
  PROVE  /\ WithBuckets(w, buckets) \in Works
         /\ WithBuckets(w, buckets).items = w.items /\ WithBuckets(w, buckets).toDecay = w.toDecay
         /\ WithBuckets(w, buckets).toRelease = w.toRelease /\ WithBuckets(w, buckets).wait = w.wait /\ WithBuckets(w, buckets).buckets = buckets
<1> DEFINE u == WithBuckets(w, buckets)
           a == w.items
           b == w.toDecay
           c == w.toRelease
           d == w.wait
           e == w.buckets
<1>1. w = WorkOf(a, b, c, d, e)
  BY WorkIs
<1>2. a \in [Slot -> ItemStates] /\ b \in Seq(Slot) /\ c \in Seq(Slot) /\ d \in [Slot -> Waits] /\ e \in Lists
  BY WorkIs
<1>3. u = [w EXCEPT !.buckets = buckets]
  BY DEF WithBuckets
<1> HIDE DEF a, b, c, d, e, u
<1>4. [w EXCEPT !.buckets = buckets] = WorkOf(a, b, c, d, buckets)
  BY <1>1 DEF WorkOf
<1>5. u = WorkOf(a, b, c, d, buckets)
  BY <1>3, <1>4
<1>6. u \in Works /\ u.items = a /\ u.toDecay = b /\ u.toRelease = c /\ u.wait = d /\ u.buckets = buckets
  BY <1>2, <1>5 DEF WorkOf, Works
<1> QED BY <1>6 DEF a, b, c, d, e, u

\* It changes no other part.
LEMMA WithItemsFreedIs ==
  ASSUME NEW w \in Works, NEW its \in [Slot -> ItemStates], NEW freed \in Seq(Slot)
  PROVE  /\ WithItemsFreed(w, its, freed) \in Works
         /\ WithItemsFreed(w, its, freed).items = its /\ WithItemsFreed(w, its, freed).toDecay = w.toDecay
         /\ WithItemsFreed(w, its, freed).toRelease = freed /\ WithItemsFreed(w, its, freed).wait = w.wait /\ WithItemsFreed(w, its, freed).buckets = w.buckets
<1> DEFINE u == WithItemsFreed(w, its, freed)
           a == w.items
           b == w.toDecay
           c == w.toRelease
           d == w.wait
           e == w.buckets
<1>1. w = WorkOf(a, b, c, d, e)
  BY WorkIs
<1>2. a \in [Slot -> ItemStates] /\ b \in Seq(Slot) /\ c \in Seq(Slot) /\ d \in [Slot -> Waits] /\ e \in Lists
  BY WorkIs
<1>3. u = [[w EXCEPT !.items = its] EXCEPT !.toRelease = freed]
  BY DEF WithItemsFreed
<1> HIDE DEF a, b, c, d, e, u
<1>4. [w EXCEPT !.items = its] = WorkOf(its, b, c, d, e)
  BY <1>1 DEF WorkOf
<1>5. [WorkOf(its, b, c, d, e) EXCEPT !.toRelease = freed] = WorkOf(its, b, freed, d, e)
  BY <1>1 DEF WorkOf
<1>6. u = WorkOf(its, b, freed, d, e)
  BY <1>3, <1>4, <1>5
<1>7. u \in Works /\ u.items = its /\ u.toDecay = b /\ u.toRelease = freed /\ u.wait = d /\ u.buckets = e
  BY <1>2, <1>6 DEF WorkOf, Works
<1> QED BY <1>7 DEF a, b, c, d, e, u

\* It changes no other part.
LEMMA WithItemsWaitIs ==
  ASSUME NEW w \in Works, NEW its \in [Slot -> ItemStates], NEW waits \in [Slot -> Waits]
  PROVE  /\ WithItemsWait(w, its, waits) \in Works
         /\ WithItemsWait(w, its, waits).items = its /\ WithItemsWait(w, its, waits).toDecay = w.toDecay
         /\ WithItemsWait(w, its, waits).toRelease = w.toRelease /\ WithItemsWait(w, its, waits).wait = waits /\ WithItemsWait(w, its, waits).buckets = w.buckets
<1> DEFINE u == WithItemsWait(w, its, waits)
           a == w.items
           b == w.toDecay
           c == w.toRelease
           d == w.wait
           e == w.buckets
<1>1. w = WorkOf(a, b, c, d, e)
  BY WorkIs
<1>2. a \in [Slot -> ItemStates] /\ b \in Seq(Slot) /\ c \in Seq(Slot) /\ d \in [Slot -> Waits] /\ e \in Lists
  BY WorkIs
<1>3. u = [[w EXCEPT !.items = its] EXCEPT !.wait = waits]
  BY DEF WithItemsWait
<1> HIDE DEF a, b, c, d, e, u
<1>4. [w EXCEPT !.items = its] = WorkOf(its, b, c, d, e)
  BY <1>1 DEF WorkOf
<1>5. [WorkOf(its, b, c, d, e) EXCEPT !.wait = waits] = WorkOf(its, b, c, waits, e)
  BY <1>1 DEF WorkOf
<1>6. u = WorkOf(its, b, c, waits, e)
  BY <1>3, <1>4, <1>5
<1>7. u \in Works /\ u.items = its /\ u.toDecay = b /\ u.toRelease = c /\ u.wait = waits /\ u.buckets = e
  BY <1>2, <1>6 DEF WorkOf, Works
<1> QED BY <1>7 DEF a, b, c, d, e, u

\* It changes no other part.
LEMMA WithItemsListWaitIs ==
  ASSUME NEW w \in Works, NEW its \in [Slot -> ItemStates], NEW waiting \in Seq(Slot), NEW waits \in [Slot -> Waits]
  PROVE  /\ WithItemsListWait(w, its, waiting, waits) \in Works
         /\ WithItemsListWait(w, its, waiting, waits).items = its /\ WithItemsListWait(w, its, waiting, waits).toDecay = waiting
         /\ WithItemsListWait(w, its, waiting, waits).toRelease = w.toRelease /\ WithItemsListWait(w, its, waiting, waits).wait = waits /\ WithItemsListWait(w, its, waiting, waits).buckets = w.buckets
<1> DEFINE u == WithItemsListWait(w, its, waiting, waits)
           a == w.items
           b == w.toDecay
           c == w.toRelease
           d == w.wait
           e == w.buckets
<1>1. w = WorkOf(a, b, c, d, e)
  BY WorkIs
<1>2. a \in [Slot -> ItemStates] /\ b \in Seq(Slot) /\ c \in Seq(Slot) /\ d \in [Slot -> Waits] /\ e \in Lists
  BY WorkIs
<1>3. u = [[[w EXCEPT !.items = its] EXCEPT !.toDecay = waiting] EXCEPT !.wait = waits]
  BY DEF WithItemsListWait
<1> HIDE DEF a, b, c, d, e, u
<1>4. [w EXCEPT !.items = its] = WorkOf(its, b, c, d, e)
  BY <1>1 DEF WorkOf
<1>5. [WorkOf(its, b, c, d, e) EXCEPT !.toDecay = waiting] = WorkOf(its, waiting, c, d, e)
  BY <1>1 DEF WorkOf
<1>6. [WorkOf(its, waiting, c, d, e) EXCEPT !.wait = waits] = WorkOf(its, waiting, c, waits, e)
  BY <1>1 DEF WorkOf
<1>7. u = WorkOf(its, waiting, c, waits, e)
  BY <1>3, <1>4, <1>5, <1>6
<1>8. u \in Works /\ u.items = its /\ u.toDecay = waiting /\ u.toRelease = c /\ u.wait = waits /\ u.buckets = e
  BY <1>2, <1>7 DEF WorkOf, Works
<1> QED BY <1>8 DEF a, b, c, d, e, u

\* Game::startDecay
LEMMA ListedDoes ==
  ASSUME NEW w \in Works, NEW s \in Slot
  PROVE  Listed(w, s) \in Works /\ Changes(w, Listed(w, s), s, ListedCase(CaseOf(w, s)))
<1> DEFINE u == Listed(w, s)
           item == TakenUp(w.items[s])
           wt == Anew(w.wait[s], w.items[s].duration)
           waiting == <<s>> \o w.toDecay
           its == [w.items EXCEPT ![s] = item]
           waits == [w.wait EXCEPT ![s] = wt]
<1>0. /\ w.items \in [Slot -> ItemStates] /\ w.toDecay \in Seq(Slot) /\ w.toRelease \in Seq(Slot)
      /\ w.wait \in [Slot -> Waits] /\ w.buckets \in Lists
  BY WorkIs
<1>1. CASE ~(CanDecay(w.items[s]) /\ ~w.items[s].decaying)
  <2>1. u = w /\ ListedCase(CaseOf(w, s)) = CaseOf(w, s)
    BY <1>1, PartsOfCase DEF Listed, ListedCase
  <2> QED BY <2>1 DEF Changes
<1>2. CASE CanDecay(w.items[s]) /\ ~w.items[s].decaying
  <2>1. u = WithItemsListWait(w, its, waiting, waits)
    BY <1>2 DEF Listed, WithItemsListWait
  <2>2. its \in [Slot -> ItemStates] /\ waits \in [Slot -> Waits] /\ waiting \in Seq(Slot)
    <3>1. w.items[s] \in ItemStates /\ w.wait[s] \in Waits
      BY <1>0
    <3>2. w.items[s].duration \in Nat
      BY <3>1 DEF ItemStates
    <3>3. item \in ItemStates
      BY <3>1, ItemsChange
    <3>4. wt \in Waits
      BY <3>1, <3>2, AnewIs
    <3> HIDE DEF item, wt
    <3> QED BY <1>0, <3>3, <3>4
  <2>3. /\ its[s] = item /\ waits[s] = wt
        /\ \A x \in Slot \ {s} : its[x] = w.items[x] /\ waits[x] = w.wait[x]
    BY <1>0
  <2>4. \A x \in Slot : Count(x, waiting) = Count(x, w.toDecay) + (IF s = x THEN 1 ELSE 0) /\ Count(x, w.toDecay) \in Nat
    BY <1>0, CountPushed, CountedIsThere
  <2> HIDE DEF its, waits, item, wt, waiting, u
  <2>6. /\ u \in Works
        /\ u.items = its /\ u.toDecay = waiting /\ u.toRelease = w.toRelease /\ u.wait = waits /\ u.buckets = w.buckets
    BY <2>1, <2>2, WithItemsListWaitIs
  <2>7. \A x \in Slot \ {s} : /\ u.items[x] = w.items[x] /\ u.wait[x] = w.wait[x]
                               /\ Count(x, u.toDecay) = Count(x, w.toDecay)
                               /\ Count(x, u.toRelease) = Count(x, w.toRelease)
                               /\ Counts(x, u.buckets) = Counts(x, w.buckets)
    BY <2>3, <2>4, <2>6
  <2>8. Changes(w, u, s, CaseOf(u, s))
    BY <2>7, OneChanges
  <2>9. CaseOf(u, s) = Case(item, wt, Count(s, w.toDecay) + 1, Count(s, w.toRelease), Counts(s, w.buckets))
    BY <2>3, <2>4, <2>6 DEF CaseOf
  <2>10. ListedCase(CaseOf(w, s)) = Case(item, wt, Count(s, w.toDecay) + 1, Count(s, w.toRelease), Counts(s, w.buckets))
    BY <1>2, PartsOfCase DEF ListedCase, item, wt
  <2> QED BY <2>6, <2>8, <2>9, <2>10 DEF u
<1> QED BY <1>1, <1>2

\* Game::internalRemoveItem
LEMMA DroppedDoes ==
  ASSUME NEW w \in Works, NEW s \in Slot
  PROVE  Dropped(w, s) \in Works /\ Changes(w, Dropped(w, s), s, DroppedCase(CaseOf(w, s)))
<1> DEFINE u == Dropped(w, s)
           item == Outside(w.items[s])
           freed == Append(w.toRelease, s)
           its == [w.items EXCEPT ![s] = item]
<1>0. w.items \in [Slot -> ItemStates] /\ w.toRelease \in Seq(Slot)
  BY WorkIs
<1>1. u = WithItemsFreed(w, its, freed)
  BY DEF Dropped, WithItemsFreed, Outside
<1>2. its \in [Slot -> ItemStates] /\ freed \in Seq(Slot)
  <2>1. item \in ItemStates
    BY <1>0, ItemsChange
  <2> HIDE DEF item
  <2> QED BY <1>0, <2>1
<1>3. its[s] = item /\ \A x \in Slot \ {s} : its[x] = w.items[x]
  BY <1>0
<1>4. \A x \in Slot : Count(x, freed) = Count(x, w.toRelease) + (IF s = x THEN 1 ELSE 0) /\ Count(x, w.toRelease) \in Nat
  BY <1>0, CountAppended, CountedIsThere
<1> HIDE DEF its, item, freed, u
<1>5. /\ u \in Works
      /\ u.items = its /\ u.toDecay = w.toDecay /\ u.toRelease = freed /\ u.wait = w.wait /\ u.buckets = w.buckets
  BY <1>1, <1>2, WithItemsFreedIs
<1>6. \A x \in Slot \ {s} : /\ u.items[x] = w.items[x] /\ u.wait[x] = w.wait[x]
                             /\ Count(x, u.toDecay) = Count(x, w.toDecay)
                             /\ Count(x, u.toRelease) = Count(x, w.toRelease)
                             /\ Counts(x, u.buckets) = Counts(x, w.buckets)
  BY <1>3, <1>4, <1>5
<1>7. Changes(w, u, s, CaseOf(u, s))
  BY <1>6, OneChanges
<1>8. CaseOf(u, s) = Case(item, w.wait[s], Count(s, w.toDecay), Count(s, w.toRelease) + 1, Counts(s, w.buckets))
  BY <1>3, <1>4, <1>5 DEF CaseOf
<1>9. DroppedCase(CaseOf(w, s)) = Case(item, w.wait[s], Count(s, w.toDecay), Count(s, w.toRelease) + 1, Counts(s, w.buckets))
  BY PartsOfCase DEF DroppedCase, item
<1> QED BY <1>5, <1>7, <1>8, <1>9 DEF u

\* An entry is given back.
LEMMA EndedDoes ==
  ASSUME NEW w \in Works, NEW s \in Slot
  PROVE  Ended(w, s) \in Works /\ Changes(w, Ended(w, s), s, EndedCase(CaseOf(w, s)))
<1> DEFINE u == Ended(w, s)
           freed == Append(w.toRelease, s)
<1>0. w.toRelease \in Seq(Slot)
  BY WorkIs
<1>1. u = WithFreed(w, freed)
  BY DEF Ended, WithFreed
<1>2. freed \in Seq(Slot)
  BY <1>0
<1>4. \A x \in Slot : Count(x, freed) = Count(x, w.toRelease) + (IF s = x THEN 1 ELSE 0) /\ Count(x, w.toRelease) \in Nat
  BY <1>0, CountAppended, CountedIsThere
<1> HIDE DEF freed, u
<1>5. /\ u \in Works
      /\ u.items = w.items /\ u.toDecay = w.toDecay /\ u.toRelease = freed /\ u.wait = w.wait /\ u.buckets = w.buckets
  BY <1>1, <1>2, WithFreedIs
<1>6. \A x \in Slot \ {s} : /\ u.items[x] = w.items[x] /\ u.wait[x] = w.wait[x]
                             /\ Count(x, u.toDecay) = Count(x, w.toDecay)
                             /\ Count(x, u.toRelease) = Count(x, w.toRelease)
                             /\ Counts(x, u.buckets) = Counts(x, w.buckets)
  BY <1>4, <1>5
<1>7. Changes(w, u, s, CaseOf(u, s))
  BY <1>6, OneChanges
<1>8. CaseOf(u, s) = Case(w.items[s], w.wait[s], Count(s, w.toDecay), Count(s, w.toRelease) + 1, Counts(s, w.buckets))
  BY <1>4, <1>5 DEF CaseOf
<1>9. EndedCase(CaseOf(w, s)) = Case(w.items[s], w.wait[s], Count(s, w.toDecay), Count(s, w.toRelease) + 1, Counts(s, w.buckets))
  BY PartsOfCase DEF EndedCase
<1> QED BY <1>5, <1>7, <1>8, <1>9 DEF u

\* An item of a work becomes another state of it.
LEMMA ItemDoes ==
  ASSUME NEW w \in Works, NEW s \in Slot, NEW item \in ItemStates, NEW its, its = [w.items EXCEPT ![s] = item]
  PROVE  /\ WithItems(w, its) \in Works
         /\ Changes(w, WithItems(w, its), s,
                    Case(item, w.wait[s], Count(s, w.toDecay), Count(s, w.toRelease), Counts(s, w.buckets)))
<1> DEFINE u == WithItems(w, its)
<1>0. w.items \in [Slot -> ItemStates]
  BY WorkIs
<1>2. its \in [Slot -> ItemStates]
  BY <1>0
<1>3. its[s] = item /\ \A x \in Slot \ {s} : its[x] = w.items[x]
  BY <1>0
<1> HIDE DEF u
<1>5. /\ u \in Works
      /\ u.items = its /\ u.toDecay = w.toDecay /\ u.toRelease = w.toRelease /\ u.wait = w.wait /\ u.buckets = w.buckets
  BY <1>2, WithItemsIs DEF u
<1>6. \A x \in Slot \ {s} : /\ u.items[x] = w.items[x] /\ u.wait[x] = w.wait[x]
                             /\ Count(x, u.toDecay) = Count(x, w.toDecay)
                             /\ Count(x, u.toRelease) = Count(x, w.toRelease)
                             /\ Counts(x, u.buckets) = Counts(x, w.buckets)
  BY <1>3, <1>5
<1>7. Changes(w, u, s, CaseOf(u, s))
  BY <1>6, OneChanges
<1>8. CaseOf(u, s) = Case(item, w.wait[s], Count(s, w.toDecay), Count(s, w.toRelease), Counts(s, w.buckets))
  BY <1>3, <1>5 DEF CaseOf
<1> QED BY <1>5, <1>7, <1>8 DEF u

\* An item and its wait become others.
LEMMA ItemWaitDoes ==
  ASSUME NEW w \in Works, NEW s \in Slot, NEW item \in ItemStates, NEW wt \in Waits,
         NEW its, its = [w.items EXCEPT ![s] = item], NEW waits, waits = [w.wait EXCEPT ![s] = wt]
  PROVE  /\ WithItemsWait(w, its, waits) \in Works
         /\ Changes(w, WithItemsWait(w, its, waits), s,
                    Case(item, wt, Count(s, w.toDecay), Count(s, w.toRelease), Counts(s, w.buckets)))
<1> DEFINE u == WithItemsWait(w, its, waits)
<1>0. w.items \in [Slot -> ItemStates] /\ w.wait \in [Slot -> Waits]
  BY WorkIs
<1>2. its \in [Slot -> ItemStates] /\ waits \in [Slot -> Waits]
  BY <1>0
<1>3. /\ its[s] = item /\ waits[s] = wt
      /\ \A x \in Slot \ {s} : its[x] = w.items[x] /\ waits[x] = w.wait[x]
  BY <1>0
<1> HIDE DEF u
<1>5. /\ u \in Works
      /\ u.items = its /\ u.toDecay = w.toDecay /\ u.toRelease = w.toRelease /\ u.wait = waits /\ u.buckets = w.buckets
  BY <1>2, WithItemsWaitIs DEF u
<1>6. \A x \in Slot \ {s} : /\ u.items[x] = w.items[x] /\ u.wait[x] = w.wait[x]
                             /\ Count(x, u.toDecay) = Count(x, w.toDecay)
                             /\ Count(x, u.toRelease) = Count(x, w.toRelease)
                             /\ Counts(x, u.buckets) = Counts(x, w.buckets)
  BY <1>3, <1>5
<1>7. Changes(w, u, s, CaseOf(u, s))
  BY <1>6, OneChanges
<1>8. CaseOf(u, s) = Case(item, wt, Count(s, w.toDecay), Count(s, w.toRelease), Counts(s, w.buckets))
  BY <1>3, <1>5 DEF CaseOf
<1> QED BY <1>5, <1>7, <1>8 DEF u

\* An item comes into the world.
LEMMA MadeDoes ==
  ASSUME NEW w \in Works, NEW s \in Slot, NEW kind \in Kinds, NEW duration \in Nat
  PROVE  /\ Made(w, s, kind, duration) \in Works
         /\ Changes(w, Made(w, s, kind, duration), s, NewCase(CaseOf(w, s), kind, duration))
<1> DEFINE item == Created(kind, duration)
           its == [w.items EXCEPT ![s] = item]
           waits == [w.wait EXCEPT ![s] = NotWaiting]
<1>1. Made(w, s, kind, duration) = WithItemsWait(w, its, waits)
  BY DEF Made, WithItemsWait
<1>2. item \in ItemStates /\ NotWaiting \in Waits
  BY DEF Created, ItemStates, NotWaiting, Waits
<1>3. NewCase(CaseOf(w, s), kind, duration)
        = Case(item, NotWaiting, Count(s, w.toDecay), Count(s, w.toRelease), Counts(s, w.buckets))
  BY PartsOfCase DEF NewCase
<1>4. its = [w.items EXCEPT ![s] = item] /\ waits = [w.wait EXCEPT ![s] = NotWaiting]
  OBVIOUS
<1> HIDE DEF item, its, waits
<1> QED BY <1>1, <1>2, <1>3, <1>4, ItemWaitDoes

\* Item::setID of an item that is not replaced.
LEMMA SetDoes ==
  ASSUME NEW w \in Works, NEW s \in Slot, NEW kind \in Kinds, NEW new, NEW waits \in BOOLEAN,
         <<w.items[s].kind, kind>> \notin Replaces
  PROVE  LET u == Transformed(w, s, kind, new, waits)
         IN u \in Works /\ Changes(w, u, s, SetCase(CaseOf(w, s), kind, waits))
<1> DEFINE u == Transformed(w, s, kind, new, waits)
           item == SetId(w.items[s], kind)
           again == waits /\ w.items[s].decaying /\ ~item.decaying
           wt == Twice(w.wait[s], again)
           its == [w.items EXCEPT ![s] = item]
           later == [w.wait EXCEPT ![s] = wt]
<1>1. u = WithItemsWait(w, its, later)
  BY DEF Transformed, WithItemsWait
<1>2. item \in ItemStates
  <2>1. w.items[s] \in ItemStates /\ w.items[s].kind \in Kinds
    BY WorkIs DEF ItemStates
  <2> QED BY <2>1, SetIdIs DEF IsSetTo
<1>3. wt \in Waits
  <2>1. w.wait[s] \in Waits
    BY WorkIs
  <2>2. again \in BOOLEAN
    OBVIOUS
  <2> HIDE DEF again
  <2> QED BY <2>1, <2>2, TwiceIs
<1>4. SetCase(CaseOf(w, s), kind, waits)
        = Case(item, wt, Count(s, w.toDecay), Count(s, w.toRelease), Counts(s, w.buckets))
  BY PartsOfCase DEF SetCase
<1>5. its = [w.items EXCEPT ![s] = item] /\ later = [w.wait EXCEPT ![s] = wt]
  OBVIOUS
<1> HIDE DEF u, item, again, wt, its, later
<1>6. u \in Works /\ Changes(w, u, s, Case(item, wt, Count(s, w.toDecay), Count(s, w.toRelease), Counts(s, w.buckets)))
  BY <1>1, <1>2, <1>3, <1>5, ItemWaitDoes
<1> QED BY <1>4, <1>6 DEF u

\* What one visit takes off an item.
AgedWork(w, s) == [w EXCEPT !.items[s].duration = w.items[s].duration - Elapsed(w.items[s].duration)]

\* Ageing changes the case of s alone.
LEMMA AgedDoes ==
  ASSUME NEW w \in Works, NEW s \in Slot
  PROVE  AgedWork(w, s) \in Works /\ Changes(w, AgedWork(w, s), s, Aged(CaseOf(w, s)))
<1> DEFINE item == Older(w.items[s])
           its == [w.items EXCEPT ![s] = item]
<1>1. AgedWork(w, s) = WithItems(w, its)
  BY DEF AgedWork, WithItems, Older
<1>2. item \in ItemStates
  <2>1. w.items[s] \in ItemStates
    BY WorkIs
  <2> QED BY <2>1, ItemsChange
<1>3. Aged(CaseOf(w, s)) = Case(item, w.wait[s], Count(s, w.toDecay), Count(s, w.toRelease), Counts(s, w.buckets))
  BY PartsOfCase DEF Aged
<1>4. its = [w.items EXCEPT ![s] = item]
  OBVIOUS
<1> HIDE DEF item, its
<1> QED BY <1>1, <1>2, <1>3, <1>4, ItemDoes

\* An item does not decay any more.
StoppedWork(w, s) == [w EXCEPT !.items[s].decaying = FALSE]

\* So does stopping it.
LEMMA StopDoes ==
  ASSUME NEW w \in Works, NEW s \in Slot
  PROVE  /\ StoppedWork(w, s) \in Works
         /\ Changes(w, StoppedWork(w, s), s,
                    Case(Stopped(w.items[s]), w.wait[s], Count(s, w.toDecay), Count(s, w.toRelease), Counts(s, w.buckets)))
<1> DEFINE item == Stopped(w.items[s])
           its == [w.items EXCEPT ![s] = item]
<1>1. StoppedWork(w, s) = WithItems(w, its)
  BY DEF StoppedWork, WithItems, Stopped
<1>2. item \in ItemStates
  <2>1. w.items[s] \in ItemStates
    BY WorkIs
  <2> QED BY <2>1, ItemsChange
<1>4. its = [w.items EXCEPT ![s] = item]
  OBVIOUS
<1>5. item = Stopped(w.items[s])
  OBVIOUS
<1> HIDE DEF item, its
<1> QED BY <1>1, <1>2, <1>4, <1>5, ItemDoes

\* An entry is put in a bucket.
LEMMA PutDoes ==
  ASSUME NEW w \in Works, NEW s \in Slot, NEW b \in AllBuckets
  PROVE  LET u == PutIn(w, s, b)
         IN /\ u \in Works
            /\ Changes(w, u, s, Case(w.items[s], w.wait[s], Count(s, w.toDecay), Count(s, w.toRelease),
                                     [Counts(s, w.buckets) EXCEPT ![b] = @ + 1]))
<1> DEFINE u == PutIn(w, s, b)
           list == Append(w.buckets[b], s)
           buckets == [w.buckets EXCEPT ![b] = list]
<1>0. w.buckets \in Lists /\ w.buckets[b] \in Seq(Slot) /\ w.buckets \in [AllBuckets -> Seq(Slot)]
  BY WorkIs DEF Lists
<1>1. u = WithBuckets(w, buckets)
  BY DEF PutIn, WithBuckets
<1>2. buckets \in Lists
  BY <1>0 DEF Lists
<1>3. /\ buckets[b] = list
      /\ \A c \in AllBuckets : c # b => buckets[c] = w.buckets[c]
  BY <1>0
<1>4. \A x \in Slot : Count(x, list) = Count(x, w.buckets[b]) + (IF s = x THEN 1 ELSE 0) /\ Count(x, w.buckets[b]) \in Nat
  BY <1>0, CountAppended, CountedIsThere
<1> HIDE DEF buckets, list, u
<1>5. /\ u \in Works
      /\ u.items = w.items /\ u.toDecay = w.toDecay /\ u.toRelease = w.toRelease /\ u.wait = w.wait /\ u.buckets = buckets
  BY <1>1, <1>2, WithBucketsIs
<1>6. \A x \in Slot \ {s} : Counts(x, u.buckets) = Counts(x, w.buckets)
  <2> SUFFICES ASSUME NEW x \in Slot \ {s}  PROVE Counts(x, buckets) = Counts(x, w.buckets)
    BY <1>5
  <2>1. \A c \in AllBuckets : Count(x, buckets[c]) = Count(x, w.buckets[c])
    BY <1>3, <1>4
  <2> QED BY <2>1 DEF Counts
<1>7. Changes(w, u, s, CaseOf(u, s))
  BY <1>5, <1>6, OneChanges
<1>8. Counts(s, buckets) = [Counts(s, w.buckets) EXCEPT ![b] = @ + 1]
  <2>1. \A c \in AllBuckets : Count(s, buckets[c]) = IF c = b THEN Count(s, w.buckets[c]) + 1 ELSE Count(s, w.buckets[c])
    BY <1>3, <1>4
  <2>2. Counts(s, buckets) = [c \in AllBuckets |-> IF c = b THEN Count(s, w.buckets[c]) + 1 ELSE Count(s, w.buckets[c])]
    BY <2>1 DEF Counts
  <2> QED BY <2>2 DEF Counts
<1>9. CaseOf(u, s) = Case(w.items[s], w.wait[s], Count(s, w.toDecay), Count(s, w.toRelease),
                          [Counts(s, w.buckets) EXCEPT ![b] = @ + 1])
  BY <1>5, <1>8 DEF CaseOf
<1> QED BY <1>5, <1>7, <1>9 DEF u

\* One change after another.
LEMMA ThenChanges ==
  ASSUME NEW w, NEW u, NEW x, NEW s \in Slot, NEW a, NEW b, Changes(w, u, s, a), Changes(u, x, s, b)
  PROVE  Changes(w, x, s, b) /\ CaseOf(u, s) = a
BY DEF Changes

-----------------------------------------------------------------------------
(* One turn of checkDecay's loop.                                          *)

\* A visit is one of three.
Left(w, s) == w.items[s].duration - Elapsed(w.items[s].duration)
Ends(w, s, bucket) == Left(w, s) <= 0 \/ (Left(w, s) < Round /\ NewBucket(bucket, Left(w, s)) = bucket)
GoesTo(w, s, bucket) == IF Left(w, s) < Round THEN NewBucket(bucket, Left(w, s)) ELSE bucket

\* What becomes of an entry.
LEMMA VisitIs ==
  ASSUME NEW w, NEW s, NEW bucket
  PROVE  Visit(w, s, bucket) =
           IF ~CanDecay(w.items[s]) THEN Ended(StoppedWork(w, s), s)
           ELSE IF Ends(w, s, bucket) THEN Ended(Decayed(AgedWork(w, s), s, NewSlot(w)), s)
           ELSE PutIn(AgedWork(w, s), s, GoesTo(w, s, bucket))
BY DEF Visit, StoppedWork, AgedWork, Left, Ends, GoesTo

\* An entry of an item that does not decay any more is given back.
LEMMA StopVisit ==
  ASSUME NEW w \in Works, NEW s \in Slot, NEW bucket, ~CanDecay(w.items[s])
  PROVE  LET u == Visit(w, s, bucket) IN u \in Works /\ Changes(w, u, s, StoppedCase(CaseOf(w, s)))
<1> DEFINE x == StoppedWork(w, s)
           v == Case(Stopped(w.items[s]), w.wait[s], Count(s, w.toDecay), Count(s, w.toRelease), Counts(s, w.buckets))
<1>1. x \in Works /\ Changes(w, x, s, v)
  BY StopDoes
<1>2. Visit(w, s, bucket) = Ended(x, s)
  BY VisitIs
<1>3. StoppedCase(CaseOf(w, s)) = EndedCase(v)
  BY PartsOfCase DEF StoppedCase
<1> HIDE DEF x, v
<1>4. Ended(x, s) \in Works /\ Changes(x, Ended(x, s), s, EndedCase(CaseOf(x, s)))
  BY <1>1, EndedDoes
<1>5. CaseOf(x, s) = v
  BY <1>1 DEF Changes
<1>6. Changes(w, Ended(x, s), s, EndedCase(v))
  BY <1>1, <1>4, <1>5, ThenChanges
<1> QED BY <1>2, <1>3, <1>4, <1>6

\* One that has something left is put in a bucket.
LEMMA PutVisit ==
  ASSUME NEW w \in Works, NEW s \in Slot, NEW bucket, CanDecay(w.items[s]), ~Ends(w, s, bucket),
         GoesTo(w, s, bucket) \in AllBuckets
  PROVE  LET u == Visit(w, s, bucket)
         IN u \in Works /\ Changes(w, u, s, PutCase(CaseOf(w, s), GoesTo(w, s, bucket)))
<1> DEFINE x == AgedWork(w, s)
           v == Aged(CaseOf(w, s))
           b == GoesTo(w, s, bucket)
           u == PutIn(x, s, b)
           p == Case(x.items[s], x.wait[s], Count(s, x.toDecay), Count(s, x.toRelease),
                     [Counts(s, x.buckets) EXCEPT ![b] = @ + 1])
<1>1. x \in Works /\ Changes(w, x, s, v)
  BY AgedDoes
<1>2. Visit(w, s, bucket) = u
  BY VisitIs
<1>3. u \in Works /\ Changes(x, u, s, p)
  <2> HIDE DEF x, b
  <2> QED BY <1>1, PutDoes DEF b
<1>4. CaseOf(x, s) = v
  <2> HIDE DEF x, v
  <2> QED BY <1>1 DEF Changes
<1>5. p = PutCase(CaseOf(w, s), b)
  <2>1. /\ x.items[s] = v.item /\ x.wait[s] = v.wait /\ Count(s, x.toDecay) = v.waiting
        /\ Count(s, x.toRelease) = v.freed /\ Counts(s, x.buckets) = v.in
    <3> HIDE DEF x, v
    <3> QED BY <1>4, PartsOfCase
  <2>2. p = Case(v.item, v.wait, v.waiting, v.freed, [v.in EXCEPT ![b] = @ + 1])
    BY <2>1
  <2>3. /\ v.item = Older(CaseOf(w, s).item) /\ v.wait = CaseOf(w, s).wait /\ v.waiting = CaseOf(w, s).waiting
        /\ v.freed = CaseOf(w, s).freed /\ v.in = CaseOf(w, s).in
    BY DEF Aged, Case
  <2> HIDE DEF v, p, b
  <2> QED BY <2>2, <2>3 DEF PutCase
<1> HIDE DEF x, v, u, p, b
<1>6. Changes(w, u, s, p)
  BY <1>1, <1>3, ThenChanges
<1> QED BY <1>2, <1>3, <1>5, <1>6 DEF b

\* What an item that has lived its time decays into.
LEMMA EndVisit ==
  ASSUME NEW w \in Works, NEW s \in Slot, NEW bucket, CanDecay(w.items[s]), Ends(w, s, bucket), NEW to,
         to = Type[w.items[s].kind].decayTo
  PROVE  Visit(w, s, bucket) =
           Ended(IF to = Gone THEN Dropped(AgedWork(w, s), s)
                 ELSE Listed(Transformed(AgedWork(w, s), s, to, NewSlot(w), Entries(s) > 1),
                             IF <<w.items[s].kind, to>> \in Replaces THEN NewSlot(w) ELSE s), s)
<1>1. AgedWork(w, s).items[s].kind = w.items[s].kind
  <2>1. AgedWork(w, s) \in Works /\ Changes(w, AgedWork(w, s), s, Aged(CaseOf(w, s)))
    BY AgedDoes
  <2>2. CaseOf(AgedWork(w, s), s) = Aged(CaseOf(w, s))
    BY <2>1 DEF Changes
  <2>3. AgedWork(w, s).items[s] = Older(w.items[s])
    BY <2>2, PartsOfCase DEF Aged, Case
  <2>4. w.items[s] \in ItemStates
    BY WorkIs
  <2>5. Older(w.items[s]).kind = w.items[s].kind
    BY <2>4, ItemsChange
  <2> QED BY <2>3, <2>5
<1> QED BY <1>1, VisitIs DEF Decayed

\* It is no more.
LEMMA GoneVisit ==
  ASSUME NEW w \in Works, NEW s \in Slot, NEW bucket, CanDecay(w.items[s]), Ends(w, s, bucket),
         Type[w.items[s].kind].decayTo = Gone
  PROVE  LET u == Visit(w, s, bucket)
         IN u \in Works /\ Changes(w, u, s, EndedCase(DroppedCase(Aged(CaseOf(w, s)))))
<1> DEFINE x == AgedWork(w, s)
           v == Aged(CaseOf(w, s))
           y == Dropped(x, s)
           u == Ended(y, s)
<1>1. x \in Works /\ Changes(w, x, s, v)
  BY AgedDoes
<1>2. Visit(w, s, bucket) = u
  BY EndVisit
<1> HIDE DEF x, v
<1>3. y \in Works /\ Changes(x, y, s, DroppedCase(CaseOf(x, s)))
  BY <1>1, DroppedDoes
<1> HIDE DEF y
<1>4. u \in Works /\ Changes(y, u, s, EndedCase(CaseOf(y, s)))
  BY <1>3, EndedDoes
<1> HIDE DEF u
<1>5. CaseOf(x, s) = v /\ Changes(w, y, s, DroppedCase(v))
  BY <1>1, <1>3, ThenChanges
<1>6. CaseOf(y, s) = DroppedCase(v) /\ Changes(w, u, s, EndedCase(DroppedCase(v)))
  BY <1>4, <1>5, ThenChanges
<1> QED BY <1>2, <1>4, <1>6 DEF v

\* It becomes an item of another kind.
LEMMA SetVisit ==
  ASSUME NEW w \in Works, NEW s \in Slot, NEW bucket, CanDecay(w.items[s]), Ends(w, s, bucket), NEW to \in Kinds,
         to = Type[w.items[s].kind].decayTo, to # Gone, <<w.items[s].kind, to>> \notin Replaces
  PROVE  LET u == Visit(w, s, bucket)
         IN u \in Works /\ Changes(w, u, s, EndedCase(ListedCase(SetCase(Aged(CaseOf(w, s)), to, Entries(s) > 1))))
<1> DEFINE x == AgedWork(w, s)
           v == Aged(CaseOf(w, s))
           waits == Entries(s) > 1
           y == Transformed(x, s, to, NewSlot(w), waits)
           z == Listed(y, s)
           u == Ended(z, s)
<1>1. x \in Works /\ Changes(w, x, s, v)
  BY AgedDoes
<1>2. Visit(w, s, bucket) = u
  BY EndVisit
<1>3. waits \in BOOLEAN
  OBVIOUS
<1>4. x.items[s].kind = w.items[s].kind
  <2>1. CaseOf(x, s) = v
    <3> HIDE DEF x, v
    <3> QED BY <1>1 DEF Changes
  <2>2. x.items[s] = v.item
    <3> HIDE DEF x, v
    <3> QED BY <2>1, PartsOfCase
  <2>3. v.item = Older(w.items[s])
    BY PartsOfCase DEF Aged, Case
  <2>4. w.items[s] \in ItemStates
    BY WorkIs
  <2>5. Older(w.items[s]).kind = w.items[s].kind
    BY <2>4, ItemsChange
  <2> QED BY <2>2, <2>3, <2>5
<1> HIDE DEF x, v, waits
<1>5. y \in Works /\ Changes(x, y, s, SetCase(CaseOf(x, s), to, waits))
  BY <1>1, <1>3, <1>4, SetDoes
<1> HIDE DEF y
<1>6. z \in Works /\ Changes(y, z, s, ListedCase(CaseOf(y, s)))
  BY <1>5, ListedDoes
<1> HIDE DEF z
<1>7. u \in Works /\ Changes(z, u, s, EndedCase(CaseOf(z, s)))
  BY <1>6, EndedDoes
<1> HIDE DEF u
<1>8. CaseOf(x, s) = v /\ Changes(w, y, s, SetCase(v, to, waits))
  BY <1>1, <1>5, ThenChanges
<1>9. CaseOf(y, s) = SetCase(v, to, waits) /\ Changes(w, z, s, ListedCase(SetCase(v, to, waits)))
  BY <1>6, <1>8, ThenChanges
<1>10. CaseOf(z, s) = ListedCase(SetCase(v, to, waits)) /\ Changes(w, u, s, EndedCase(ListedCase(SetCase(v, to, waits))))
  BY <1>7, <1>9, ThenChanges
<1> QED BY <1>2, <1>7, <1>10 DEF v, waits

\* It is replaced by a new item, new.
LEMMA ReplacedVisit ==
  ASSUME NEW w \in Works, NEW s \in Slot, NEW bucket, CanDecay(w.items[s]), Ends(w, s, bucket), NEW to \in Kinds,
         to = Type[w.items[s].kind].decayTo, to # Gone, <<w.items[s].kind, to>> \in Replaces,
         NEW new \in Slot \ {s}, new = NewSlot(w)
  PROVE  LET u == Visit(w, s, bucket)
         IN /\ u \in Works
            /\ \A x \in Slot :
                 CaseOf(u, x) = IF x = s THEN EndedCase(DroppedCase(Aged(CaseOf(w, s))))
                                ELSE IF x = new THEN ListedCase(NewCase(CaseOf(w, new), to, Type[to].time))
                                ELSE CaseOf(w, x)
<1> DEFINE x == AgedWork(w, s)
           v == Aged(CaseOf(w, s))
           y == Dropped(x, s)
           z == Made(y, new, to, Type[to].time)
           l == Listed(z, new)
           u == Ended(l, s)
<1>1. x \in Works /\ Changes(w, x, s, v)
  BY AgedDoes
<1>2. x.items[s].kind = w.items[s].kind
  <2>1. CaseOf(x, s) = v
    <3> HIDE DEF x, v
    <3> QED BY <1>1 DEF Changes
  <2>2. x.items[s] = v.item
    <3> HIDE DEF x, v
    <3> QED BY <2>1, PartsOfCase
  <2>3. v.item = Older(w.items[s])
    BY PartsOfCase DEF Aged, Case
  <2>4. w.items[s] \in ItemStates
    BY WorkIs
  <2>5. Older(w.items[s]).kind = w.items[s].kind
    BY <2>4, ItemsChange
  <2> QED BY <2>2, <2>3, <2>5
<1>3. Transformed(x, s, to, new, Entries(s) > 1) = z
  <2> HIDE DEF x
  <2> QED BY <1>2 DEF Transformed
<1>4. Visit(w, s, bucket) = u
  <2>1. Visit(w, s, bucket) = Ended(Listed(Transformed(x, s, to, new, Entries(s) > 1), new), s)
    BY EndVisit
  <2> HIDE DEF x, z
  <2> QED BY <1>3, <2>1
<1>5. Type[to].time \in Nat
  BY KindIs
<1> HIDE DEF x, v
<1>6. y \in Works /\ Changes(x, y, s, DroppedCase(CaseOf(x, s)))
  BY <1>1, DroppedDoes
<1> HIDE DEF y
<1>7. z \in Works /\ Changes(y, z, new, NewCase(CaseOf(y, new), to, Type[to].time))
  BY <1>5, <1>6, MadeDoes
<1> HIDE DEF z
<1>8. l \in Works /\ Changes(z, l, new, ListedCase(CaseOf(z, new)))
  BY <1>7, ListedDoes
<1> HIDE DEF l
<1>9. u \in Works /\ Changes(l, u, s, EndedCase(CaseOf(l, s)))
  BY <1>8, EndedDoes
<1> HIDE DEF u
<1>10. CaseOf(x, s) = v /\ Changes(w, y, s, DroppedCase(v))
  BY <1>1, <1>6, ThenChanges
<1>11. CaseOf(z, new) = NewCase(CaseOf(y, new), to, Type[to].time) /\ Changes(y, l, new, ListedCase(CaseOf(z, new)))
  BY <1>7, <1>8, ThenChanges
<1>12. CaseOf(y, new) = CaseOf(w, new) /\ CaseOf(y, s) = DroppedCase(v)
  BY <1>10 DEF Changes
<1>13. CaseOf(l, s) = DroppedCase(v) /\ CaseOf(l, new) = ListedCase(NewCase(CaseOf(w, new), to, Type[to].time))
  BY <1>11, <1>12 DEF Changes
<1>14. \A i \in Slot : i # s /\ i # new => CaseOf(u, i) = CaseOf(w, i)
  BY <1>9, <1>10, <1>11 DEF Changes
<1>15. CaseOf(u, s) = EndedCase(DroppedCase(v)) /\ CaseOf(u, new) = ListedCase(NewCase(CaseOf(w, new), to, Type[to].time))
  BY <1>9, <1>13 DEF Changes
<1> QED BY <1>4, <1>9, <1>14, <1>15 DEF v

-----------------------------------------------------------------------------
(* A whole walk through a bucket.                                          *)

\* The checks until each bucket is looked at, and those left after the walk that is under way.
AheadOf(last) == [b \in AllBuckets |-> ((b - last - 1) % Buckets) + 1]
WalkAhead(bucket) == [b \in AllBuckets |-> AheadOf(bucket)[b] + 1]
Frees(w) == {x \in Slot : w.items[x].kind = NoKind}

\* How far the buckets are.
LEMMA AheadIs ==
  ASSUME NEW last \in AllBuckets
  PROVE  /\ AheadOf(last) \in [AllBuckets -> Nat] /\ WalkAhead(last) \in [AllBuckets -> Nat]
         /\ AheadOf(last)[last] = Buckets /\ (last + 1) % Buckets \in AllBuckets
         /\ AheadOf(last)[(last + 1) % Buckets] = 1
         /\ \A b \in AllBuckets : b # (last + 1) % Buckets => AheadOf(last)[b] = WalkAhead((last + 1) % Buckets)[b]
<1> DEFINE next == (last + 1) % 4
<1>1. \A b, l \in {0, 1, 2, 3} : ((b - l - 1) % 4) + 1 =
        IF b = 0 THEN (IF l = 0 THEN 4 ELSE IF l = 1 THEN 3 ELSE IF l = 2 THEN 2 ELSE 1)
        ELSE IF b = 1 THEN (IF l = 0 THEN 1 ELSE IF l = 1 THEN 4 ELSE IF l = 2 THEN 3 ELSE 2)
        ELSE IF b = 2 THEN (IF l = 0 THEN 2 ELSE IF l = 1 THEN 1 ELSE IF l = 2 THEN 4 ELSE 3)
        ELSE (IF l = 0 THEN 3 ELSE IF l = 1 THEN 2 ELSE IF l = 2 THEN 1 ELSE 4)
  BY SMT
<1>2. AllBuckets = {0, 1, 2, 3}
  BY FourBuckets
<1>3. next = IF last = 0 THEN 1 ELSE IF last = 1 THEN 2 ELSE IF last = 2 THEN 3 ELSE 0
  BY <1>2
<1>4. next \in AllBuckets /\ next = (last + 1) % Buckets
  BY <1>2, <1>3 DEF Buckets
<1> HIDE DEF next
<1>5. \A l, b \in AllBuckets : AheadOf(l)[b] = ((b - l - 1) % 4) + 1 /\ WalkAhead(l)[b] = AheadOf(l)[b] + 1
  BY DEF AheadOf, WalkAhead, Buckets
<1>6. \A l, b \in AllBuckets : AheadOf(l)[b] \in Nat /\ WalkAhead(l)[b] \in Nat
  BY <1>1, <1>2, <1>5
<1>7. AheadOf(last) \in [AllBuckets -> Nat] /\ WalkAhead(last) \in [AllBuckets -> Nat]
  <2>1. AheadOf(last) = [b \in AllBuckets |-> AheadOf(last)[b]] /\ WalkAhead(last) = [b \in AllBuckets |-> WalkAhead(last)[b]]
    BY DEF AheadOf, WalkAhead
  <2> QED BY <1>6, <2>1
<1>8. AheadOf(last)[last] = 4 /\ AheadOf(last)[next] = 1
  BY <1>1, <1>2, <1>3, <1>4, <1>5
<1>9. ASSUME NEW b \in AllBuckets, b # next  PROVE AheadOf(last)[b] = WalkAhead(next)[b]
  <2>1. WalkAhead(next)[b] = (((b - next - 1) % 4) + 1) + 1 /\ AheadOf(last)[b] = ((b - last - 1) % 4) + 1
    BY <1>4, <1>5
  <2>2. b \in {0, 1, 2, 3} /\ last \in {0, 1, 2, 3} /\ next \in {0, 1, 2, 3}
    BY <1>2, <1>4
  <2> QED BY <1>1, <1>3, <1>9, <2>1, <2>2
<1> QED BY <1>4, <1>7, <1>8, <1>9 DEF Buckets

\* Where an item with something left goes is as far as its time is long.
LEMMA GoesFar ==
  ASSUME NEW w \in Works, NEW s \in Slot, NEW bucket \in AllBuckets, ~Ends(w, s, bucket)
  PROVE  LET b == GoesTo(w, s, bucket)
         IN /\ b \in AllBuckets
            /\ WalkAhead(bucket)[b] = IF Older(w.items[s]).duration >= Round THEN Buckets + 1 ELSE 2
            /\ Older(w.items[s]).duration > 0 /\ Older(w.items[s]).duration = Left(w, s)
<1> DEFINE b == GoesTo(w, s, bucket)
           left == Left(w, s)
<1>1. w.items[s] \in ItemStates
  BY WorkIs
<1>2. Older(w.items[s]).duration = left /\ Older(w.items[s]) \in ItemStates
  BY <1>1, ItemsChange DEF Left
<1>3. left \in Nat
  BY <1>2 DEF ItemStates
<1> HIDE DEF left
<1>4. left > 0 /\ (left < Round => NewBucket(bucket, left) # bucket)
  BY <1>3 DEF Ends, left
<1>5. b = IF left < Round THEN NewBucket(bucket, left) ELSE bucket
  BY DEF GoesTo, left
<1> HIDE DEF b
<1>6. /\ AheadOf(bucket)[bucket] = Buckets /\ (bucket + 1) % Buckets \in AllBuckets
      /\ AheadOf(bucket)[(bucket + 1) % Buckets] = 1
      /\ \A c \in AllBuckets : WalkAhead(bucket)[c] = AheadOf(bucket)[c] + 1
  BY AheadIs DEF WalkAhead
<1>7. CASE left < Round
  <2>1. left \in 1..999
    BY <1>3, <1>4, <1>7 DEF Round, Interval, Buckets
  <2>2. NewBucket(bucket, left) = (bucket + (left + 125) \div 1000) % 4
    BY DEF NewBucket, Interval, Buckets
  <2>3. (left + 125) \div 1000 = 0 \/ (left + 125) \div 1000 = 1
    BY <2>1
  <2>4. bucket % 4 = bucket /\ bucket + 0 = bucket
    <3>1. bucket \in {0, 1, 2, 3}
      BY FourBuckets
    <3> QED BY <3>1
  <2>5. (left + 125) \div 1000 = 1
    BY <1>4, <1>7, <2>2, <2>3, <2>4
  <2>6. b = (bucket + 1) % Buckets
    BY <1>5, <1>7, <2>2, <2>5 DEF Buckets
  <2>7. ~(left >= Round)
    BY <1>3, <1>7 DEF Round, Interval, Buckets
  <2>8. WalkAhead(bucket)[b] = 2
    BY <1>6, <2>6
  <2> QED BY <1>2, <1>4, <1>6, <2>6, <2>7, <2>8 DEF b, left
<1>8. CASE ~(left < Round)
  <2>1. b = bucket /\ left >= Round
    BY <1>3, <1>5, <1>8 DEF Round, Interval, Buckets
  <2>2. WalkAhead(bucket)[b] = Buckets + 1
    BY <1>6, <2>1
  <2> QED BY <1>2, <1>4, <2>1, <2>2 DEF b, left
<1> QED BY <1>7, <1>8

\* What a visit of s leaves: sound cases, the other items as they were, and a free slot for
\* each item in the world that is still to be visited.
Goes(w, u, s, ahead, later) ==
  /\ u \in Works
  /\ \A x \in Slot : Kept(CaseOf(u, x), ahead, later[x])
  /\ \A x \in Slot \ {s} : w.items[x].kind # NoKind => u.items[x] = w.items[x]
  /\ \/ Frees(u) = Frees(w) /\ \A x \in Slot : u.items[x].here => w.items[x].here
     \/ /\ w.items[s].here /\ ~u.items[s].here
        /\ \E new \in Frees(w) : /\ Frees(u) = Frees(w) \ {new} /\ later[new] = 0
                                 /\ \A x \in Slot \ {new} : u.items[x].here => w.items[x].here

\* A change of s alone leaves it.
LEMMA OneGoes ==
  ASSUME NEW w \in Works, NEW u \in Works, NEW s \in Slot, NEW c \in Cases, Changes(w, u, s, c),
         NEW ahead, NEW rest, NEW later, \A x \in Slot \ {s} : rest[x] = later[x],
         \A x \in Slot : Kept(CaseOf(w, x), ahead, rest[x]), Kept(c, ahead, later[s]),
         w.items[s].kind # NoKind, c.item.kind # NoKind, c.item.here => w.items[s].here
  PROVE  Goes(w, u, s, ahead, later)
<1>1. \A x \in Slot : CaseOf(u, x) = IF x = s THEN c ELSE CaseOf(w, x)
  BY DEF Changes
<1>2. \A x \in Slot : u.items[x] = IF x = s THEN c.item ELSE w.items[x]
  <2> SUFFICES ASSUME NEW x \in Slot  PROVE u.items[x] = IF x = s THEN c.item ELSE w.items[x]
    OBVIOUS
  <2>1. u.items[x] = CaseOf(u, x).item /\ w.items[x] = CaseOf(w, x).item
    BY PartsOfCase
  <2> QED BY <1>1, <2>1
<1>3. \A x \in Slot : Kept(CaseOf(u, x), ahead, later[x])
  BY <1>1
<1>4. Frees(u) = Frees(w)
  BY <1>2 DEF Frees
<1> QED BY <1>2, <1>3, <1>4 DEF Goes

\* Game::startDecay leaves the kind and the place of an item alone.
LEMMA ListedStays ==
  ASSUME NEW v \in Cases
  PROVE  ListedCase(v).item.kind = v.item.kind /\ ListedCase(v).item.here = v.item.here
<1>1. v.item \in ItemStates
  BY CaseIs
<1>2. TakenUp(v.item).kind = v.item.kind /\ TakenUp(v.item).here = v.item.here
  BY <1>1, ItemsChange
<1> QED BY <1>2 DEF ListedCase, Case

\* One turn of the loop.
LEMMA VisitKept ==
  ASSUME NEW w \in Works, NEW s \in Slot, NEW bucket \in AllBuckets, NEW rest, NEW later \in [Slot -> Nat],
         \A x \in Slot : rest[x] = later[x] + (IF x = s THEN 1 ELSE 0),
         \A x \in Slot : Kept(CaseOf(w, x), WalkAhead(bucket), rest[x]),
         w.items[s].here => Frees(w) # {}
  PROVE  Goes(w, Visit(w, s, bucket), s, WalkAhead(bucket), later)
<1> DEFINE ahead == WalkAhead(bucket)
           v == CaseOf(w, s)
           u == Visit(w, s, bucket)
           item == w.items[s]
<1>a. ahead \in [AllBuckets -> Nat]
  BY AheadIs
<1>b. v \in Cases /\ v.item = item /\ item \in ItemStates /\ item.kind \in Kinds
  <2>1. v \in Cases /\ v.item = item
    BY CasesAre, PartsOfCase
  <2> QED BY <2>1, CaseIs
<1>c. later[s] \in Nat /\ rest[s] = later[s] + 1 /\ \A x \in Slot \ {s} : rest[x] = later[x]
  <2>1. \A x \in Slot : later[x] \in Nat
    OBVIOUS
  <2> QED BY <2>1
<1>d. Kept(v, ahead, later[s] + 1)
  BY <1>c
<1>e. \A x \in Slot : Kept(CaseOf(w, x), ahead, rest[x])
  OBVIOUS
<1> HIDE DEF ahead
<1>k. item.kind # NoKind
  <2>1. Listings(v, later[s] + 1) = Listings(v, later[s]) + 1 /\ Listings(v, later[s]) \in Nat
    BY <1>b, <1>c, OneFewer
  <2>2. v.freed \in Nat /\ v.item.refs \in Nat
    BY <1>b, CaseIs
  <2>3. v.item.refs = Listings(v, later[s] + 1) + v.freed + (IF v.item.here THEN 1 ELSE 0)
    BY <1>d DEF Kept
  <2>4. v.item.refs # 0
    <3> HIDE DEF v, item
    <3> QED BY <2>1, <2>2, <2>3
  <2>5. v.item.kind = NoKind => v.item = Free
    BY <1>d DEF Kept
  <2> HIDE DEF v, item
  <2> QED BY <1>b, <2>4, <2>5 DEF Free
<1>1. CASE ~CanDecay(item)
  <2>1. u \in Works /\ Changes(w, u, s, StoppedCase(v))
    BY <1>1, StopVisit
  <2>2. StoppedCase(v) \in Cases /\ Kept(StoppedCase(v), ahead, later[s])
    <3> HIDE DEF v, u
    <3> QED BY <1>b, <1>c, <1>d, StoppedKept
  <2>3. StoppedCase(v).item.kind = item.kind /\ StoppedCase(v).item.here = item.here
    <3>1. StoppedCase(v).item = Stopped(item)
      BY <1>b DEF StoppedCase, EndedCase, Case
    <3>2. Stopped(item).kind = item.kind /\ Stopped(item).here = item.here
      BY <1>b, ItemsChange
    <3> QED BY <3>1, <3>2
  <2> HIDE DEF v, u
  <2> QED BY <1>c, <1>e, <1>k, <2>1, <2>2, <2>3, OneGoes DEF u, ahead, item
<1>2. CASE CanDecay(item) /\ ~Ends(w, s, bucket)
  <2> DEFINE b == GoesTo(w, s, bucket)
             c == PutCase(v, b)
  <2>1. b \in AllBuckets /\ ahead[b] = (IF Older(item).duration >= Round THEN Buckets + 1 ELSE 2) /\ Older(item).duration > 0
    BY <1>2, GoesFar DEF ahead
  <2>2. u \in Works /\ Changes(w, u, s, c)
    BY <1>2, <2>1, PutVisit
  <2>3. c.item.kind = item.kind /\ c.item.here = item.here
    <3>1. c.item = Older(item)
      BY <1>b DEF PutCase, Case
    <3>2. Older(item).kind = item.kind /\ Older(item).here = item.here
      BY <1>b, ItemsChange
    <3> QED BY <3>1, <3>2
  <2>4. c \in Cases /\ Kept(c, ahead, later[s])
    <3>1. CanDecay(v.item) /\ Older(v.item).duration > 0 /\ ahead[b] = IF Older(v.item).duration >= Round THEN Buckets + 1 ELSE 2
      BY <1>b, <1>2, <2>1
    <3> HIDE DEF v, u, b
    <3> QED BY <1>a, <1>b, <1>c, <1>d, <2>1, <3>1, PutKept
  <2> HIDE DEF v, u, b, c
  <2> QED BY <1>c, <1>e, <1>k, <2>2, <2>3, <2>4, OneGoes DEF u, ahead, item
<1>3. CASE CanDecay(item) /\ Ends(w, s, bucket)
  <2> DEFINE to == Type[item.kind].decayTo
             gone == EndedCase(DroppedCase(Aged(v)))
  <2>1. item.here /\ Decays(item.kind)
    BY <1>3 DEF CanDecay
  <2>2. to \in Kinds \cup {Gone} /\ to # NoKind
    BY <1>b, <2>1, KindIs DEF Decays
  <2>3. gone \in Cases /\ Kept(gone, ahead, later[s])
    <3>1. v.item.here
      BY <1>b, <2>1
    <3> HIDE DEF v, u
    <3> QED BY <1>b, <1>c, <1>d, <3>1, GoneKept
  <2>4. gone.item.kind = item.kind /\ gone.item.here = FALSE
    <3>1. gone.item = Outside(Older(item))
      BY <1>b DEF EndedCase, DroppedCase, Aged, Case
    <3>2. Older(item) \in ItemStates /\ Older(item).kind = item.kind
      BY <1>b, ItemsChange
    <3>3. Outside(Older(item)).kind = Older(item).kind /\ Outside(Older(item)).here = FALSE
      BY <3>2, ItemsChange
    <3> QED BY <3>1, <3>2, <3>3
  <2>5. CASE to = Gone
    <3>1. u \in Works /\ Changes(w, u, s, gone)
      BY <1>3, <2>5, GoneVisit
    <3> HIDE DEF v, u, gone
    <3> QED BY <1>c, <1>e, <1>k, <2>1, <2>3, <2>4, <3>1, OneGoes DEF u, ahead, item
  <2>6. CASE to # Gone /\ <<item.kind, to>> \notin Replaces
    <3> DEFINE waits == Entries(s) > 1
               c == EndedCase(ListedCase(SetCase(Aged(v), to, waits)))
    <3>0. to \in Kinds \ {NoKind} /\ waits \in BOOLEAN
      BY <2>2, <2>6
    <3>1. u \in Works /\ Changes(w, u, s, c)
      <4>1. to \in Kinds /\ to = Type[w.items[s].kind].decayTo /\ to # Gone /\ <<w.items[s].kind, to>> \notin Replaces
        BY <2>2, <2>6
      <4> HIDE DEF to
      <4> QED BY <1>3, <4>1, SetVisit
    <3>2. CanDecay(v.item) /\ to = Type[v.item.kind].decayTo /\ <<v.item.kind, to>> \notin Replaces
      BY <1>b, <1>3, <2>6
    <3>3. c \in Cases /\ Kept(c, ahead, later[s])
      <4> HIDE DEF v, u, to, waits
      <4> QED BY <1>b, <1>c, <1>d, <3>0, <3>2, AnewKept
    <3>4. c.item.kind = to
      <4> DEFINE a == SetCase(Aged(v), to, waits)
                 i == SetId(Aged(v).item, to)
      <4>1. c.item = ListedCase(a).item
        BY DEF EndedCase, Case
      <4>2. a.item = i
        BY DEF SetCase, Case
      <4>3. Aged(v).item = Older(item) /\ Aged(v).wait = v.wait /\ Aged(v).waiting = v.waiting /\ Aged(v).freed = v.freed /\ Aged(v).in = v.in
        BY <1>b DEF Aged, Case
      <4>4. Older(item) \in ItemStates /\ Older(item).kind = item.kind
        BY <1>b, ItemsChange
      <4>5. IsSetTo(i, Older(item), to)
        BY <1>b, <3>0, <4>3, <4>4, SetIdIs
      <4>6. i \in ItemStates /\ i.kind = to
        BY <4>5 DEF IsSetTo
      <4>7. (waits /\ Aged(v).item.decaying /\ ~SetId(Aged(v).item, to).decaying) \in BOOLEAN
        OBVIOUS
      <4>8. Twice(Aged(v).wait, waits /\ Aged(v).item.decaying /\ ~SetId(Aged(v).item, to).decaying) \in Waits
        <5>1. v.wait \in Waits
          BY <1>b, CaseIs
        <5> DEFINE again == waits /\ Aged(v).item.decaying /\ ~SetId(Aged(v).item, to).decaying
        <5>2. again \in BOOLEAN
          BY <4>7
        <5>3. Twice(v.wait, again) \in Waits
          <6> HIDE DEF again
          <6> QED BY <5>1, <5>2, TwiceIs
        <5> QED BY <4>3, <5>3
      <4>9. a \in Cases
        <5>1. v.waiting \in Nat /\ v.freed \in Nat /\ v.in \in [AllBuckets -> Nat]
          BY <1>b, CaseIs
        <5> QED BY <4>3, <4>6, <4>8, <5>1 DEF SetCase, Case, Cases
      <4> HIDE DEF a, i, c
      <4>10. ListedCase(a).item.kind = a.item.kind
        BY <4>9, ListedStays
      <4> QED BY <4>1, <4>2, <4>6, <4>10
    <3> HIDE DEF v, u, c
    <3>5. c.item.kind # NoKind
      BY <3>0, <3>4
    <3> QED BY <1>c, <1>e, <1>k, <2>1, <3>1, <3>3, <3>5, OneGoes DEF u, ahead, item
  <2>7. CASE to # Gone /\ <<item.kind, to>> \in Replaces
    <3> DEFINE new == NewSlot(w)
               c == ListedCase(NewCase(CaseOf(w, new), to, Type[to].time))
    <3>0. to \in Kinds \ {NoKind} /\ Type[to].time \in Nat
      BY <2>2, <2>7, KindIs
    <3>1. new \in Slot /\ w.items[new].kind = NoKind /\ new # s
      <4>1. \E x \in Slot : w.items[x].kind = NoKind
        BY <2>1 DEF Frees
      <4>2. new \in Slot /\ w.items[new].kind = NoKind
        BY <4>1 DEF NewSlot
      <4> HIDE DEF new
      <4> QED BY <1>k, <4>2
    <3>2. /\ u \in Works
          /\ \A x \in Slot : CaseOf(u, x) = IF x = s THEN gone ELSE IF x = new THEN c ELSE CaseOf(w, x)
      <4>1. /\ to \in Kinds /\ to = Type[w.items[s].kind].decayTo /\ to # Gone /\ <<w.items[s].kind, to>> \in Replaces
            /\ new \in Slot \ {s} /\ new = NewSlot(w)
        BY <2>2, <2>7, <3>1
      <4> HIDE DEF to, new
      <4> QED BY <1>3, <4>1, ReplacedVisit
    <3>3. CaseOf(w, new) \in Cases /\ CaseOf(w, new).item.kind = NoKind
      <4> HIDE DEF new
      <4> QED BY <3>1, CasesAre, PartsOfCase
    <3>4. Kept(CaseOf(w, new), ahead, later[new]) /\ later[new] \in Nat
      <4> HIDE DEF new
      <4> QED BY <1>c, <1>e, <3>1
    <3> DEFINE n == NewCase(CaseOf(w, new), to, Type[to].time)
    <3>5. n \in Cases /\ Kept(n, ahead, later[new]) /\ later[new] = 0
      <4>1. Type[to].time > 0 => Type[to].time > 0
        OBVIOUS
      <4> HIDE DEF new, to
      <4> QED BY <3>0, <3>3, <3>4, <4>1, NewKept
    <3>6. c \in Cases /\ Kept(c, ahead, later[new]) /\ c.item.kind = to
      <4>1. n.item.kind = to
        BY DEF NewCase, Case, Created
      <4> HIDE DEF n, new, to
      <4>2. ListedCase(n) \in Cases /\ Kept(ListedCase(n), ahead, later[new])
        BY <3>4, <3>5, ListedKept
      <4>3. ListedCase(n).item.kind = n.item.kind
        BY <3>5, ListedStays
      <4> QED BY <4>1, <4>2, <4>3 DEF n
    <3> HIDE DEF v, u, c, gone, new, to, n, item
    <3>7. \A x \in Slot : u.items[x] = IF x = s THEN gone.item ELSE IF x = new THEN c.item ELSE w.items[x]
      <4> SUFFICES ASSUME NEW x \in Slot
                   PROVE  u.items[x] = IF x = s THEN gone.item ELSE IF x = new THEN c.item ELSE w.items[x]
        OBVIOUS
      <4>1. u.items[x] = CaseOf(u, x).item /\ w.items[x] = CaseOf(w, x).item
        BY PartsOfCase
      <4> QED BY <3>2, <4>1
    <3>8. \A x \in Slot : Kept(CaseOf(u, x), ahead, later[x])
      BY <1>c, <1>e, <2>3, <3>2, <3>6
    <3>9. \A x \in Slot \ {s} : w.items[x].kind # NoKind => u.items[x] = w.items[x]
      BY <3>1, <3>7
    <3>10. Frees(u) = Frees(w) \ {new} /\ new \in Frees(w)
      BY <1>k, <2>4, <3>0, <3>1, <3>6, <3>7 DEF Frees, item
    <3>11. \A x \in Slot \ {new} : u.items[x].here => w.items[x].here
      BY <2>4, <3>7
    <3>12. w.items[s].here /\ ~u.items[s].here
      BY <2>1, <2>4, <3>7 DEF item
    <3> QED BY <3>2, <3>5, <3>8, <3>9, <3>10, <3>11, <3>12 DEF Goes, u, ahead
  <2> QED BY <2>5, <2>6, <2>7
<1> QED BY <1>1, <1>2, <1>3

-----------------------------------------------------------------------------
(* A check of one bucket.                                                  *)

\* The bucket that is walked is emptied, and its entries are still to come.
OpenedCase(v, b) == Case(v.item, v.wait, v.waiting, v.freed, [v.in EXCEPT ![b] = 0])

\* The case stays sound.
LEMMA OpenedKept ==
  ASSUME NEW v \in Cases, NEW b \in AllBuckets, NEW ahead, NEW later, Kept(v, ahead, 0),
         ahead[b] = 1, \A c \in AllBuckets \ {b} : ahead[c] = later[c]
  PROVE  Kept(OpenedCase(v, b), later, v.in[b])
<1> DEFINE u == OpenedCase(v, b)
           rest == v.in[b]
<1>1. /\ u.item = v.item /\ u.wait = v.wait /\ u.waiting = v.waiting /\ u.freed = v.freed
      /\ u.in = [v.in EXCEPT ![b] = 0]
  BY DEF OpenedCase, Case
<1>2. v.in \in [AllBuckets -> Nat] /\ v.waiting \in Nat /\ rest \in Nat
  BY CaseIs
<1>3. u.in[b] = 0 /\ \A c \in AllBuckets \ {b} : u.in[c] = v.in[c]
  BY <1>1, <1>2
<1>4. Listings(u, rest) = Listings(v, 0)
  <2>1. v.in[0] \in Nat /\ v.in[1] \in Nat /\ v.in[2] \in Nat /\ v.in[3] \in Nat
    BY CaseIs
  <2>2. 0 \in AllBuckets /\ 1 \in AllBuckets /\ 2 \in AllBuckets /\ 3 \in AllBuckets
    BY FourBuckets
  <2>3. Listings(u, rest) = v.waiting + u.in[0] + u.in[1] + u.in[2] + u.in[3] + rest
    BY <1>1 DEF Listings
  <2>4. Listings(v, 0) = v.waiting + v.in[0] + v.in[1] + v.in[2] + v.in[3] + 0
    BY DEF Listings
  <2> HIDE DEF u
  <2>5. CASE b = 0
    BY <1>2, <1>3, <2>1, <2>2, <2>3, <2>4, <2>5
  <2>6. CASE b = 1
    BY <1>2, <1>3, <2>1, <2>2, <2>3, <2>4, <2>6
  <2>7. CASE b = 2
    BY <1>2, <1>3, <2>1, <2>2, <2>3, <2>4, <2>7
  <2>8. CASE b = 3
    BY <1>2, <1>3, <2>1, <2>2, <2>3, <2>4, <2>8
  <2> QED BY <2>5, <2>6, <2>7, <2>8, FourBuckets
<1>5. \A n : InTime(u, n) = InTime(v, n) /\ NotEarly(u, n) = NotEarly(v, n)
  BY <1>1 DEF InTime, NotEarly
<1>6. Soon(v, ahead, 0) => Soon(u, later, rest)
  <2> SUFFICES ASSUME Soon(v, ahead, 0)  PROVE Soon(u, later, rest)
    OBVIOUS
  <2>1. CASE v.waiting > 0 /\ v.wait.since = 0 /\ v.item.duration <= v.wait.left
    BY <1>1, <2>1 DEF Soon
  <2>2. CASE \E c \in AllBuckets : v.in[c] > 0 /\ InTime(v, ahead[c])
    <3>1. PICK c \in AllBuckets : v.in[c] > 0 /\ InTime(v, ahead[c])
      BY <2>2
    <3>2. CASE c = b
      <4>1. rest > 0 /\ InTime(v, 1)
        BY <3>1, <3>2
      <4> HIDE DEF u, rest
      <4> QED BY <1>5, <4>1 DEF Soon
    <3>3. CASE c # b
      <4>1. u.in[c] > 0 /\ InTime(v, later[c])
        BY <1>3, <3>1, <3>3
      <4> HIDE DEF u, rest
      <4> QED BY <1>5, <4>1 DEF Soon
    <3> QED BY <3>2, <3>3
  <2>3. ~(0 > 0)
    OBVIOUS
  <2> QED BY <2>1, <2>2, <2>3 DEF Soon
<1>7. Late(v, ahead, 0) => Late(u, later, rest)
  <2> SUFFICES ASSUME Late(v, ahead, 0)  PROVE Late(u, later, rest)
    OBVIOUS
  <2>1. v.waiting > 0 => v.wait.since = 0 /\ v.item.duration = v.wait.left
    BY DEF Late
  <2>2. \A c \in AllBuckets : v.in[c] > 0 => NotEarly(v, ahead[c])
    BY DEF Late
  <2>3. rest > 0 => NotEarly(v, 1)
    BY <2>2
  <2>4. \A c \in AllBuckets : u.in[c] > 0 => NotEarly(v, later[c])
    <3> SUFFICES ASSUME NEW c \in AllBuckets, u.in[c] > 0  PROVE NotEarly(v, later[c])
      OBVIOUS
    <3>1. c # b
      BY <1>3
    <3>2. u.in[c] = v.in[c] /\ ahead[c] = later[c]
      BY <1>3, <3>1
    <3> QED BY <2>2, <3>2
  <2> HIDE DEF u, rest
  <2> QED BY <1>1, <1>5, <2>1, <2>3, <2>4 DEF Late
<1> HIDE DEF u
<1> QED BY <1>1, <1>4, <1>6, <1>7 DEF Kept, u

\* The case of an item when its bucket is opened.
LEMMA OpenedIs ==
  ASSUME NEW w \in Works, NEW bucket \in AllBuckets, NEW u, u = [w EXCEPT !.buckets[bucket] = <<>>]
  PROVE  /\ u \in Works /\ u.items = w.items
         /\ \A s \in Slot : CaseOf(u, s) = OpenedCase(CaseOf(w, s), bucket)
<1> DEFINE buckets == [w.buckets EXCEPT ![bucket] = <<>>]
<1>1. w.buckets \in Lists /\ <<>> \in Seq(Slot)
  BY WorkIs
<1>2. buckets \in Lists
  BY <1>1 DEF Lists
<1>3. u = WithBuckets(w, buckets)
  BY DEF WithBuckets
<1>4. /\ u \in Works /\ u.items = w.items /\ u.toDecay = w.toDecay /\ u.toRelease = w.toRelease /\ u.wait = w.wait
      /\ u.buckets = buckets
  <2> DEFINE x == WithBuckets(w, buckets)
  <2> HIDE DEF buckets
  <2>1. /\ x \in Works /\ x.items = w.items /\ x.toDecay = w.toDecay /\ x.toRelease = w.toRelease /\ x.wait = w.wait
        /\ x.buckets = buckets
    BY <1>2, WithBucketsIs
  <2> HIDE DEF x
  <2>2. u = x
    BY <1>3 DEF x
  <2> QED BY <2>1, <2>2
<1>5. ASSUME NEW s \in Slot  PROVE Counts(s, buckets) = [Counts(s, w.buckets) EXCEPT ![bucket] = 0]
  <2>1. \A b \in AllBuckets : buckets[b] = IF b = bucket THEN <<>> ELSE w.buckets[b]
    BY <1>1 DEF Lists
  <2>2. Count(s, <<>>) = 0
    BY CountNone
  <2> HIDE DEF buckets
  <2> QED BY <2>1, <2>2 DEF Counts
<1>6. ASSUME NEW s \in Slot  PROVE CaseOf(u, s) = OpenedCase(CaseOf(w, s), bucket)
  <2> HIDE DEF buckets
  <2>1. CaseOf(u, s) = Case(w.items[s], w.wait[s], Count(s, w.toDecay), Count(s, w.toRelease), Counts(s, buckets))
    BY <1>4 DEF CaseOf
  <2> QED BY <1>5, <2>1, PartsOfCase DEF OpenedCase
<1> QED BY <1>4, <1>6

\* The items in the world that are still to be visited, and those no visit can end; its: the
\* items when the walk began.
ToVisit(w, list, n) == {x \in Slot : w.items[x].here /\ Rest(x, list, n) > 0}
Steady(its, list, x) ==
  /\ its[x].kind # NoKind /\ Count(x, list) <= 1
  /\ Count(x, list) > 0 => CanDecay(its[x]) /\ its[x].duration >= 2 * Round
Unmoved(w, its, list, x, n) ==
  /\ Rest(x, list, n) <= Count(x, list)
  /\ w.items[x].kind = its[x].kind /\ w.items[x].here = its[x].here
  /\ Rest(x, list, n) > 0 => w.items[x] = its[x]

\* What holds after n entries of a walk.
Fits(w, its, list, bucket, n) ==
  /\ w \in Works
  /\ \A x \in Slot : Kept(CaseOf(w, x), WalkAhead(bucket), Rest(x, list, n))
  /\ Cardinality(ToVisit(w, list, n)) <= Cardinality(Frees(w))
  /\ \A x \in Slot : Steady(its, list, x) => Unmoved(w, its, list, x, n)

\* Sets of slots are finite.
LEMMA SlotsAreFinite ==
  ASSUME NEW S \in SUBSET Slot
  PROVE  IsFiniteSet(S) /\ Cardinality(S) \in Nat
<1>1. IsFiniteSet(S)
  BY DecayAssumption, FS_Subset
<1> QED BY <1>1, FS_CardinalityType

\* The free slots go on to be enough.
LEMMA SpareStep ==
  ASSUME NEW before \in SUBSET Slot, NEW after \in SUBSET Slot, NEW free \in SUBSET Slot, NEW left \in SUBSET Slot,
         Cardinality(before) <= Cardinality(free),
         \/ after \subseteq before /\ left = free
         \/ \E s \in before, new \in free : after \subseteq before \ {s} /\ left = free \ {new}
  PROVE  Cardinality(after) <= Cardinality(left)
<1>1. /\ IsFiniteSet(before) /\ Cardinality(before) \in Nat /\ IsFiniteSet(free) /\ Cardinality(free) \in Nat
      /\ Cardinality(after) \in Nat /\ Cardinality(left) \in Nat
  BY SlotsAreFinite
<1>2. CASE after \subseteq before /\ left = free
  <2>1. Cardinality(after) <= Cardinality(before)
    BY <1>1, <1>2, FS_Subset
  <2> QED BY <1>1, <1>2, <2>1
<1>3. CASE \E s \in before, new \in free : after \subseteq before \ {s} /\ left = free \ {new}
  <2>1. PICK s \in before, new \in free : after \subseteq before \ {s} /\ left = free \ {new}
    BY <1>3
  <2>2. IsFiniteSet(before \ {s}) /\ Cardinality(before \ {s}) = Cardinality(before) - 1
    BY <1>1, FS_RemoveElement
  <2>3. Cardinality(free \ {new}) = Cardinality(free) - 1
    BY <1>1, FS_RemoveElement
  <2>4. Cardinality(after) <= Cardinality(before \ {s})
    BY <2>1, <2>2, FS_Subset
  <2> QED BY <1>1, <2>1, <2>2, <2>3, <2>4
<1> QED BY <1>2, <1>3

\* A visit leaves the kind and the place of an item with two rounds left.
LEMMA VisitSteady ==
  ASSUME NEW w \in Works, NEW s \in Slot, NEW bucket \in AllBuckets, CanDecay(w.items[s]),
         w.items[s].duration >= 2 * Round
  PROVE  /\ Visit(w, s, bucket).items[s].kind = w.items[s].kind
         /\ Visit(w, s, bucket).items[s].here = w.items[s].here
<1> DEFINE item == w.items[s]
           u == Visit(w, s, bucket)
<1>1. item \in ItemStates /\ item.duration \in Nat
  BY WorkIs DEF ItemStates
<1>2. item.duration >= 2000
  BY DEF Round, Interval, Buckets
<1>3. Left(w, s) = item.duration - 1000
  <2>1. ~(item.duration < 1000)
    BY <1>1, <1>2
  <2> QED BY <2>1 DEF Left, Elapsed, Round, Interval, Buckets
<1>4. ~Ends(w, s, bucket)
  <2>1. ~(Left(w, s) <= 0) /\ ~(Left(w, s) < 1000)
    BY <1>1, <1>2, <1>3
  <2> QED BY <2>1 DEF Ends, Round, Interval, Buckets
<1>5. GoesTo(w, s, bucket) \in AllBuckets
  BY <1>4, GoesFar
<1>6. u \in Works /\ Changes(w, u, s, PutCase(CaseOf(w, s), GoesTo(w, s, bucket)))
  BY <1>4, <1>5, PutVisit
<1>7. CaseOf(u, s) = PutCase(CaseOf(w, s), GoesTo(w, s, bucket))
  BY <1>6 DEF Changes
<1>8. PutCase(CaseOf(w, s), GoesTo(w, s, bucket)).item = Older(CaseOf(w, s).item)
  BY DEF PutCase, Case
<1>9. CaseOf(u, s).item = u.items[s] /\ CaseOf(w, s).item = item
  BY PartsOfCase
<1>10. Older(item).kind = item.kind /\ Older(item).here = item.here
  BY <1>1, ItemsChange
<1> QED BY <1>7, <1>8, <1>9, <1>10

\* One entry further.
LEMMA FitsStep ==
  ASSUME NEW list \in Seq(Slot), NEW n \in 0..(Len(list) - 1), NEW its, NEW bucket \in AllBuckets,
         NEW w, Fits(w, its, list, bucket, n)
  PROVE  Fits(Visit(w, list[n + 1], bucket), its, list, bucket, n + 1)
<1> DEFINE s == list[n + 1]
           u == Visit(w, s, bucket)
           rest == [x \in Slot |-> Rest(x, list, n)]
           later == [x \in Slot |-> Rest(x, list, n + 1)]
           ahead == WalkAhead(bucket)
<1>1. s \in Slot /\ n \in Nat /\ n + 1 \in Nat
  OBVIOUS
<1>2. \A x \in Slot : Rest(x, list, n) \in Nat /\ Rest(x, list, n + 1) \in Nat
  BY <1>1, PlacesAreFinite
<1>3. later \in [Slot -> Nat]
  BY <1>2
<1>4. \A x \in Slot : rest[x] = later[x] + (IF x = s THEN 1 ELSE 0)
  <2> SUFFICES ASSUME NEW x \in Slot  PROVE rest[x] = later[x] + (IF x = s THEN 1 ELSE 0)
    OBVIOUS
  <2>1. Rest(x, list, n) = Rest(x, list, n + 1) + (IF list[n + 1] = x THEN 1 ELSE 0)
    BY RestStep
  <2> QED BY <2>1
<1>5. w \in Works /\ \A x \in Slot : Kept(CaseOf(w, x), ahead, rest[x])
  BY DEF Fits
<1>r. \A x \in Slot : rest[x] = Rest(x, list, n) /\ later[x] = Rest(x, list, n + 1)
  OBVIOUS
<1>6. Rest(s, list, n) > 0
  <2>1. Rest(s, list, n) = Rest(s, list, n + 1) + 1 /\ Rest(s, list, n + 1) \in Nat
    BY <1>1, <1>2, <1>4
  <2> QED BY <2>1
<1>7. w.items[s].here => Frees(w) # {}
  <2> SUFFICES ASSUME w.items[s].here, Frees(w) = {}  PROVE FALSE
    OBVIOUS
  <2>1. s \in ToVisit(w, list, n)
    BY <1>1, <1>6 DEF ToVisit
  <2>2. ToVisit(w, list, n) \in SUBSET Slot
    BY DEF ToVisit
  <2>3. IsFiniteSet(ToVisit(w, list, n)) /\ Cardinality(ToVisit(w, list, n)) \in Nat
    BY <2>2, SlotsAreFinite
  <2>4. Cardinality(ToVisit(w, list, n)) # 0
    BY <2>1, <2>3, FS_EmptySet
  <2>5. Cardinality(Frees(w)) = 0
    BY FS_EmptySet
  <2> QED BY <2>3, <2>4, <2>5 DEF Fits
<1> HIDE DEF s, rest, later, u, ahead
<1>8. Goes(w, u, s, ahead, later)
  BY <1>1, <1>3, <1>4, <1>5, <1>7, VisitKept DEF u, ahead
<1>9. u \in Works /\ \A x \in Slot : Kept(CaseOf(u, x), ahead, Rest(x, list, n + 1))
  BY <1>8, <1>r DEF Goes
<1>10. Cardinality(ToVisit(u, list, n + 1)) <= Cardinality(Frees(u))
  <2>1. \A x \in Slot : Rest(x, list, n + 1) > 0 => Rest(x, list, n) > 0
    <3> SUFFICES ASSUME NEW x \in Slot, Rest(x, list, n + 1) > 0  PROVE Rest(x, list, n) > 0
      OBVIOUS
    <3>1. Rest(x, list, n) = Rest(x, list, n + 1) + (IF x = s THEN 1 ELSE 0) /\ Rest(x, list, n + 1) \in Nat
      BY <1>2, <1>4, <1>r
    <3> QED BY <3>1
  <2>2. \/ Frees(u) = Frees(w) /\ \A x \in Slot : u.items[x].here => w.items[x].here
        \/ /\ w.items[s].here /\ ~u.items[s].here
           /\ \E new \in Frees(w) : /\ Frees(u) = Frees(w) \ {new} /\ later[new] = 0
                                    /\ \A x \in Slot \ {new} : u.items[x].here => w.items[x].here
    BY <1>8 DEF Goes
  <2>3. CASE Frees(u) = Frees(w) /\ \A x \in Slot : u.items[x].here => w.items[x].here
    <3>1. ToVisit(u, list, n + 1) \subseteq ToVisit(w, list, n)
      BY <2>1, <2>3 DEF ToVisit
    <3>2. /\ ToVisit(u, list, n + 1) \in SUBSET Slot /\ ToVisit(w, list, n) \in SUBSET Slot
          /\ Frees(u) \in SUBSET Slot /\ Frees(w) \in SUBSET Slot
      BY DEF ToVisit, Frees
    <3>3. Cardinality(ToVisit(w, list, n)) <= Cardinality(Frees(w))
      BY DEF Fits
    <3> QED BY <2>3, <3>1, <3>2, <3>3, SpareStep
  <2>4. CASE /\ w.items[s].here /\ ~u.items[s].here
             /\ \E new \in Frees(w) : /\ Frees(u) = Frees(w) \ {new} /\ later[new] = 0
                                      /\ \A x \in Slot \ {new} : u.items[x].here => w.items[x].here
    <3>1. PICK new \in Frees(w) : /\ Frees(u) = Frees(w) \ {new} /\ later[new] = 0
                                  /\ \A x \in Slot \ {new} : u.items[x].here => w.items[x].here
      BY <2>4
    <3>n. Rest(new, list, n + 1) = 0
      BY <1>r, <3>1 DEF Frees
    <3>2. ToVisit(u, list, n + 1) \subseteq ToVisit(w, list, n) \ {s}
      BY <2>1, <2>4, <3>1, <3>n DEF ToVisit
    <3>3. s \in ToVisit(w, list, n)
      BY <1>1, <1>6, <2>4 DEF ToVisit
    <3>4. /\ ToVisit(u, list, n + 1) \in SUBSET Slot /\ ToVisit(w, list, n) \in SUBSET Slot
          /\ Frees(u) \in SUBSET Slot /\ Frees(w) \in SUBSET Slot
      BY DEF ToVisit, Frees
    <3>5. Cardinality(ToVisit(w, list, n)) <= Cardinality(Frees(w))
      BY DEF Fits
    <3>6. \E t \in ToVisit(w, list, n), x \in Frees(w) :
            ToVisit(u, list, n + 1) \subseteq ToVisit(w, list, n) \ {t} /\ Frees(u) = Frees(w) \ {x}
      BY <3>1, <3>2, <3>3
    <3> QED BY <3>4, <3>5, <3>6, SpareStep
  <2> QED BY <2>2, <2>3, <2>4
<1>11. ASSUME NEW x \in Slot, Steady(its, list, x)  PROVE Unmoved(u, its, list, x, n + 1)
  <2>1. Unmoved(w, its, list, x, n)
    BY <1>11 DEF Fits
  <2>2. Rest(x, list, n) = Rest(x, list, n + 1) + (IF x = s THEN 1 ELSE 0) /\ Rest(x, list, n) \in Nat /\ Rest(x, list, n + 1) \in Nat
    BY <1>2, <1>4, <1>r
  <2>3. Count(x, list) \in Nat
    BY CountedIsThere
  <2>4. Rest(x, list, n) <= Count(x, list) /\ w.items[x].kind = its[x].kind /\ w.items[x].here = its[x].here /\ its[x].kind # NoKind
    BY <1>11, <2>1 DEF Unmoved, Steady
  <2>5. CASE x # s
    <3>1. u.items[x] = w.items[x]
      BY <1>8, <2>4, <2>5 DEF Goes
    <3>2. Rest(x, list, n) = Rest(x, list, n + 1)
      BY <2>2, <2>5
    <3> QED BY <2>1, <3>1, <3>2 DEF Unmoved
  <2>6. CASE x = s
    <3>1. w.items[x] = its[x]
      BY <1>6, <2>1, <2>6 DEF Unmoved
    <3>2. Count(x, list) > 0 /\ Count(x, list) <= 1
      BY <1>6, <1>11, <2>2, <2>3, <2>4, <2>6 DEF Steady
    <3>3. CanDecay(w.items[x]) /\ w.items[x].duration >= 2 * Round
      BY <1>11, <3>1, <3>2 DEF Steady
    <3>4. u.items[x].kind = w.items[x].kind /\ u.items[x].here = w.items[x].here
      BY <1>5, <2>6, <3>3, VisitSteady DEF u
    <3>5. Rest(x, list, n + 1) = 0 /\ Rest(x, list, n + 1) <= Count(x, list)
      BY <2>2, <2>3, <2>4, <2>6, <3>2
    <3> QED BY <2>4, <3>4, <3>5 DEF Unmoved
  <2> QED BY <2>5, <2>6
<1> QED BY <1>9, <1>10, <1>11 DEF Fits, u, s, ahead

\* The whole bucket.
LEMMA WalkFits ==
  ASSUME NEW list, NEW bucket \in AllBuckets, list = decayItems[bucket], list \in Seq(Slot),
         NEW base, base = [Work EXCEPT !.buckets[bucket] = <<>>],
         Fits(base, items, list, bucket, 0)
  PROVE  Fits(AfterWalk(bucket), items, list, bucket, Len(list))
<1>0. \E g : IsWalk(g, list, bucket)
  BY AfterWalkIs
<1>1. PICK g : /\ g[0] = base
               /\ \A n \in 0..(Len(list) - 1) : g[n + 1] = Visit(g[n], list[n + 1], bucket)
               /\ AfterWalk(bucket) = g[Len(list)]
  BY <1>0 DEF IsWalk
<1> DEFINE P == {n \in Nat : Fits(g[n], items, list, bucket, n)}
<1>2. 0 \in P
  BY <1>1
<1>3. \A n \in 0..(Len(list) - 1) : n \in P => n + 1 \in P
  <2> SUFFICES ASSUME NEW n \in 0..(Len(list) - 1), n \in P  PROVE n + 1 \in P
    OBVIOUS
  <2>1. Fits(Visit(g[n], list[n + 1], bucket), items, list, bucket, n + 1)
    BY FitsStep
  <2> QED BY <1>1, <2>1
<1>4. Len(list) \in Nat
  OBVIOUS
<1> HIDE DEF P
<1>5. \A n \in 0..Len(list) : n \in P
  BY <1>2, <1>3, <1>4, Upwards
<1>6. Len(list) \in P
  BY <1>4, <1>5
<1> QED BY <1>1, <1>6 DEF P

-----------------------------------------------------------------------------
(* What cleanup does.                                                      *)

\* The bucket of an item is as far as its time is long.
LEMMA FirstBucketIs ==
  ASSUME NEW duration \in Nat, NEW last \in AllBuckets
  PROVE  /\ FirstBucket(duration, last) \in AllBuckets
         /\ AheadOf(last)[FirstBucket(duration, last)] = IF duration >= Round THEN Buckets ELSE 1
<1>1. /\ AheadOf(last)[last] = Buckets /\ (last + 1) % Buckets \in AllBuckets
      /\ AheadOf(last)[(last + 1) % Buckets] = 1
  BY AheadIs
<1>2. CASE duration >= Round
  BY <1>1, <1>2 DEF FirstBucket
<1>3. CASE ~(duration >= Round)
  <2>1. duration \in 0..999
    BY <1>3 DEF Round, Interval, Buckets
  <2>2. duration \div 1000 = 0
    BY <2>1
  <2>3. last + 1 + duration \div 1000 = last + 1
    BY <2>2 DEF AllBuckets
  <2>4. FirstBucket(duration, last) = (last + 1) % Buckets
    BY <1>3, <2>3 DEF FirstBucket
  <2> QED BY <1>1, <1>3, <2>4
<1> QED BY <1>2, <1>3

\* Every entry of toDecayItems comes into the bucket of its item.
SortsIn(sorted, buckets, list, its, last) ==
  /\ sorted \in Lists
  /\ \A s \in Slot : Counts(s, sorted) = [Counts(s, buckets) EXCEPT ![FirstBucket(its[s].duration, last)] = @ + Count(s, list)]

\* Cleanup's loop does that.
LEMMA SortedAre ==
  ASSUME NEW buckets \in Lists, NEW list \in Seq(Slot), NEW its \in [Slot -> ItemStates], NEW last \in AllBuckets
  PROVE  SortsIn(Sorted(buckets, list, its, last), buckets, list, its, last)
<1> DEFINE first(s) == FirstBucket(its[s].duration, last)
           part(s, b, n) == IF b = first(s) THEN n ELSE 0
           Good(g, n) == /\ g \in Lists
                         /\ \A s \in Slot, b \in AllBuckets :
                              Count(s, g[b]) + part(s, b, Rest(s, list, n)) = Count(s, buckets[b]) + part(s, b, Count(s, list))
<1>0. \E g : IsSorting(g, buckets, list, its, last)
  BY SortingIs
<1>1. PICK g : /\ g[0] = buckets
               /\ \A n \in 0..(Len(list) - 1) : g[n + 1] = SortedIn(g[n], list[n + 1], its, last)
               /\ Sorted(buckets, list, its, last) = g[Len(list)]
  BY <1>0 DEF IsSorting
<1>2. \A s \in Slot : first(s) \in AllBuckets
  <2>1. \A s \in Slot : its[s].duration \in Nat
    BY DEF ItemStates
  <2> QED BY <2>1, FirstBucketIs
<1> HIDE DEF first
<1>3. Good(g[0], 0)
  <2>1. \A s \in Slot : Rest(s, list, 0) = Count(s, list)
    BY RestEnds
  <2> QED BY <1>1, <2>1
<1>4. ASSUME NEW n \in 0..(Len(list) - 1), Good(g[n], n)  PROVE Good(g[n + 1], n + 1)
  <2> DEFINE x == list[n + 1]
             old == g[n]
             new == SortedIn(old, x, its, last)
  <2>1. x \in Slot /\ old \in Lists /\ first(x) \in AllBuckets /\ n \in Nat /\ n + 1 \in Nat
    BY <1>2, <1>4
  <2>2. new = [old EXCEPT ![first(x)] = Append(@, x)]
    BY DEF SortedIn, first
  <2>3. g[n + 1] = new
    BY <1>1
  <2> HIDE DEF x, new
  <2>4. old[first(x)] \in Seq(Slot) /\ Append(old[first(x)], x) \in Seq(Slot)
    BY <2>1 DEF Lists
  <2>5. \A b \in AllBuckets : new[b] = IF b = first(x) THEN Append(old[b], x) ELSE old[b]
    BY <2>1, <2>2 DEF Lists
  <2>6. new \in Lists
    BY <2>1, <2>2, <2>4 DEF Lists
  <2>7. ASSUME NEW s \in Slot, NEW b \in AllBuckets
        PROVE  Count(s, new[b]) + part(s, b, Rest(s, list, n + 1)) = Count(s, buckets[b]) + part(s, b, Count(s, list))
    <3>1. Count(s, old[b]) + part(s, b, Rest(s, list, n)) = Count(s, buckets[b]) + part(s, b, Count(s, list))
      BY <1>4
    <3>2. Rest(s, list, n) = Rest(s, list, n + 1) + (IF x = s THEN 1 ELSE 0)
      BY RestStep DEF x
    <3>3. Rest(s, list, n) \in Nat /\ Rest(s, list, n + 1) \in Nat
      BY <2>1, PlacesAreFinite
    <3>4. Count(s, old[b]) \in Nat
      <4>1. old[b] \in Seq(Slot)
        BY <2>1 DEF Lists
      <4> HIDE DEF old
      <4> QED BY <4>1, CountedIsThere
    <3>5. CASE b = first(x)
      <4>1. old[b] \in Seq(Slot)
        BY <2>1 DEF Lists
      <4>2. Count(s, Append(old[b], x)) = Count(s, old[b]) + (IF x = s THEN 1 ELSE 0)
        <5> HIDE DEF old
        <5> QED BY <2>1, <4>1, CountAppended
      <4>3. new[b] = Append(old[b], x)
        BY <2>5, <3>5
      <4>4. CASE x = s
        <5>1. part(s, b, Rest(s, list, n)) = Rest(s, list, n) /\ part(s, b, Rest(s, list, n + 1)) = Rest(s, list, n + 1)
          BY <3>5, <4>4
        <5> HIDE DEF part, old
        <5> QED BY <3>1, <3>2, <3>3, <3>4, <4>2, <4>3, <4>4, <5>1
      <4>5. CASE x # s
        <5>1. Count(s, new[b]) = Count(s, old[b])
          BY <3>4, <4>2, <4>3, <4>5
        <5>2. Rest(s, list, n) = Rest(s, list, n + 1)
          BY <3>2, <3>3, <4>5
        <5> QED BY <3>1, <5>1, <5>2
      <4> QED BY <4>4, <4>5
    <3>6. CASE b # first(x)
      <4>1. new[b] = old[b]
        BY <2>5, <3>6
      <4>2. CASE x = s
        <5>1. b # first(s)
          BY <3>6, <4>2
        <5> QED BY <3>1, <4>1, <5>1
      <4>3. CASE x # s
        <5>1. Rest(s, list, n) = Rest(s, list, n + 1)
          BY <3>2, <3>3, <4>3
        <5> QED BY <3>1, <4>1, <5>1
      <4> QED BY <4>2, <4>3
    <3> QED BY <3>5, <3>6
  <2> QED BY <2>3, <2>6, <2>7
<1> DEFINE P == {n \in Nat : Good(g[n], n)}
<1>5. Len(list) \in P
  <2>1. Len(list) \in Nat
    OBVIOUS
  <2>2. 0 \in P
    BY <1>3
  <2>3. \A n \in 0..(Len(list) - 1) : n \in P => n + 1 \in P
    <3> HIDE DEF Good
    <3> QED BY <1>4
  <2> HIDE DEF P
  <2>4. \A n \in 0..Len(list) : n \in P
    BY <2>1, <2>2, <2>3, Upwards
  <2> QED BY <2>1, <2>4
<1> DEFINE sorted == Sorted(buckets, list, its, last)
<1>6. Good(sorted, Len(list))
  BY <1>1, <1>5
<1> HIDE DEF sorted, P
<1>7. ASSUME NEW s \in Slot
      PROVE  Counts(s, sorted) = [Counts(s, buckets) EXCEPT ![FirstBucket(its[s].duration, last)] = @ + Count(s, list)]
  <2>1. Rest(s, list, Len(list)) = 0
    BY RestEnds
  <2>2. \A b \in AllBuckets : Count(s, sorted[b]) + part(s, b, 0) = Count(s, buckets[b]) + part(s, b, Count(s, list))
    BY <1>6, <2>1
  <2>3. \A b \in AllBuckets : sorted[b] \in Seq(Slot) /\ buckets[b] \in Seq(Slot)
    BY <1>6 DEF Lists
  <2>4. Count(s, list) \in Nat
    BY CountedIsThere
  <2>5. \A b \in AllBuckets : Count(s, sorted[b]) \in Nat /\ Count(s, buckets[b]) \in Nat
    BY <2>3, CountedIsThere
  <2>6. \A b \in AllBuckets : Count(s, sorted[b]) = IF b = first(s) THEN Count(s, buckets[b]) + Count(s, list) ELSE Count(s, buckets[b])
    <3> SUFFICES ASSUME NEW b \in AllBuckets
                 PROVE  Count(s, sorted[b]) = IF b = first(s) THEN Count(s, buckets[b]) + Count(s, list) ELSE Count(s, buckets[b])
      OBVIOUS
    <3>1. Count(s, sorted[b]) + part(s, b, 0) = Count(s, buckets[b]) + part(s, b, Count(s, list))
      BY <2>2
    <3>2. Count(s, sorted[b]) \in Nat /\ Count(s, buckets[b]) \in Nat
      BY <2>5
    <3> QED BY <2>4, <3>1, <3>2
  <2>7. Counts(s, sorted) = [b \in AllBuckets |-> IF b = first(s) THEN Count(s, buckets[b]) + Count(s, list) ELSE Count(s, buckets[b])]
    BY <2>6 DEF Counts
  <2>8. Counts(s, buckets) = [b \in AllBuckets |-> Count(s, buckets[b])]
    BY DEF Counts
  <2>9. first(s) \in AllBuckets
    BY <1>2
  <2>10. Counts(s, sorted) = [Counts(s, buckets) EXCEPT ![first(s)] = @ + Count(s, list)]
    BY <2>7, <2>8, <2>9
  <2> QED BY <2>10 DEF first
<1> HIDE DEF Good
<1>8. sorted \in Lists
  BY <1>6 DEF Good
<1> QED BY <1>7, <1>8 DEF SortsIn, sorted

-----------------------------------------------------------------------------
(* The invariant.                                                          *)

\* The cases of all items are sound.
Sound(w, last) ==
  /\ w \in Works /\ last \in AllBuckets
  /\ \A s \in Slot : Kept(CaseOf(w, s), AheadOf(last), 0) /\ Held(CaseOf(w, s))
DecayInv == Sound(Work, lastBucket) /\ turns \in Nat

\* Work is made of the variables.
LEMMA WorkParts ==
  /\ Work = WorkOf(items, toDecay, toRelease, wait, decayItems)
  /\ Work.items = items /\ Work.toDecay = toDecay /\ Work.toRelease = toRelease /\ Work.wait = wait
  /\ Work.buckets = decayItems
BY DEF Work, WorkOf

\* What cleanup makes of the items, with a check before it or not.
CleanedWork(w, last, checks) ==
  WorkOf(FreeReleased(w.items, w.toRelease), <<>>, <<>>, [s \in Slot |-> WaitAfter(CaseOf(w, s), checks)],
         Sorted(w.buckets, w.toDecay, w.items, last))

\* The cases stay sound.
LEMMA CleanedSound ==
  ASSUME NEW w \in Works, NEW last \in AllBuckets, NEW ahead \in [AllBuckets -> Nat], NEW checks \in 0..1,
         \A b \in AllBuckets : ahead[b] = AheadOf(last)[b] + checks,
         \A s \in Slot : Kept(CaseOf(w, s), ahead, 0)
  PROVE  Sound(CleanedWork(w, last, checks), last)
<1> DEFINE its == FreeReleased(w.items, w.toRelease)
           waits == [s \in Slot |-> WaitAfter(CaseOf(w, s), checks)]
           buckets == Sorted(w.buckets, w.toDecay, w.items, last)
           u == CleanedWork(w, last, checks)
           to(s) == FirstBucket(w.items[s].duration, last)
           c(s) == CleanedCase(CaseOf(w, s), to(s), checks)
<1>1. /\ w.items \in [Slot -> ItemStates] /\ w.toDecay \in Seq(Slot) /\ w.toRelease \in Seq(Slot)
      /\ w.wait \in [Slot -> Waits] /\ w.buckets \in Lists
  BY WorkIs
<1>2. ASSUME NEW s \in Slot
      PROVE  c(s) \in Cases /\ Kept(c(s), AheadOf(last), 0) /\ Held(c(s))
  <2> DEFINE v == CaseOf(w, s)
             b == to(s)
  <2>1. v \in Cases /\ v.item = w.items[s]
    BY CasesAre, PartsOfCase
  <2>2. w.items[s].duration \in Nat
    BY <1>1 DEF ItemStates
  <2>3. b \in AllBuckets /\ AheadOf(last)[b] = IF v.item.duration >= Round THEN Buckets ELSE 1
    BY <2>1, <2>2, FirstBucketIs
  <2>4. AheadOf(last) \in [AllBuckets -> Nat]
    BY AheadIs
  <2>5. Kept(v, ahead, 0)
    OBVIOUS
  <2> DEFINE later == AheadOf(last)
  <2>6. \A x \in AllBuckets : ahead[x] = later[x] + checks
    OBVIOUS
  <2>7. later[b] = (IF v.item.duration >= Round THEN Buckets ELSE 1) /\ later \in [AllBuckets -> Nat]
    BY <2>3, <2>4
  <2> HIDE DEF v, b, later
  <2>8. CleanedCase(v, b, checks) \in Cases /\ Kept(CleanedCase(v, b, checks), later, 0) /\ Held(CleanedCase(v, b, checks))
    BY <2>1, <2>3, <2>5, <2>6, <2>7, CleanedKept
  <2> QED BY <2>8 DEF v, b, later
<1>3. \A s \in Slot : its[s] = ReleasedItem(CaseOf(w, s))
  <2> SUFFICES ASSUME NEW s \in Slot  PROVE its[s] = ReleasedItem(CaseOf(w, s))
    OBVIOUS
  <2>1. CaseOf(w, s).item = w.items[s] /\ CaseOf(w, s).freed = Count(s, w.toRelease)
    BY PartsOfCase
  <2>2. its[s] = LET left == w.items[s].refs - Count(s, w.toRelease)
                 IN IF w.items[s].kind # NoKind /\ left = 0 THEN Free ELSE [w.items[s] EXCEPT !.refs = left]
    BY DEF FreeReleased
  <2> QED BY <2>1, <2>2 DEF ReleasedItem
<1>4. \A s \in Slot : c(s).item = its[s] /\ c(s).wait = waits[s] /\ c(s).waiting = 0 /\ c(s).freed = 0
                      /\ c(s).in = [Counts(s, w.buckets) EXCEPT ![to(s)] = @ + Count(s, w.toDecay)]
  BY <1>3, PartsOfCase DEF CleanedCase, Case
<1>5. its \in [Slot -> ItemStates] /\ waits \in [Slot -> Waits]
  <2>1. \A s \in Slot : c(s).item \in ItemStates /\ c(s).wait \in Waits
    <3> HIDE DEF c
    <3> QED BY <1>2, CaseIs
  <2>2. \A s \in Slot : its[s] \in ItemStates /\ waits[s] \in Waits
    BY <1>4, <2>1
  <2>3. its = [s \in Slot |-> its[s]]
    BY DEF FreeReleased
  <2> HIDE DEF its, c
  <2> QED BY <2>2, <2>3
<1>6. SortsIn(buckets, w.buckets, w.toDecay, w.items, last)
  BY <1>1, SortedAre
<1>7. buckets \in Lists /\ \A s \in Slot : Counts(s, buckets) = [Counts(s, w.buckets) EXCEPT ![to(s)] = @ + Count(s, w.toDecay)]
  BY <1>6 DEF SortsIn
<1> DEFINE none == <<>>
<1>8. none \in Seq(Slot) /\ u = WorkOf(its, none, none, waits, buckets)
  BY DEF CleanedWork
<1> HIDE DEF its, waits, buckets, u, c, to, none
<1>9. u \in Works /\ u.items = its /\ u.toDecay = none /\ u.toRelease = none /\ u.wait = waits /\ u.buckets = buckets
  BY <1>5, <1>7, <1>8, PartsMakeWork
<1>10. \A s \in Slot : CaseOf(u, s) = c(s)
  <2> SUFFICES ASSUME NEW s \in Slot  PROVE CaseOf(u, s) = c(s)
    OBVIOUS
  <2>1. CaseOf(u, s) = Case(its[s], waits[s], 0, 0, Counts(s, buckets))
    BY <1>9, CountNone DEF CaseOf, none
  <2>2. c(s) = Case(c(s).item, c(s).wait, c(s).waiting, c(s).freed, c(s).in)
    BY DEF c, CleanedCase, Case
  <2> QED BY <1>4, <1>7, <2>1, <2>2
<1> QED BY <1>2, <1>9, <1>10 DEF Sound, u

\* A change of one case.
LEMMA OneSound ==
  ASSUME NEW w, NEW last, Sound(w, last), NEW u \in Works, NEW s \in Slot, NEW c,
         Changes(w, u, s, c), Kept(c, AheadOf(last), 0), Held(c)
  PROVE  Sound(u, last)
BY DEF Sound, Changes

\* Game::startDecay.
LEMMA ListedSound ==
  ASSUME NEW w, NEW last, Sound(w, last), NEW s \in Slot
  PROVE  Sound(Listed(w, s), last) /\ Listed(w, s).buckets = w.buckets
<1> DEFINE v == CaseOf(w, s)
           u == Listed(w, s)
           c == ListedCase(v)
<1>1. w \in Works /\ Kept(v, AheadOf(last), 0) /\ Held(v)
  BY DEF Sound
<1>2. v \in Cases
  BY <1>1, CasesAre
<1>3. u \in Works /\ Changes(w, u, s, c)
  BY <1>1, ListedDoes
<1>4. Kept(c, AheadOf(last), 0) /\ Held(c)
  <2> HIDE DEF v
  <2> QED BY <1>1, <1>2, ListedKept
<1>5. u.buckets = w.buckets
  BY <1>1 DEF Listed, Works
<1> HIDE DEF v, u, c
<1> QED BY <1>3, <1>4, <1>5, OneSound DEF u

\* Game::internalRemoveItem.
LEMMA DroppedSound ==
  ASSUME NEW w, NEW last, Sound(w, last), NEW s \in Slot, w.items[s].here
  PROVE  Sound(Dropped(w, s), last) /\ Dropped(w, s).buckets = w.buckets
<1> DEFINE v == CaseOf(w, s)
           u == Dropped(w, s)
           c == DroppedCase(v)
<1>1. w \in Works /\ Kept(v, AheadOf(last), 0) /\ Held(v)
  BY DEF Sound
<1>2. v \in Cases /\ v.item.here
  BY <1>1, CasesAre, PartsOfCase
<1>3. u \in Works /\ Changes(w, u, s, c)
  BY <1>1, DroppedDoes
<1>4. Kept(c, AheadOf(last), 0) /\ Held(c)
  <2> HIDE DEF v
  <2> QED BY <1>1, <1>2, DroppedKept
<1>5. u.buckets = w.buckets
  BY <1>1 DEF Dropped, Works
<1> HIDE DEF v, u, c
<1> QED BY <1>3, <1>4, <1>5, OneSound DEF u

\* An item is made in a free slot.
LEMMA MadeSound ==
  ASSUME NEW w, NEW last, Sound(w, last), NEW s \in Slot, w.items[s].kind = NoKind,
         NEW kind \in Kinds \ {NoKind}, NEW duration \in Nat, Type[kind].time > 0 => duration > 0
  PROVE  Sound(Made(w, s, kind, duration), last) /\ Made(w, s, kind, duration).buckets = w.buckets
<1> DEFINE v == CaseOf(w, s)
           u == Made(w, s, kind, duration)
           c == NewCase(v, kind, duration)
<1>1. w \in Works /\ Kept(v, AheadOf(last), 0)
  BY DEF Sound
<1>2. v \in Cases /\ v.item.kind = NoKind
  BY <1>1, CasesAre, PartsOfCase
<1>3. u \in Works /\ Changes(w, u, s, c)
  BY <1>1, MadeDoes
<1>4. Kept(c, AheadOf(last), 0) /\ Held(c)
  <2> HIDE DEF v
  <2> QED BY <1>1, <1>2, NewKept
<1>5. u.buckets = w.buckets
  BY <1>1 DEF Made, Works
<1> HIDE DEF v, u, c
<1> QED BY <1>3, <1>4, <1>5, OneSound DEF u

\* The entries of an item, in the variables and in its case.
LEMMA EntriesAre ==
  ASSUME NEW s \in Slot, Work \in Works
  PROVE  Entries(s) = Listings(CaseOf(Work, s), 0)
<1> DEFINE v == CaseOf(Work, s)
<1>1. v \in Cases
  BY CasesAre
<1>2. v.waiting = Count(s, toDecay) /\ \A b \in AllBuckets : v.in[b] = Count(s, decayItems[b])
  <2>1. v.waiting = Count(s, Work.toDecay) /\ v.in = Counts(s, Work.buckets)
    BY PartsOfCase
  <2>2. Work.toDecay = toDecay /\ Work.buckets = decayItems
    BY WorkParts
  <2> HIDE DEF v
  <2> QED BY <2>1, <2>2 DEF Counts
<1>3. 0 \in AllBuckets /\ 1 \in AllBuckets /\ 2 \in AllBuckets /\ 3 \in AllBuckets
  BY FourBuckets
<1>4. v.waiting \in Nat /\ v.in[0] \in Nat /\ v.in[1] \in Nat /\ v.in[2] \in Nat /\ v.in[3] \in Nat
  BY <1>1, CaseIs
<1>5. Entries(s) = v.waiting + (v.in[0] + v.in[1] + v.in[2] + v.in[3])
  BY <1>2, <1>3 DEF Entries, InBuckets
<1>6. Listings(v, 0) = v.waiting + v.in[0] + v.in[1] + v.in[2] + v.in[3] + 0
  BY DEF Listings
<1> HIDE DEF v
<1> QED BY <1>4, <1>5, <1>6 DEF v

-----------------------------------------------------------------------------
(* Every step keeps the invariant.                                         *)

\* A turn's work is taken over as it is.
LEMMA AppliedSound ==
  ASSUME NEW u, NEW last, Sound(u, last), u.buckets = decayItems, last = lastBucket, Apply(u),
         UNCHANGED <<decayItems, lastBucket>>
  PROVE  Sound(Work, lastBucket)'
<1>1. u \in Works /\ u = WorkOf(u.items, u.toDecay, u.toRelease, u.wait, u.buckets)
  BY WorkIs DEF Sound
<1>2. Work' = WorkOf(u.items, u.toDecay, u.toRelease, u.wait, u.buckets)
  BY DEF Work, WorkOf, Apply
<1>3. Work' = u /\ lastBucket' = last
  BY <1>1, <1>2
<1>4. Sound(Work', lastBucket')
  BY <1>3
<1>5. Sound(Work', lastBucket') <=> Sound(Work, lastBucket)'
  BY DEF Sound
<1> QED BY <1>4, <1>5

\* There is a free slot when there are fewer items than slots.
LEMMA NewSlotIs ==
  ASSUME NEW w, \E s \in Slot : w.items[s].kind = NoKind
  PROVE  NewSlot(w) \in Slot /\ w.items[NewSlot(w)].kind = NoKind
BY DEF NewSlot

\* An item that appears: Item::CreateItem and startDecay.
LEMMA AppearKeeps ==
  ASSUME DecayInv, NEW kind \in FirstKinds, NEW duration \in {Type[kind].time} \cup Odd, Appear(kind, duration)
  PROVE  DecayInv'
<1> DEFINE s == NewSlot(Work)
           a == Made(Work, s, kind, duration)
           u == Listed(a, s)
           last == lastBucket
<1>1. /\ Sound(Work, last) /\ turns \in Nat /\ Work.items = items /\ Work.buckets = decayItems
  BY WorkParts DEF DecayInv
<1>2. kind \in Kinds \ {NoKind}
  BY DecayAssumption
<1>3. duration \in Nat /\ (Type[kind].time > 0 => duration > 0)
  BY <1>2, KindIs, DecayAssumption
<1>4. \E x \in Slot : Work.items[x].kind = NoKind
  <2> SUFFICES ASSUME \A x \in Slot : Work.items[x].kind # NoKind  PROVE FALSE
    OBVIOUS
  <2>1. {x \in Slot : items[x].kind # NoKind} = Slot
    BY <1>1
  <2>2. Cardinality(Slot) < Crowd
    BY <2>1 DEF Appear
  <2>3. Crowd \in Nat /\ Crowd <= Cardinality(Slot) /\ Cardinality(Slot) \in Nat
    BY DecayAssumption, FS_CardinalityType
  <2> QED BY <2>2, <2>3
<1>5. s \in Slot /\ Work.items[s].kind = NoKind
  BY <1>4, NewSlotIs
<1>6. Apply(u) /\ turns' = turns + 1 /\ UNCHANGED <<decayItems, lastBucket>>
  BY DEF Appear, Turn
<1> HIDE DEF s, a, u, last
<1>7. Sound(a, last) /\ a.buckets = decayItems
  <2>1. Sound(Made(Work, s, kind, duration), last) /\ Made(Work, s, kind, duration).buckets = Work.buckets
    BY <1>1, <1>2, <1>3, <1>5, MadeSound
  <2> QED BY <1>1, <2>1 DEF a
<1>8. Sound(u, last) /\ u.buckets = decayItems
  <2>1. Sound(Listed(a, s), last) /\ Listed(a, s).buckets = a.buckets
    BY <1>5, <1>7, ListedSound
  <2> QED BY <1>7, <2>1 DEF u
<1>9. last = lastBucket
  BY DEF last
<1>10. Sound(Work, lastBucket)'
  BY <1>6, <1>8, <1>9, AppliedSound
<1> QED BY <1>1, <1>6, <1>10 DEF DecayInv

\* An item that is taken away: Game::internalRemoveItem.
LEMMA TakeAwayKeeps ==
  ASSUME DecayInv, NEW s \in Slot, TakeAway(s)
  PROVE  DecayInv'
<1> DEFINE u == Dropped(Work, s)
           last == lastBucket
<1>1. /\ Sound(Work, last) /\ turns \in Nat /\ Work.items = items /\ Work.buckets = decayItems
  BY WorkParts DEF DecayInv
<1>2. Work.items[s].here
  BY <1>1 DEF TakeAway
<1>3. Apply(u) /\ turns' = turns + 1 /\ UNCHANGED <<decayItems, lastBucket>>
  BY DEF TakeAway, Turn
<1> HIDE DEF u, last
<1>4. Sound(u, last) /\ u.buckets = decayItems
  <2>1. Sound(Dropped(Work, s), last) /\ Dropped(Work, s).buckets = Work.buckets
    BY <1>1, <1>2, DroppedSound
  <2> QED BY <1>1, <2>1 DEF u
<1>5. last = lastBucket
  BY DEF last
<1>6. Sound(Work, lastBucket)'
  BY <1>3, <1>4, <1>5, AppliedSound
<1> QED BY <1>1, <1>3, <1>6 DEF DecayInv

\* A transformation keeps the cases sound.
LEMMA TransformedSound ==
  ASSUME NEW w, NEW last, Sound(w, last), NEW s \in Slot, w.items[s].here, NEW kind \in Kinds \ {NoKind},
         NEW new \in Slot, w.items[new].kind = NoKind, NEW waits, waits = (Listings(CaseOf(w, s), 0) > 0)
  PROVE  Sound(Transformed(w, s, kind, new, waits), last) /\ Transformed(w, s, kind, new, waits).buckets = w.buckets
<1> DEFINE v == CaseOf(w, s)
           u == Transformed(w, s, kind, new, waits)
           c == SetCase(v, kind, waits)
<1>1. w \in Works /\ Kept(v, AheadOf(last), 0) /\ Held(v)
  BY DEF Sound
<1>2. v \in Cases /\ v.item.here
  BY <1>1, CasesAre, PartsOfCase
<1>3. waits \in BOOLEAN
  OBVIOUS
<1>4. CASE <<w.items[s].kind, kind>> \in Replaces
  <2> DEFINE a == Dropped(w, s)
  <2>1. u = Made(a, new, kind, Type[kind].time)
    BY <1>4 DEF Transformed
  <2>2. w.items[s].kind # NoKind
    <3>1. v.item.kind = NoKind => v.item = Free
      BY <1>1 DEF Kept
    <3>2. v.item = w.items[s]
      BY PartsOfCase
    <3> QED BY <3>1, <3>2 DEF Free
  <2>3. Sound(a, last) /\ a.buckets = w.buckets
    BY DroppedSound
  <2>4. a.items[new].kind = NoKind
    <3>1. Changes(w, a, s, DroppedCase(v))
      BY <1>1, DroppedDoes
    <3>2. CaseOf(a, new) = CaseOf(w, new)
      BY <2>2, <3>1 DEF Changes
    <3>3. CaseOf(a, new).item = a.items[new] /\ CaseOf(w, new).item = w.items[new]
      BY PartsOfCase
    <3> QED BY <3>2, <3>3
  <2> DEFINE time == Type[kind].time
  <2>5. time \in Nat /\ (Type[kind].time > 0 => time > 0)
    BY KindIs
  <2> HIDE DEF a, time
  <2>6. Sound(Made(a, new, kind, time), last) /\ Made(a, new, kind, time).buckets = a.buckets
    BY <2>3, <2>4, <2>5, MadeSound
  <2> QED BY <2>1, <2>3, <2>6 DEF time
<1>5. CASE <<w.items[s].kind, kind>> \notin Replaces
  <2>1. u \in Works /\ Changes(w, u, s, c)
    BY <1>1, <1>3, <1>5, SetDoes
  <2>2. Kept(c, AheadOf(last), 0) /\ Held(c)
    <3>1. waits = (Listings(v, 0) > 0)
      OBVIOUS
    <3>2. LET x == SetCase(v, kind, Listings(v, 0) > 0)
          IN x \in Cases /\ Kept(x, AheadOf(last), 0) /\ (Held(v) => Held(x))
      <4> HIDE DEF v
      <4> QED BY <1>1, <1>2, SetKept
    <3> QED BY <1>1, <3>1, <3>2
  <2>3. u.buckets = w.buckets
    BY <1>1, <1>5 DEF Transformed, Works
  <2> HIDE DEF v, u, c
  <2> QED BY <2>1, <2>2, <2>3, OneSound DEF u
<1> QED BY <1>4, <1>5

\* An item that is used: Actions::internalUseItem.
LEMMA UseKeeps ==
  ASSUME DecayInv, NEW s \in Slot, Use(s)
  PROVE  DecayInv'
<1> DEFINE kind == UsesTo[items[s].kind]
           new == NewSlot(Work)
           waits == Entries(s) > 0
           a == Transformed(Work, s, kind, new, waits)
           u == Listed(a, s)
           last == lastBucket
<1>1. /\ Sound(Work, last) /\ turns \in Nat /\ Work.items = items /\ Work.buckets = decayItems /\ Work \in Works
  BY WorkParts DEF DecayInv, Sound
<1>2. Work.items[s].here
  BY <1>1 DEF Use
<1>3. kind \in Kinds \ {NoKind}
  <2>1. Work.items[s] \in ItemStates
    BY <1>1, WorkIs
  <2>2. items[s].kind \in Kinds
    BY <1>1, <2>1 DEF ItemStates
  <2>3. UsesTo[items[s].kind] # NoKind
    BY DEF Use
  <2> QED BY <2>2, <2>3, KindIs
<1>4. \E x \in Slot : Work.items[x].kind = NoKind
  <2> SUFFICES ASSUME \A x \in Slot : Work.items[x].kind # NoKind  PROVE FALSE
    OBVIOUS
  <2>1. {x \in Slot : items[x].kind = NoKind} = {}
    BY <1>1
  <2>2. 1 <= Cardinality({})
    BY <2>1 DEF Use, Spare
  <2> QED BY <2>2, FS_EmptySet
<1>5. new \in Slot /\ Work.items[new].kind = NoKind
  BY <1>4, NewSlotIs
<1>6. Apply(u) /\ turns' = turns + 1 /\ UNCHANGED <<decayItems, lastBucket>>
  BY DEF Use, Turn
<1>7. waits = (Listings(CaseOf(Work, s), 0) > 0)
  BY <1>1, EntriesAre
<1> HIDE DEF kind, new, waits, a, u, last
<1>8. Sound(a, last) /\ a.buckets = decayItems
  <2>1. Sound(Transformed(Work, s, kind, new, waits), last) /\ Transformed(Work, s, kind, new, waits).buckets = Work.buckets
    BY <1>1, <1>2, <1>3, <1>5, <1>7, TransformedSound
  <2> QED BY <1>1, <2>1 DEF a
<1>9. Sound(u, last) /\ u.buckets = decayItems
  <2>1. Sound(Listed(a, s), last) /\ Listed(a, s).buckets = a.buckets
    BY <1>8, ListedSound
  <2> QED BY <1>8, <2>1 DEF u
<1>10. last = lastBucket
  BY DEF last
<1>11. Sound(Work, lastBucket)'
  BY <1>6, <1>9, <1>10, AppliedSound
<1> QED BY <1>1, <1>6, <1>11 DEF DecayInv

\* After a cleaning the variables are those of the cleaned work.
LEMMA CleanedKeeps ==
  ASSUME NEW w \in Works, NEW last \in AllBuckets, NEW ahead \in [AllBuckets -> Nat], NEW checks \in 0..1,
         \A b \in AllBuckets : ahead[b] = AheadOf(last)[b] + checks,
         \A s \in Slot : Kept(CaseOf(w, s), ahead, 0),
         Work' = CleanedWork(w, last, checks), lastBucket' = last, turns \in Nat, UNCHANGED turns
  PROVE  DecayInv'
<1>1. Sound(CleanedWork(w, last, checks), last)
  BY CleanedSound
<1>2. Sound(Work', lastBucket')
  BY <1>1
<1>3. Sound(Work', lastBucket') <=> Sound(Work, lastBucket)'
  BY DEF Sound
<1> QED BY <1>2, <1>3 DEF DecayInv

\* Game::cleanup.
LEMMA CleanUpKeeps ==
  ASSUME DecayInv, CleanUp
  PROVE  DecayInv'
<1> DEFINE w == Work
           last == lastBucket
           ahead == AheadOf(last)
<1>1. /\ w \in Works /\ last \in AllBuckets /\ \A s \in Slot : Kept(CaseOf(w, s), ahead, 0)
      /\ turns \in Nat
  BY DEF DecayInv, Sound
<1>2. ahead \in [AllBuckets -> Nat]
  BY <1>1, AheadIs
<1>3. 0 \in 0..1 /\ \A b \in AllBuckets : ahead[b] = AheadOf(last)[b] + 0
  BY <1>2
<1>4. /\ w.items = items /\ w.toDecay = toDecay /\ w.toRelease = toRelease /\ w.wait = wait /\ w.buckets = decayItems
  BY WorkParts
<1>5. \A s \in Slot : items'[s] = ReleasedItem(CaseOf(w, s)) /\ wait'[s] = WaitAfter(CaseOf(w, s), 0)
  <2> SUFFICES ASSUME NEW s \in Slot  PROVE items'[s] = ReleasedItem(CaseOf(w, s)) /\ wait'[s] = WaitAfter(CaseOf(w, s), 0)
    OBVIOUS
  <2>1. CaseOf(w, s).item = items[s] /\ CaseOf(w, s).freed = Count(s, toRelease) /\ CaseOf(w, s).wait = wait[s]
    <3> HIDE DEF w
    <3> QED BY <1>4, PartsOfCase
  <2>2. items'[s] = LET left == items[s].refs - Count(s, toRelease)
                    IN IF items[s].kind # NoKind /\ left = 0 THEN Free ELSE [items[s] EXCEPT !.refs = left]
    BY DEF CleanUp, FreeReleased
  <2>3. wait'[s] = IF items'[s].kind = NoKind THEN NotWaiting ELSE wait[s]
    BY DEF CleanUp
  <2> HIDE DEF w
  <2>4. items'[s] = ReleasedItem(CaseOf(w, s))
    BY <2>1, <2>2 DEF ReleasedItem
  <2> QED BY <2>1, <2>3, <2>4 DEF WaitAfter
<1>6. wait' = [s \in Slot |-> WaitAfter(CaseOf(w, s), 0)]
  <2>1. wait' = [s \in Slot |-> wait'[s]]
    BY DEF CleanUp
  <2> HIDE DEF w
  <2> QED BY <1>5, <2>1
<1>7. Work' = CleanedWork(w, last, 0)
  <2>1. /\ items' = FreeReleased(w.items, w.toRelease) /\ toDecay' = <<>> /\ toRelease' = <<>>
        /\ decayItems' = Sorted(w.buckets, w.toDecay, w.items, last)
    BY <1>4 DEF CleanUp
  <2>2. Work' = WorkOf(items', toDecay', toRelease', wait', decayItems')
    BY DEF Work, WorkOf
  <2> HIDE DEF w, last
  <2> QED BY <1>6, <2>1, <2>2 DEF CleanedWork
<1>8. lastBucket' = last /\ UNCHANGED turns
  BY DEF CleanUp
<1> HIDE DEF w, last, ahead
<1> QED BY <1>1, <1>2, <1>3, <1>7, <1>8, CleanedKeeps DEF ahead

\* At the start of a walk all the entries of the bucket are still to come.
LEMMA WalkStarts ==
  ASSUME DecayInv, NEW bucket, bucket = (lastBucket + 1) % Buckets, NEW list, list = decayItems[bucket],
         Spare(Cardinality({s \in Slot : items[s].here /\ Count(s, list) > 0})),
         NEW base, base = [Work EXCEPT !.buckets[bucket] = <<>>]
  PROVE  list \in Seq(Slot) /\ bucket \in AllBuckets /\ Fits(base, items, list, bucket, 0)
<1>1. /\ Work \in Works /\ lastBucket \in AllBuckets /\ \A s \in Slot : Kept(CaseOf(Work, s), AheadOf(lastBucket), 0)
      /\ Work.items = items /\ Work.buckets = decayItems
  BY WorkParts DEF DecayInv, Sound
<1>2. bucket \in AllBuckets
  BY <1>1, AheadIs
<1>3. list \in Seq(Slot)
  BY <1>1, <1>2, WorkIs DEF Lists
<1>4. /\ base \in Works /\ base.items = items
      /\ \A s \in Slot : CaseOf(base, s) = OpenedCase(CaseOf(Work, s), bucket)
  <2>1. /\ base \in Works /\ base.items = Work.items
        /\ \A s \in Slot : CaseOf(base, s) = OpenedCase(CaseOf(Work, s), bucket)
    BY <1>1, <1>2, OpenedIs
  <2> QED BY <1>1, <2>1
<1>5. \A x \in Slot : Rest(x, list, 0) = Count(x, list) /\ Count(x, list) \in Nat
  BY <1>3, RestEnds, CountedIsThere
<1>6. ASSUME NEW x \in Slot  PROVE Kept(CaseOf(base, x), WalkAhead(bucket), Rest(x, list, 0))
  <2> DEFINE v == CaseOf(Work, x)
             ahead == AheadOf(lastBucket)
             later == WalkAhead(bucket)
  <2>1. v \in Cases /\ Kept(v, ahead, 0)
    BY <1>1, CasesAre
  <2>2. v.in[bucket] = Count(x, list)
    <3>1. v.in = Counts(x, Work.buckets)
      BY PartsOfCase
    <3> HIDE DEF v
    <3> QED BY <1>1, <1>2, <3>1 DEF Counts
  <2>3. ahead[bucket] = 1 /\ \A c \in AllBuckets \ {bucket} : ahead[c] = later[c]
    BY <1>1, AheadIs
  <2>4. Kept(OpenedCase(v, bucket), later, v.in[bucket])
    <3> HIDE DEF v, ahead, later
    <3> QED BY <1>2, <2>1, <2>3, OpenedKept
  <2> QED BY <1>4, <1>5, <2>2, <2>4
<1>7. Cardinality(ToVisit(base, list, 0)) <= Cardinality(Frees(base))
  <2>1. ToVisit(base, list, 0) = {s \in Slot : items[s].here /\ Count(s, list) > 0}
    BY <1>4, <1>5 DEF ToVisit
  <2>2. Frees(base) = {s \in Slot : items[s].kind = NoKind}
    BY <1>4 DEF Frees
  <2> QED BY <2>1, <2>2 DEF Spare
<1>8. \A x \in Slot : Steady(items, list, x) => Unmoved(base, items, list, x, 0)
  BY <1>4, <1>5 DEF Unmoved
<1> QED BY <1>2, <1>3, <1>4, <1>6, <1>7, <1>8 DEF Fits

\* What a check has done when its walk is over.
WalkDone(w, list, bucket) ==
  /\ w \in Works
  /\ \A s \in Slot : Kept(CaseOf(w, s), WalkAhead(bucket), 0)
  /\ \A s \in Slot : Steady(items, list, s) => w.items[s].kind = items[s].kind /\ w.items[s].here = items[s].here

\* A check does all of it.
LEMMA CheckWalks ==
  ASSUME DecayInv, CheckDecay, NEW bucket, bucket = (lastBucket + 1) % Buckets, NEW list, list = decayItems[bucket],
         NEW w, w = AfterWalk(bucket)
  PROVE  bucket \in AllBuckets /\ list \in Seq(Slot) /\ WalkDone(w, list, bucket)
<1> DEFINE base == [Work EXCEPT !.buckets[bucket] = <<>>]
<1>1. Spare(Cardinality({s \in Slot : items[s].here /\ Count(s, list) > 0}))
  BY DEF CheckDecay
<1>b. base = [Work EXCEPT !.buckets[bucket] = <<>>]
  OBVIOUS
<1> HIDE DEF base
<1>2. list \in Seq(Slot) /\ bucket \in AllBuckets /\ Fits(base, items, list, bucket, 0)
  BY <1>1, <1>b, WalkStarts
<1>3. Fits(AfterWalk(bucket), items, list, bucket, Len(list))
  BY <1>2, <1>b, WalkFits
<1>4. \A s \in Slot : Rest(s, list, Len(list)) = 0
  BY <1>2, RestEnds
<1> QED BY <1>2, <1>3, <1>4 DEF Fits, Unmoved, WalkDone

\* Game::checkDecay.
LEMMA CheckDecayKeeps ==
  ASSUME DecayInv, CheckDecay
  PROVE  DecayInv'
<1> DEFINE bucket == (lastBucket + 1) % Buckets
           list == decayItems[bucket]
           w == AfterWalk(bucket)
           ahead == WalkAhead(bucket)
<1>0. bucket = (lastBucket + 1) % Buckets /\ list = decayItems[bucket] /\ w = AfterWalk(bucket)
  OBVIOUS
<1>d. /\ lastBucket' = bucket /\ decayItems' = Sorted(w.buckets, w.toDecay, w.items, bucket)
      /\ toDecay' = <<>> /\ toRelease' = <<>> /\ items' = FreeReleased(w.items, w.toRelease)
      /\ wait' = [s \in Slot |-> IF items'[s].kind = NoKind THEN NotWaiting
                                 ELSE IF items'[s].decaying THEN [w.wait[s] EXCEPT !.since = @ + 1]
                                 ELSE w.wait[s]]
      /\ UNCHANGED turns /\ turns \in Nat
  BY DEF CheckDecay, DecayInv
<1> HIDE DEF bucket, list, w, ahead
<1>1. bucket \in AllBuckets /\ WalkDone(w, list, bucket)
  BY <1>0, CheckWalks
<1>2. w \in Works /\ \A s \in Slot : Kept(CaseOf(w, s), ahead, 0)
  BY <1>1 DEF WalkDone, ahead
<1>3. ahead \in [AllBuckets -> Nat] /\ 1 \in 0..1 /\ \A b \in AllBuckets : ahead[b] = AheadOf(bucket)[b] + 1
  BY <1>1, AheadIs DEF WalkAhead, ahead
<1>4. \A s \in Slot : items'[s] = ReleasedItem(CaseOf(w, s)) /\ wait'[s] = WaitAfter(CaseOf(w, s), 1)
  <2> SUFFICES ASSUME NEW s \in Slot  PROVE items'[s] = ReleasedItem(CaseOf(w, s)) /\ wait'[s] = WaitAfter(CaseOf(w, s), 1)
    OBVIOUS
  <2>1. /\ CaseOf(w, s).item = w.items[s] /\ CaseOf(w, s).freed = Count(s, w.toRelease)
        /\ CaseOf(w, s).wait = w.wait[s]
    BY PartsOfCase
  <2>2. items'[s] = LET left == w.items[s].refs - Count(s, w.toRelease)
                    IN IF w.items[s].kind # NoKind /\ left = 0 THEN Free ELSE [w.items[s] EXCEPT !.refs = left]
    BY <1>d DEF FreeReleased
  <2>3. wait'[s] = IF items'[s].kind = NoKind THEN NotWaiting
                   ELSE IF items'[s].decaying THEN [w.wait[s] EXCEPT !.since = @ + 1]
                   ELSE w.wait[s]
    BY <1>d
  <2>4. items'[s] = ReleasedItem(CaseOf(w, s))
    BY <2>1, <2>2 DEF ReleasedItem
  <2>5. w.items[s] \in ItemStates
    BY <1>2, WorkIs
  <2>6. items'[s].kind # NoKind => items'[s].decaying = w.items[s].decaying
    <3>1. CASE items'[s] = Free
      BY <3>1 DEF Free
    <3>2. CASE items'[s] = [w.items[s] EXCEPT !.refs = w.items[s].refs - Count(s, w.toRelease)]
      BY <2>5, <3>2 DEF ItemStates
    <3> QED BY <2>2, <3>1, <3>2
  <2>7. wait'[s] = WaitAfter(CaseOf(w, s), 1)
    <3>1. CASE items'[s].kind = NoKind
      BY <2>3, <2>4, <3>1 DEF WaitAfter
    <3>2. CASE items'[s].kind # NoKind
      <4>1. wait'[s] = IF w.items[s].decaying THEN [w.wait[s] EXCEPT !.since = w.wait[s].since + 1] ELSE w.wait[s]
        BY <2>3, <2>6, <3>2
      <4>2. WaitAfter(CaseOf(w, s), 1) = IF w.items[s].decaying THEN [w.wait[s] EXCEPT !.since = w.wait[s].since + 1] ELSE w.wait[s]
        BY <2>1, <2>4, <3>2 DEF WaitAfter
      <4> QED BY <4>1, <4>2
    <3> QED BY <3>1, <3>2
  <2> QED BY <2>4, <2>7
<1>5. wait' = [s \in Slot |-> WaitAfter(CaseOf(w, s), 1)]
  <2>1. wait' = [s \in Slot |-> wait'[s]]
    BY <1>d
  <2> QED BY <1>4, <2>1
<1>6. Work' = CleanedWork(w, bucket, 1)
  <2>1. Work' = WorkOf(items', toDecay', toRelease', wait', decayItems')
    BY DEF Work, WorkOf
  <2> QED BY <1>5, <1>d, <2>1 DEF CleanedWork
<1> QED BY <1>1, <1>2, <1>3, <1>6, <1>d, CleanedKeeps

\* At first there is nothing.
LEMMA DecayStarts == DecayInit => DecayInv
<1> SUFFICES ASSUME DecayInit  PROVE DecayInv
  OBVIOUS
<1>1. Free \in ItemStates /\ NotWaiting \in Waits
  BY DecayAssumption DEF Free, NotWaiting, ItemStates, Waits
<1> DEFINE none == <<>>
<1>2. /\ items \in [Slot -> ItemStates] /\ wait \in [Slot -> Waits] /\ decayItems \in Lists
      /\ toDecay \in Seq(Slot) /\ toRelease \in Seq(Slot)
  BY <1>1 DEF DecayInit, Lists, AllBuckets
<1>3. Work = WorkOf(items, toDecay, toRelease, wait, decayItems)
  BY WorkParts
<1>4. Work \in Works
  BY <1>2, <1>3, PartsMakeWork
<1>5. lastBucket \in AllBuckets /\ turns \in Nat
  BY FourBuckets DEF DecayInit
<1>6. ASSUME NEW s \in Slot  PROVE Kept(CaseOf(Work, s), AheadOf(lastBucket), 0) /\ Held(CaseOf(Work, s))
  <2> DEFINE v == CaseOf(Work, s)
  <2>1. \A b \in AllBuckets : decayItems[b] = <<>>
    BY DEF DecayInit, AllBuckets
  <2>2. v = Case(items[s], wait[s], Count(s, toDecay), Count(s, toRelease), Counts(s, decayItems))
    BY WorkParts DEF CaseOf
  <2>3. /\ v.item = Free /\ v.wait = NotWaiting /\ v.waiting = 0 /\ v.freed = 0
        /\ \A b \in AllBuckets : v.in[b] = 0
    <3>1. items[s] = Free /\ wait[s] = NotWaiting /\ toDecay = none /\ toRelease = none
      BY DEF DecayInit
    <3>2. Count(s, none) = 0
      BY CountNone
    <3>3. \A b \in AllBuckets : Counts(s, decayItems)[b] = 0
      BY <2>1, <3>2 DEF Counts
    <3> HIDE DEF v, none
    <3> QED BY <2>2, <3>1, <3>2, <3>3 DEF Case
  <2>4. v.in[0] = 0 /\ v.in[1] = 0 /\ v.in[2] = 0 /\ v.in[3] = 0
    BY <2>3, FourBuckets
  <2> HIDE DEF v
  <2>5. Listings(v, 0) = 0
    BY <2>3, <2>4 DEF Listings
  <2>6. /\ v.item.kind = NoKind /\ v.item.duration = 0 /\ v.item.decaying = FALSE /\ v.item.here = FALSE
        /\ v.item.refs = 0
    BY <2>3 DEF Free
  <2> QED BY <2>3, <2>5, <2>6 DEF Kept, Held, v
<1> QED BY <1>4, <1>5, <1>6 DEF DecayInv, Sound

\* The invariant is inductive.
LEMMA DecayStays == DecayInv /\ [DecayNext]_decayVars => DecayInv'
<1> SUFFICES ASSUME DecayInv, [DecayNext]_decayVars  PROVE DecayInv'
  OBVIOUS
<1>1. CASE CheckDecay
  BY <1>1, CheckDecayKeeps
<1>2. CASE CleanUp
  BY <1>2, CleanUpKeeps
<1>3. ASSUME NEW kind \in FirstKinds, NEW duration \in {Type[kind].time} \cup Odd, Appear(kind, duration)
      PROVE  DecayInv'
  BY <1>3, AppearKeeps
<1>4. ASSUME NEW s \in Slot, Use(s)  PROVE DecayInv'
  BY <1>4, UseKeeps
<1>5. ASSUME NEW s \in Slot, TakeAway(s)  PROVE DecayInv'
  BY <1>5, TakeAwayKeeps
<1>6. CASE UNCHANGED decayVars
  <2>1. Work' = Work /\ lastBucket' = lastBucket /\ turns' = turns
    BY <1>6 DEF decayVars, Work
  <2>2. Sound(Work', lastBucket') /\ turns' \in Nat
    BY <2>1 DEF DecayInv
  <2>3. Sound(Work', lastBucket') <=> Sound(Work, lastBucket)'
    BY DEF Sound
  <2> QED BY <2>2, <2>3 DEF DecayInv
<1> QED BY <1>1, <1>2, <1>3, <1>4, <1>5, <1>6 DEF DecayNext

\* The invariant holds throughout.
THEOREM DecayIsSound == DecaySpec => []DecayInv
BY DecayStarts, DecayStays, PTL DEF DecaySpec

-----------------------------------------------------------------------------
(* What the invariant says of the items.                                   *)

\* Every bucket is looked at in a check to come.
LEMMA AheadIsAhead ==
  ASSUME NEW last \in AllBuckets, NEW b \in AllBuckets
  PROVE  AheadOf(last)[b] \in Nat /\ AheadOf(last)[b] >= 1
<1>1. AheadOf(last)[b] = ((b - last - 1) % 4) + 1
  BY DEF AheadOf, Buckets
<1>2. b - last - 1 \in Int
  BY DEF AllBuckets, Buckets
<1>3. (b - last - 1) % 4 \in 0..3
  BY <1>2
<1> QED BY <1>1, <1>3

\* The case of an item, in terms of the variables.
LEMMA CaseNow ==
  ASSUME DecayInv, NEW s \in Slot
  PROVE  LET v == CaseOf(Work, s)
         IN /\ v \in Cases /\ v.item = items[s] /\ v.wait = wait[s] /\ v.freed = Count(s, toRelease)
            /\ \A b \in AllBuckets : v.in[b] = Count(s, decayItems[b])
            /\ Entries(s) = Listings(v, 0)
            /\ Kept(v, AheadOf(lastBucket), 0) /\ Held(v) /\ lastBucket \in AllBuckets
<1> DEFINE v == CaseOf(Work, s)
<1>1. Work \in Works /\ Kept(v, AheadOf(lastBucket), 0) /\ Held(v) /\ lastBucket \in AllBuckets
  BY DEF DecayInv, Sound
<1>2. v \in Cases
  BY <1>1, CasesAre
<1>3. Entries(s) = Listings(v, 0)
  BY <1>1, EntriesAre
<1>4. /\ v.item = Work.items[s] /\ v.wait = Work.wait[s] /\ v.freed = Count(s, Work.toRelease)
      /\ v.in = Counts(s, Work.buckets)
  BY PartsOfCase
<1>5. v.item = items[s] /\ v.wait = wait[s] /\ v.freed = Count(s, toRelease) /\ v.in = Counts(s, decayItems)
  <2> HIDE DEF v
  <2> QED BY <1>4, WorkParts
<1>6. \A b \in AllBuckets : v.in[b] = Count(s, decayItems[b])
  <2> HIDE DEF v
  <2> QED BY <1>5 DEF Counts
<1> HIDE DEF v
<1> QED BY <1>1, <1>2, <1>3, <1>5, <1>6 DEF v

\* The references are those of the lists and of the world.
LEMMA NoneDangles == DecayInv => NoDanglingEntry
<1> SUFFICES ASSUME DecayInv, NEW s \in Slot
             PROVE  /\ items[s].refs = Entries(s) + Count(s, toRelease) + (IF items[s].here THEN 1 ELSE 0)
                    /\ items[s].decaying => Entries(s) > 0
  BY DEF NoDanglingEntry
<1> DEFINE v == CaseOf(Work, s)
<1>1. /\ v.item = items[s] /\ v.freed = Count(s, toRelease) /\ Entries(s) = Listings(v, 0)
      /\ Kept(v, AheadOf(lastBucket), 0) /\ Held(v)
  BY CaseNow
<1> HIDE DEF v
<1> QED BY <1>1 DEF Kept, Held

\* An entry that comes in time is not late yet.
LEMMA AllInTime == DecayInv => DecaysInTime
<1> SUFFICES ASSUME DecayInv, NEW s \in Slot, items[s].decaying, CanDecay(items[s])
             PROVE  wait[s].since * Interval <= wait[s].left + Interval
  BY DEF DecaysInTime
<1> DEFINE v == CaseOf(Work, s)
           ahead == AheadOf(lastBucket)
           n == v.wait.since
           left == v.wait.left
           d == v.item.duration
<1>1. /\ v \in Cases /\ v.item = items[s] /\ v.wait = wait[s] /\ Kept(v, ahead, 0) /\ lastBucket \in AllBuckets
  BY CaseNow
<1> HIDE DEF v, ahead
<1>2. v.item.here /\ Type[v.item.kind].time > 0 /\ v.item.decaying
  BY <1>1 DEF CanDecay, Decays
<1>3. d > 0 /\ Soon(v, ahead, 0)
  BY <1>1, <1>2 DEF Kept
<1>4. n \in Nat /\ left \in Nat /\ d \in Nat
  BY <1>1, CaseIs
<1>5. n * 250 <= left + 250
  <2>1. CASE n = 0
    BY <1>4, <2>1
  <2>2. CASE \E b \in AllBuckets : v.in[b] > 0 /\ InTime(v, ahead[b])
    <3>1. PICK b \in AllBuckets : InTime(v, ahead[b])
      BY <2>2
    <3> DEFINE a == ahead[b]
    <3>2. a \in Nat /\ a >= 1
      BY <1>1, AheadIsAhead DEF ahead
    <3>3. (n + a) * 250 <= left - d + 250 + (IF d >= 1000 THEN 1000 ELSE 250)
      BY <3>1 DEF InTime, Slack, Round, Interval, Buckets
    <3> HIDE DEF n, left, d, a
    <3>4. n * 250 + 250 <= (n + a) * 250
      BY <1>4, <3>2
    <3>5. n * 250 \in Nat /\ (n + a) * 250 \in Nat
      BY <1>4, <3>2
    <3>6. CASE d >= 1000
      BY <1>4, <3>3, <3>4, <3>5, <3>6
    <3>7. CASE ~(d >= 1000)
      <4>1. (n + a) * 250 <= left - d + 500
        BY <1>4, <3>3, <3>7
      <4> QED BY <1>3, <1>4, <3>4, <3>5, <4>1 DEF d
    <3> QED BY <3>6, <3>7
  <2>3. ~(0 > 0)
    OBVIOUS
  <2> QED BY <1>3, <2>1, <2>2, <2>3 DEF Soon
<1> QED BY <1>1, <1>5 DEF Interval

\* Every entry of a list holds a reference, and no item outlives its duration: game.cpp
\* startDecay, checkDecay, cleanup and internalRemoveItem.
THEOREM DecayIsKept == DecaySpec => []DecayKept
<1>1. DecayInv => DecayKept
  BY NoneDangles, AllInTime DEF DecayKept
<1> QED BY <1>1, DecayIsSound, PTL

\* An item in the world that can decay has something left of its duration, so that
\* game.cpp startDecay never has to decay one at once.
THEOREM TimeIsLeft == DecaySpec => [](\A s \in Slot : CanDecay(items[s]) => items[s].duration > 0)
<1> DEFINE SomeLeft == \A s \in Slot : CanDecay(items[s]) => items[s].duration > 0
<1>1. DecayInv => SomeLeft
  <2> SUFFICES ASSUME DecayInv, NEW s \in Slot, CanDecay(items[s])  PROVE items[s].duration > 0
    OBVIOUS
  <2> DEFINE v == CaseOf(Work, s)
  <2>1. v.item = items[s] /\ Kept(v, AheadOf(lastBucket), 0)
    BY CaseNow
  <2> HIDE DEF v
  <2>2. v.item.here /\ Type[v.item.kind].time > 0
    BY <2>1 DEF CanDecay, Decays
  <2> QED BY <2>1, <2>2 DEF Kept
<1> HIDE DEF SomeLeft
<1>2. DecaySpec => []SomeLeft
  BY <1>1, DecayIsSound, PTL
<1> QED BY <1>2 DEF SomeLeft

\* A step that would be more than a second too early.
TooEarly(s) ==
  /\ items[s].decaying /\ CanDecay(items[s]) /\ ~wait[s].twice
  /\ items'[s].kind # items[s].kind /\ turns' = turns
  /\ ~((wait[s].since + 1) * Interval > wait[s].left - 1000)

\* What is in the world is not freed.
LEMMA HereIsNotFreed ==
  ASSUME NEW w \in Works, NEW s \in Slot, NEW ahead, Kept(CaseOf(w, s), ahead, 0), w.items[s].here,
         NEW its, its = FreeReleased(w.items, w.toRelease)
  PROVE  its[s].kind = w.items[s].kind
<1> DEFINE v == CaseOf(w, s)
<1>1. v \in Cases /\ v.item = w.items[s] /\ v.freed = Count(s, w.toRelease) /\ Kept(v, ahead, 0)
  BY CasesAre, PartsOfCase
<1> HIDE DEF v
<1>2. v.freed \in Nat /\ v.item.refs \in Nat /\ Listings(v, 0) \in Nat /\ v.item \in ItemStates
  BY <1>1, CaseIs, ListingsAre
<1>3. v.item.refs = Listings(v, 0) + v.freed + 1
  BY <1>1 DEF Kept
<1>4. v.item.refs - v.freed # 0
  BY <1>2, <1>3
<1>5. its[s] = [w.items[s] EXCEPT !.refs = w.items[s].refs - Count(s, w.toRelease)]
  BY <1>1, <1>4 DEF FreeReleased
<1> QED BY <1>1, <1>2, <1>5 DEF ItemStates

\* No visit ends an item that has a second to go.
LEMMA EarlyIsSteady ==
  ASSUME DecayInv, NEW s \in Slot, TooEarly(s), NEW bucket, bucket = (lastBucket + 1) % Buckets,
         NEW list, list = decayItems[bucket]
  PROVE  Steady(items, list, s)
<1> DEFINE v == CaseOf(Work, s)
           ahead == AheadOf(lastBucket)
           n == v.wait.since
           left == v.wait.left
           d == v.item.duration
<1>1. /\ v \in Cases /\ v.item = items[s] /\ v.wait = wait[s] /\ Kept(v, ahead, 0) /\ lastBucket \in AllBuckets
      /\ \A b \in AllBuckets : v.in[b] = Count(s, decayItems[b])
  BY CaseNow
<1> HIDE DEF v
<1>2. bucket \in AllBuckets /\ ahead[bucket] = 1
  BY <1>1, AheadIs
<1>3. /\ v.item.here /\ v.item.decaying /\ CanDecay(v.item) /\ ~v.wait.twice
      /\ ~((n + 1) * Interval > left - 1000)
  BY <1>1 DEF TooEarly, CanDecay
<1>4. n \in Nat /\ left \in Nat /\ d \in Nat
  BY <1>1, CaseIs
<1>5. v.item.kind # NoKind
  BY <1>1, <1>3 DEF Kept, Free
<1>6. Listings(v, 0) <= 1 /\ Late(v, ahead, 0)
  BY <1>1, <1>3 DEF Kept
<1>7. v.in[bucket] = Count(s, list) /\ v.in[bucket] \in Nat
  BY <1>1, <1>2, CaseIs
<1>8. v.in[bucket] <= 1
  <2>1. v.in[bucket] <= Listings(v, 0) /\ Listings(v, 0) \in Nat
    BY <1>1, <1>2, ListingsAre
  <2> QED BY <1>6, <1>7, <2>1
<1>9. v.in[bucket] > 0 => d >= 2 * Round
  <2> SUFFICES ASSUME v.in[bucket] > 0  PROVE d >= 2 * Round
    OBVIOUS
  <2>1. NotEarly(v, 1)
    BY <1>2, <1>6 DEF Late
  <2>2. (n + 1) * 250 >= left - d + (IF d >= 1000 THEN 1000 ELSE 250)
    BY <2>1 DEF NotEarly, Slack, Round, Interval, Buckets
  <2>3. ~((n + 1) * 250 > left - 1000)
    BY <1>3 DEF Interval
  <2> HIDE DEF n, left, d
  <2>4. d >= 2000
    <3>1. (n + 1) * 250 \in Nat
      BY <1>4
    <3>2. CASE d >= 1000
      BY <1>4, <2>2, <2>3, <3>1, <3>2
    <3>3. CASE ~(d >= 1000)
      BY <1>4, <2>2, <2>3, <3>1, <3>3
    <3> QED BY <3>2, <3>3
  <2> QED BY <2>4 DEF Round, Interval, Buckets
<1> QED BY <1>1, <1>3, <1>5, <1>7, <1>8, <1>9 DEF Steady

\* No step is more than a second too early.
LEMMA NoneTooEarly ==
  ASSUME DecayInv, [DecayNext]_decayVars, NEW s \in Slot
  PROVE  ~TooEarly(s)
<1> SUFFICES ASSUME TooEarly(s)  PROVE FALSE
  OBVIOUS
<1>1. /\ items[s].here /\ items'[s].kind # items[s].kind /\ turns' = turns /\ turns \in Nat
      /\ Work.items = items /\ Work.toRelease = toRelease /\ Work \in Works
      /\ Kept(CaseOf(Work, s), AheadOf(lastBucket), 0)
  BY WorkParts DEF TooEarly, CanDecay, DecayInv, Sound
<1>2. CASE UNCHANGED decayVars
  BY <1>1, <1>2 DEF decayVars
<1>3. CASE CleanUp
  <2>1. items' = FreeReleased(Work.items, Work.toRelease)
    BY <1>1, <1>3 DEF CleanUp
  <2>2. items'[s].kind = Work.items[s].kind
    BY <1>1, <2>1, HereIsNotFreed
  <2> QED BY <1>1, <2>2
<1>4. CASE CheckDecay
  <2> DEFINE bucket == (lastBucket + 1) % Buckets
             list == decayItems[bucket]
             w == AfterWalk(bucket)
             its == items'
  <2>0. bucket = (lastBucket + 1) % Buckets /\ list = decayItems[bucket] /\ w = AfterWalk(bucket)
    OBVIOUS
  <2>1. its = FreeReleased(w.items, w.toRelease)
    BY <1>4 DEF CheckDecay
  <2> HIDE DEF bucket, list, w, its
  <2>2. Steady(items, list, s)
    BY <2>0, EarlyIsSteady
  <2>3. WalkDone(w, list, bucket)
    BY <1>4, <2>0, CheckWalks
  <2>4. /\ w \in Works /\ Kept(CaseOf(w, s), WalkAhead(bucket), 0)
        /\ w.items[s].kind = items[s].kind /\ w.items[s].here
    BY <1>1, <2>2, <2>3 DEF WalkDone
  <2>5. its[s].kind = w.items[s].kind
    BY <2>1, <2>4, HereIsNotFreed
  <2> QED BY <1>1, <2>4, <2>5 DEF its
<1>5. ASSUME Turn  PROVE FALSE
  BY <1>1, <1>5 DEF Turn
<1>6. ASSUME NEW kind \in FirstKinds, NEW duration \in {Type[kind].time} \cup Odd, Appear(kind, duration)
      PROVE  FALSE
  BY <1>5, <1>6 DEF Appear
<1>7. ASSUME NEW x \in Slot, Use(x)  PROVE FALSE
  BY <1>5, <1>7 DEF Use
<1>8. ASSUME NEW x \in Slot, TakeAway(x)  PROVE FALSE
  BY <1>5, <1>8 DEF TakeAway
<1> QED BY <1>2, <1>3, <1>4, <1>6, <1>7, <1>8 DEF DecayNext

\* An item that was listed once goes less than a second too early, whichever buckets it
\* came through: game.cpp checkDecay and cleanup.
THEOREM DecayIsNotTooEarly == DecaySpec => NotTooEarly
<1> DEFINE InDue ==
             \A s \in Slot :
               items[s].decaying /\ CanDecay(items[s]) /\ ~wait[s].twice
                 /\ items'[s].kind # items[s].kind /\ turns' = turns
               => (wait[s].since + 1) * Interval > wait[s].left - 1000
<1>1. DecayInv /\ [DecayNext]_decayVars => [InDue]_decayVars
  <2> SUFFICES ASSUME DecayInv, [DecayNext]_decayVars  PROVE InDue
    OBVIOUS
  <2>1. \A s \in Slot : ~TooEarly(s)
    BY NoneTooEarly
  <2> QED BY <2>1 DEF TooEarly
<1>2. [][InDue]_decayVars <=> NotTooEarly
  BY DEF NotTooEarly
<1> HIDE DEF InDue
<1>3. DecaySpec => [][InDue]_decayVars
  BY <1>1, DecayIsSound, PTL DEF DecaySpec
<1> QED BY <1>2, <1>3
=============================================================================
