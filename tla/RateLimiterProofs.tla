------------------------- MODULE RateLimiterProofs -------------------------
(***************************************************************************)
(* The rate limit holds for every maximum, window, clock and number of     *)
(* calls, although allow() remembers only the calls it has not evicted.    *)
(*                                                                         *)
(* Before it, facts about the operators the limiter and the group are      *)
(* built from that the library does not state: the least element of a set  *)
(* of numbers, where a scan stops, and a sequence cut in two.              *)
(***************************************************************************)
EXTENDS RateLimiter, Functions, FiniteSetTheorems, SequenceTheorems,
        WellFoundedInduction, TLAPS

(* The naturals are well founded, with the relation as a constant.         *)
LEMMA NaturalsWellFounded ==
  \E R : IsWellFoundedOn(R, Nat) /\ \A x, y \in Nat : y < x => <<y, x>> \in R
<1> DEFINE R == OpToRel(<, Nat)
<1>1. IsWellFoundedOn(R, Nat)
  BY Zenon, NatLessThanWellFounded
<1>2. \A x, y \in Nat : y < x => <<y, x>> \in R
  BY DEF OpToRel
<1> HIDE DEF R
<1> QED
  BY <1>1, <1>2, Zenon

(* Min returns a member of a non-empty set of naturals, and its least one. *)
LEMMA MinOfNaturals ==
  ASSUME NEW S \in SUBSET Nat, S # {}
  PROVE  Min(S) \in S /\ \A x \in S : Min(S) <= x
<1>1. PICK R : IsWellFoundedOn(R, Nat) /\ \A x, y \in Nat : y < x => <<y, x>> \in R
  BY NaturalsWellFounded
<1>2. PICK x \in S : \A y \in S : ~(<<y, x>> \in R)
  BY Zenon, <1>1, WFMin
<1>3. \A y \in S : ~(y < x)
  BY <1>1, <1>2, Zenon
<1>4. \A y \in S : x <= y
  BY <1>3
<1> QED
  BY Zenon, <1>4 DEF Min

(* A scan of the first n places always stops within them.                  *)
LEMMA ScanStops ==
  ASSUME NEW n \in Nat, NEW T \in SUBSET (0..n), n \in T
  PROVE  Min(T) \in 0..n /\ Min(T) \in T
<1>1. T \in SUBSET Nat /\ T # {}
  OBVIOUS
<1> QED
  BY Zenon, <1>1, MinOfNaturals

(* A sequence cut in two after its first k places.                         *)
LEMMA CutSequence ==
  ASSUME NEW S, NEW s \in Seq(S), NEW k \in 0..Len(s)
  PROVE  /\ SubSeq(s, 1, k) \in Seq(S)
         /\ Len(SubSeq(s, 1, k)) = k
         /\ \A i \in 1..k : SubSeq(s, 1, k)[i] = s[i]
         /\ SubSeq(s, k + 1, Len(s)) \in Seq(S)
         /\ Len(SubSeq(s, k + 1, Len(s))) = Len(s) - k
         /\ \A i \in 1..(Len(s) - k) : SubSeq(s, k + 1, Len(s))[i] = s[k + i]
<1>1. Len(s) \in Nat /\ \A i \in 1..Len(s) : s[i] \in S
  BY LenProperties, ElementOfSeq
<1>2. \A i \in 1..k : s[i] \in S
  BY <1>1
<1>3. \A i \in (k + 1)..Len(s) : s[i] \in S
  BY <1>1
<1>4. /\ SubSeq(s, 1, k) \in Seq(S)
      /\ Len(SubSeq(s, 1, k)) = k
      /\ \A i \in 1..k : SubSeq(s, 1, k)[i] = s[i]
  BY <1>1, <1>2, SubSeqProperties
<1>5. /\ SubSeq(s, k + 1, Len(s)) \in Seq(S)
      /\ Len(SubSeq(s, k + 1, Len(s))) = Len(s) - k
      /\ \A i \in 1..(Len(s) - k) : SubSeq(s, k + 1, Len(s))[i] = s[k + i]
  <2>1. k + 1 \in Int /\ Len(s) \in Int
    BY <1>1
  <2>2. /\ SubSeq(s, k + 1, Len(s)) \in Seq(S)
        /\ Len(SubSeq(s, k + 1, Len(s)))
             = IF k + 1 <= Len(s) THEN Len(s) - (k + 1) + 1 ELSE 0
        /\ \A i \in 1..(Len(s) - (k + 1) + 1) :
             SubSeq(s, k + 1, Len(s))[i] = s[(k + 1) + i - 1]
    BY <2>1, <1>3, SubSeqProperties
  <2> QED
    BY <2>2, <1>1
<1> QED
  BY <1>4, <1>5

(* What a sequence holds is what its two parts hold.                       *)
LEMMA CutRange ==
  ASSUME NEW S, NEW s \in Seq(S), NEW k \in 0..Len(s)
  PROVE  Range(s) = Range(SubSeq(s, 1, k)) \cup Range(SubSeq(s, k + 1, Len(s)))
<1> DEFINE a == SubSeq(s, 1, k)
           b == SubSeq(s, k + 1, Len(s))
<1>1. /\ a \in Seq(S) /\ Len(a) = k /\ \A i \in 1..k : a[i] = s[i]
      /\ b \in Seq(S) /\ Len(b) = Len(s) - k
      /\ \A i \in 1..(Len(s) - k) : b[i] = s[k + i]
  BY CutSequence
<1>2. Len(s) \in Nat
  BY LenProperties
<1>3. /\ Range(s) = {s[i] : i \in 1..Len(s)}
      /\ Range(a) = {a[i] : i \in 1..Len(a)}
      /\ Range(b) = {b[i] : i \in 1..Len(b)}
  <2>1. Range(s) = {s[i] : i \in 1..Len(s)}
    BY Zenon, RangeEquality
  <2> HIDE DEF a, b
  <2>2. a \in Seq(S) /\ b \in Seq(S)
    BY <1>1
  <2>3. Range(a) = {a[i] : i \in 1..Len(a)}
    BY Zenon, <2>2, RangeEquality
  <2>4. Range(b) = {b[i] : i \in 1..Len(b)}
    BY Zenon, <2>2, RangeEquality
  <2> QED
    BY Zenon, <2>1, <2>3, <2>4
<1> HIDE DEF a, b
<1>4. ASSUME NEW i \in 1..Len(s)
      PROVE  s[i] \in Range(a) \cup Range(b)
  <2>1. CASE i <= k
    BY <2>1, <1>1, <1>3
  <2>2. CASE i > k
    <3>1. i - k \in 1..(Len(s) - k) /\ b[i - k] = s[i]
      BY <2>2, <1>1, <1>2
    <3> QED
      BY <3>1, <1>1, <1>3
  <2> QED
    BY <2>1, <2>2
<1>5. \A i \in 1..Len(a) : a[i] \in Range(s)
  BY <1>1, <1>2, <1>3
<1>6. \A i \in 1..Len(b) : b[i] \in Range(s)
  BY <1>1, <1>2, <1>3
<1> QED
  BY <1>3, <1>4, <1>5, <1>6 DEF a, b

(* The larger of two integers.                                             *)
LEMMA LargerOfTwo ==
  ASSUME NEW a \in Int, NEW b \in Int
  PROVE  Max({a, b}) = IF a >= b THEN a ELSE b
<1>1. \E y \in {a, b} : \A x \in {a, b} : y >= x
  OBVIOUS
<1>2. Max({a, b}) \in {a, b} /\ \A x \in {a, b} : Max({a, b}) >= x
  BY <1>1 DEF Max
<1> QED
  BY <1>2

(* A non-empty finite set of integers has a least element: one with the    *)
(* fewest elements below it.                                               *)
LEMMA LeastOfIntegers ==
  ASSUME NEW S \in SUBSET Int, IsFiniteSet(S), S # {}
  PROVE  \E x \in S : \A y \in S : x <= y
<1> DEFINE Below(x) == {y \in S : y < x}
           N == {Cardinality(Below(x)) : x \in S}
<1>1. \A x \in S : IsFiniteSet(Below(x)) /\ Cardinality(Below(x)) \in Nat
  <2> TAKE x \in S
  <2>1. Below(x) \in SUBSET S
    OBVIOUS
  <2>2. IsFiniteSet(Below(x))
    BY <2>1, FS_Subset
  <2> QED
    BY <2>2, FS_CardinalityType
<1>2. N \in SUBSET Nat /\ N # {}
  BY Zenon, <1>1
<1>3. Min(N) \in N /\ \A k \in N : Min(N) <= k
  <2> HIDE DEF N
  <2> QED
    BY <1>2, MinOfNaturals
<1>4. PICK x \in S : \A y \in S : Cardinality(Below(x)) <= Cardinality(Below(y))
  BY Zenon, <1>3
<1>5. ASSUME NEW y \in S, ~(x <= y)
      PROVE  FALSE
  <2>1. Below(y) \in SUBSET Below(x) /\ y \in Below(x) /\ y \notin Below(y)
    <3>1. x \in Int /\ y \in Int /\ y < x /\ ~(y < y)
      BY <1>5
    <3>2. \A z \in S : z < y => z < x
      <4> TAKE z \in S
      <4>1. z \in Int
        OBVIOUS
      <4> QED
        BY <3>1, <4>1
    <3> QED
      BY Zenon, <3>1, <3>2
  <2>2. /\ Cardinality(Below(y)) <= Cardinality(Below(x))
        /\ Cardinality(Below(x)) = Cardinality(Below(y)) => Below(x) = Below(y)
    <3> HIDE DEF Below
    <3> QED
      BY <1>1, <2>1, FS_Subset
  <2>3. Cardinality(Below(x)) <= Cardinality(Below(y))
    BY <1>4
  <2>4. Cardinality(Below(x)) \in Nat /\ Cardinality(Below(y)) \in Nat
    BY <1>1
  <2> HIDE DEF Below
  <2> QED
    BY <2>1, <2>2, <2>3, <2>4
<1> QED
  BY <1>5

-----------------------------------------------------------------------------
(* The limiter remembers the last of the admitted calls; each of those it  *)
(* has forgotten is older than the window.                                 *)
Remembers(mem, all, t) ==
  /\ mem \in Seq(Int) /\ all \in Seq(Int) /\ Len(mem) <= Len(all)
  /\ \A i \in 1..Len(mem) : mem[i] = all[(Len(all) - Len(mem)) + i]
  /\ \A i \in 1..(Len(all) - Len(mem)) : all[i] < t - RateWindow

LimiterInv == clock \in Int /\ Remembers(events, granted, clock) /\ WindowRespected

-----------------------------------------------------------------------------
(* The eviction drops only events before the cutoff.                       *)
LEMMA EvictDropsOld ==
  ASSUME NEW mem \in Seq(Int), NEW t \in Int
  PROVE  \E k \in 0..Len(mem) :
           /\ Evict(mem, t) \in Seq(Int) /\ Len(Evict(mem, t)) = Len(mem) - k
           /\ \A i \in 1..(Len(mem) - k) : Evict(mem, t)[i] = mem[k + i]
           /\ \A i \in 1..k : mem[i] < t - RateWindow
<1> DEFINE T == {i \in 0..Len(mem) : i = Len(mem) \/ mem[i + 1] >= t - RateWindow}
           k == Stale(mem, t)
<1>1. Len(mem) \in Nat /\ \A i \in 1..Len(mem) : mem[i] \in Int
  BY LenProperties, ElementOfSeq
<1>2. T \in SUBSET Nat /\ T # {} /\ T \subseteq 0..Len(mem)
  BY <1>1
<1>3. k = Min(T)
  BY DEF Stale
<1>4. k \in T /\ \A x \in T : k <= x
  <2> HIDE DEF T, k
  <2> QED  BY <1>2, <1>3, MinOfNaturals, Zenon
<1>5. k \in 0..Len(mem)
  BY <1>2, <1>4
<1>6. ASSUME NEW i \in 1..k  PROVE mem[i] < t - RateWindow
  <2>1. i - 1 \in 0..Len(mem) /\ i - 1 < k /\ i \in 1..Len(mem) /\ (i - 1) + 1 = i
    BY <1>1, <1>5, <1>6
  <2>2. i - 1 \notin T
    BY SMTT(30), <1>4, <1>5, <2>1
  <2> QED  BY <1>1, <2>1, <2>2, RateAssumption
<1>7. /\ Evict(mem, t) \in Seq(Int) /\ Len(Evict(mem, t)) = Len(mem) - k
      /\ \A i \in 1..(Len(mem) - k) : Evict(mem, t)[i] = mem[k + i]
  <2>1. Stale(mem, t) \in 0..Len(mem)
    BY <1>5
  <2> QED  BY ZenonT(60), <2>1, CutSequence DEF Evict
<1> HIDE DEF k, T
<1> QED  BY Zenon, <1>5, <1>6, <1>7

(* An eviction forgets nothing the window still covers.                    *)
LEMMA EvictRemembers ==
  ASSUME NEW mem, NEW all, NEW t \in Int, Remembers(mem, all, t)
  PROVE  Remembers(Evict(mem, t), all, t)
<1>1. mem \in Seq(Int) /\ all \in Seq(Int) /\ Len(mem) \in Nat /\ Len(all) \in Nat
  BY LenProperties DEF Remembers
<1>2. PICK k \in 0..Len(mem) :
           /\ Evict(mem, t) \in Seq(Int) /\ Len(Evict(mem, t)) = Len(mem) - k
           /\ \A i \in 1..(Len(mem) - k) : Evict(mem, t)[i] = mem[k + i]
           /\ \A i \in 1..k : mem[i] < t - RateWindow
  BY Zenon, <1>1, EvictDropsOld
<1>3. ASSUME NEW i \in 1..Len(Evict(mem, t))
      PROVE  Evict(mem, t)[i] = all[(Len(all) - Len(Evict(mem, t))) + i]
  <2>1. k + i \in 1..Len(mem) /\ Evict(mem, t)[i] = mem[k + i]
    BY <1>1, <1>2
  <2>2. mem[k + i] = all[(Len(all) - Len(mem)) + (k + i)]
    BY <2>1 DEF Remembers
  <2>3. (Len(all) - Len(mem)) + (k + i) = (Len(all) - Len(Evict(mem, t))) + i
    BY <1>1, <1>2
  <2> QED  BY <2>1, <2>2, <2>3
<1>4. ASSUME NEW i \in 1..(Len(all) - Len(Evict(mem, t)))  PROVE all[i] < t - RateWindow
  <2>1. CASE i <= Len(all) - Len(mem)
    BY <1>1, <2>1 DEF Remembers
  <2>2. CASE i > Len(all) - Len(mem)
    <3> DEFINE j == i - (Len(all) - Len(mem))
    <3>0. /\ Len(Evict(mem, t)) = Len(mem) - k /\ Len(mem) <= Len(all)
          /\ Len(mem) \in Nat /\ Len(all) \in Nat
      BY <1>1, <1>2 DEF Remembers
    <3>1. j \in 1..k /\ j \in 1..Len(mem) /\ (Len(all) - Len(mem)) + j = i
      BY <2>2, <3>0
    <3> HIDE DEF j
    <3>2. mem[j] = all[i] /\ mem[j] < t - RateWindow
      BY Zenon, <1>2, <3>1 DEF Remembers
    <3> QED  BY <3>2
  <2> QED  BY <1>1, <1>2, <2>1, <2>2
<1>5. Len(Evict(mem, t)) <= Len(all) /\ Evict(mem, t) \in Seq(Int)
  BY <1>1, <1>2 DEF Remembers
<1> QED  BY <1>1, <1>3, <1>4, <1>5 DEF Remembers

-----------------------------------------------------------------------------
LEMMA GrantSound == ASSUME LimiterInv, Grant  PROVE LimiterInv'
<1> DEFINE ev == Evict(events, clock)
<1>1. clock \in Int /\ Remembers(ev, granted, clock)
  BY EvictRemembers DEF LimiterInv
<1>2. /\ ev \in Seq(Int) /\ granted \in Seq(Int) /\ Len(ev) \in Nat /\ Len(granted) \in Nat
      /\ Len(ev) <= Len(granted)
  BY <1>1, LenProperties DEF Remembers
<1>3. Len(ev) < RateMax
  <2>1. RateMax - Len(ev) > 0
    BY DEF Grant, Room
  <2> QED  BY <1>2, <2>1, RateAssumption
<1>4. granted' = Append(granted, clock) /\ clock' = clock /\ events' = ev \o [i \in 1..1 |-> clock]
  BY DEF Grant, Admit
<1> HIDE DEF ev
<1>5. events' = Append(ev, clock)
  <2>1. [i \in 1..1 |-> clock] = <<clock>>
    BY SMT
  <2> QED  BY <1>2, <1>4, <2>1, AppendIsConcat
<1>6. /\ granted' \in Seq(Int) /\ Len(granted') = Len(granted) + 1 /\ granted'[Len(granted) + 1] = clock
      /\ \A i \in 1..Len(granted) : granted'[i] = granted[i]
      /\ events' \in Seq(Int) /\ Len(events') = Len(ev) + 1 /\ events'[Len(ev) + 1] = clock
      /\ \A i \in 1..Len(ev) : events'[i] = ev[i]
  BY <1>1, <1>2, <1>4, <1>5, AppendProperties
<1>7. Remembers(events', granted', clock')
  <2>1. ASSUME NEW i \in 1..Len(events')
        PROVE  events'[i] = granted'[(Len(granted') - Len(events')) + i]
    <3>1. CASE i <= Len(ev)
      <4>1. /\ i \in 1..Len(ev) /\ (Len(granted) - Len(ev)) + i \in 1..Len(granted)
            /\ (Len(granted') - Len(events')) + i = (Len(granted) - Len(ev)) + i
        BY <1>2, <1>6, <3>1
      <4> QED  BY Zenon, <1>1, <1>6, <4>1 DEF Remembers
    <3>2. CASE i = Len(ev) + 1
      <4>1. (Len(granted') - Len(events')) + i = Len(granted) + 1
        BY <1>2, <1>6, <3>2
      <4> QED  BY <1>6, <3>2, <4>1
    <3> QED  BY <1>2, <1>6, <3>1, <3>2
  <2>2. ASSUME NEW i \in 1..(Len(granted') - Len(events'))
        PROVE  granted'[i] < clock' - RateWindow
    <3>1. i \in 1..(Len(granted) - Len(ev)) /\ i \in 1..Len(granted)
      <4>1. Len(granted') = Len(granted) + 1 /\ Len(events') = Len(ev) + 1
        BY <1>6
      <4>2. /\ Len(granted) \in Nat /\ Len(ev) \in Nat
            /\ i \in 1..((Len(granted) + 1) - (Len(ev) + 1))
        BY <1>2, <4>1
      <4> QED  BY <4>2
    <3> QED  BY <1>1, <1>4, <1>6, <3>1 DEF Remembers
  <2> QED  BY <1>2, <1>6, <2>1, <2>2 DEF Remembers
<1>8. WindowRespected'
  <2> SUFFICES ASSUME NEW i \in 1..(Len(granted') - RateMax)
               PROVE  granted'[i + RateMax] > granted'[i] + RateWindow
    BY DEF WindowRespected
  <2>1. CASE i <= Len(granted) - RateMax
    <3>1. i \in 1..(Len(granted) - RateMax) /\ i \in 1..Len(granted) /\ i + RateMax \in 1..Len(granted)
      BY <1>2, <2>1, RateAssumption
    <3>2. granted[i + RateMax] > granted[i] + RateWindow
      BY <3>1 DEF LimiterInv, WindowRespected
    <3> QED  BY SMTT(30), <1>6, <3>1, <3>2
  <2>2. CASE i > Len(granted) - RateMax
    <3>1. i + RateMax = Len(granted) + 1 /\ i \in 1..(Len(granted) - Len(ev)) /\ i \in 1..Len(granted)
      <4>1. /\ Len(granted') = Len(granted) + 1 /\ Len(ev) <= Len(granted)
            /\ Len(ev) \in Nat /\ Len(granted) \in Nat
        BY <1>2, <1>6
      <4> QED  BY <1>3, <2>2, <4>1, RateAssumption
    <3>2. granted[i] < clock - RateWindow /\ granted[i] \in Int
      BY <1>1, <1>2, <3>1, ElementOfSeq DEF Remembers
    <3>3. granted'[i + RateMax] = clock /\ granted'[i] = granted[i]
      BY SMTT(30), <1>6, <3>1
    <3> QED  BY <1>1, <3>2, <3>3, RateAssumption
  <2> QED  BY <1>2, <2>1, <2>2, RateAssumption
<1>9. clock' \in Int
  BY <1>1, <1>4
<1> QED  BY <1>7, <1>8, <1>9 DEF LimiterInv

LEMMA RefuseSound == ASSUME LimiterInv, Refuse  PROVE LimiterInv'
<1>1. events' = Evict(events, clock) /\ clock' = clock /\ granted' = granted
  BY DEF Refuse
<1>2. Remembers(Evict(events, clock), granted, clock)
  BY EvictRemembers DEF LimiterInv
<1> QED  BY <1>1, <1>2 DEF LimiterInv, WindowRespected

LEMMA TickSound == ASSUME LimiterInv, LimiterTick  PROVE LimiterInv'
<1>1. clock' = clock + 1 /\ events' = events /\ granted' = granted
  BY DEF LimiterTick
<1>2. clock \in Int /\ granted \in Seq(Int) /\ events \in Seq(Int) /\ Len(events) \in Nat /\ Len(granted) \in Nat
  BY LenProperties DEF LimiterInv, Remembers
<1>3. ASSUME NEW i \in 1..(Len(granted) - Len(events))  PROVE granted[i] < clock' - RateWindow
  <2>1. granted[i] < clock - RateWindow /\ granted[i] \in Int
    BY <1>2, ElementOfSeq DEF LimiterInv, Remembers
  <2> QED  BY <1>1, <1>2, <2>1, RateAssumption
<1>4. Remembers(events', granted', clock')
  BY <1>1, <1>3 DEF LimiterInv, Remembers
<1> QED  BY <1>1, <1>2, <1>4 DEF LimiterInv, WindowRespected

(* Of any RateMax + 1 calls that allow() admits, the first and the last    *)
(* are more than a window apart, whenever it is called and whatever it has *)
(* evicted meanwhile.                                                      *)
THEOREM LimitHolds == LimiterSpec => []WindowRespected
<1>1. LimiterInit => LimiterInv
  BY RateAssumption, EmptySeq DEF LimiterInit, LimiterInv, Remembers, WindowRespected
<1>2. LimiterInv /\ [LimiterNext]_limiterVars => LimiterInv'
  <2> SUFFICES ASSUME LimiterInv, [LimiterNext]_limiterVars  PROVE LimiterInv'
    OBVIOUS
  <2>1. CASE UNCHANGED limiterVars
    BY <2>1 DEF limiterVars, LimiterInv, WindowRespected
  <2> QED  BY <2>1, GrantSound, RefuseSound, TickSound DEF LimiterNext
<1>3. LimiterInv => WindowRespected
  BY DEF LimiterInv
<1> QED  BY <1>1, <1>2, <1>3, PTL DEF LimiterSpec
=============================================================================
