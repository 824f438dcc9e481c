------------------------ MODULE ConsumerGroupProofs ------------------------
(***************************************************************************)
(* The safety of a consumer group, for every set of messages, every set of *)
(* configurations, every retry delay and every limiter.                    *)
(*                                                                         *)
(* OnePlace alone is not inductive: Publish puts a message in ready, and   *)
(* that it is nowhere else follows from Conservation (what is held was     *)
(* published before).  Conservation alone is not either: that completing   *)
(* a message removes it from the group needs OnePlace.  Hence IInv.        *)
(***************************************************************************)
EXTENDS ConsumerGroup, RateLimiterProofs

(***************************************************************************)
(* The operations of the module Group.  What they preserve, for every set  *)
(* of messages and every configuration: the group stays well formed, no    *)
(* message is ever in two places, and only complete and fail take one out. *)
(***************************************************************************)

Slots == Seq(Ids \cup {Nil})

(* h is a sound group with the messages of the group g.                    *)
Rearranges(g, h) ==
  /\ h \in GroupType /\ WellPlaced(h)
  /\ Held(h) = Held(g)
  /\ h.cfg = g.cfg /\ h.attempts = g.attempts

(* Moreover, all that happened is that messages of ready and urgent went   *)
(* to processing.                                                          *)
HandsOut(g, h) ==
  /\ Rearranges(g, h)
  /\ h.delayed = g.delayed
  /\ g.processing \subseteq h.processing
  /\ \A m \in g.processing \cup g.delayed : h.at[m] = g.at[m]

-----------------------------------------------------------------------------
(* Sequences of slots.                                                     *)

(* Appending slots that hold other messages repeats none.                  *)
LEMMA SlotsConcat ==
  ASSUME NEW s \in Slots, NEW t \in Slots, NoRepeat(s), NoRepeat(t),
         Live(s) \cap Live(t) = {}
  PROVE  /\ s \o t \in Slots
         /\ NoRepeat(s \o t)
         /\ Live(s \o t) = Live(s) \cup Live(t)
<1> DEFINE c == s \o t
<1>1. /\ c \in Slots
      /\ Len(c) = Len(s) + Len(t)
      /\ \A i \in 1..(Len(s) + Len(t)) :
           c[i] = IF i <= Len(s) THEN s[i] ELSE t[i - Len(s)]
  BY ConcatProperties DEF Slots
<1>2. /\ Len(s) \in Nat /\ DOMAIN s = 1..Len(s)
      /\ Len(t) \in Nat /\ DOMAIN t = 1..Len(t)
      /\ DOMAIN c = 1..Len(c)
  BY <1>1, LenProperties DEF Slots
<1>3. Live(c) = Live(s) \cup Live(t)
  BY RangeConcatenation DEF Live, Slots
<1>4. ASSUME NEW i \in DOMAIN c, NEW j \in DOMAIN c, c[i] = c[j], c[i] # Nil
      PROVE  i = j
  <2>1. \A k \in DOMAIN s : s[k] # Nil => s[k] \in Live(s)
    BY DEF Live, Range
  <2>2. \A k \in DOMAIN t : t[k] # Nil => t[k] \in Live(t)
    BY DEF Live, Range
  <2>3. CASE i <= Len(s) /\ j <= Len(s)
    <3>1. i \in DOMAIN s /\ j \in DOMAIN s /\ c[i] = s[i] /\ c[j] = s[j]
      BY <2>3, <1>1, <1>2
    <3> QED
      BY <3>1, <1>4 DEF NoRepeat
  <2>4. CASE i > Len(s) /\ j > Len(s)
    <3>1. /\ i - Len(s) \in DOMAIN t /\ j - Len(s) \in DOMAIN t
          /\ c[i] = t[i - Len(s)] /\ c[j] = t[j - Len(s)]
      BY <2>4, <1>1, <1>2
    <3>2. i - Len(s) = j - Len(s)
      BY Zenon, <3>1, <1>4 DEF NoRepeat
    <3> QED
      BY <3>2, <1>1, <1>2
  <2>5. CASE i <= Len(s) /\ j > Len(s)
    <3>1. /\ i \in DOMAIN s /\ j - Len(s) \in DOMAIN t
          /\ c[i] = s[i] /\ c[j] = t[j - Len(s)]
      BY <2>5, <1>1, <1>2
    <3> QED
      BY <3>1, <2>1, <2>2, <1>4
  <2>6. CASE i > Len(s) /\ j <= Len(s)
    <3>1. /\ j \in DOMAIN s /\ i - Len(s) \in DOMAIN t
          /\ c[j] = s[j] /\ c[i] = t[i - Len(s)]
      BY <2>6, <1>1, <1>2
    <3> QED
      BY <3>1, <2>1, <2>2, <1>4
  <2> QED
    BY <2>3, <2>4, <2>5, <2>6, <1>1, <1>2
<1> QED
  BY <1>1, <1>3, <1>4 DEF NoRepeat

(* Consuming the first slots leaves the others, and takes what they held.  *)
LEMMA SlotsCut ==
  ASSUME NEW s \in Slots, NoRepeat(s), NEW k \in 0..Len(s)
  PROVE  /\ SubSeq(s, 1, k) \in Slots
         /\ SubSeq(s, k + 1, Len(s)) \in Slots
         /\ NoRepeat(SubSeq(s, k + 1, Len(s)))
         /\ Live(s) = Live(SubSeq(s, 1, k)) \cup Live(SubSeq(s, k + 1, Len(s)))
         /\ Live(SubSeq(s, 1, k)) \cap Live(SubSeq(s, k + 1, Len(s))) = {}
<1> DEFINE a == SubSeq(s, 1, k)
           b == SubSeq(s, k + 1, Len(s))
<1>1. /\ a \in Slots /\ Len(a) = k /\ \A i \in 1..k : a[i] = s[i]
      /\ b \in Slots /\ Len(b) = Len(s) - k
      /\ \A i \in 1..(Len(s) - k) : b[i] = s[k + i]
  BY CutSequence DEF Slots
<1>2. Live(s) = Live(a) \cup Live(b)
  BY CutRange DEF Live, Slots
<1> HIDE DEF a, b
<1>3. /\ Len(s) \in Nat /\ DOMAIN s = 1..Len(s)
      /\ DOMAIN a = 1..Len(a) /\ DOMAIN b = 1..Len(b)
  BY <1>1, LenProperties DEF Slots
<1>4. NoRepeat(b)
  <2> SUFFICES ASSUME NEW i \in DOMAIN b, NEW j \in DOMAIN b,
                      b[i] = b[j], b[i] # Nil
               PROVE  i = j
    BY DEF NoRepeat
  <2>1. /\ k + i \in DOMAIN s /\ k + j \in DOMAIN s
        /\ b[i] = s[k + i] /\ b[j] = s[k + j]
    BY <1>1, <1>3
  <2>2. k + i = k + j
    BY Zenon, <2>1 DEF NoRepeat
  <2> QED
    BY <2>2, <1>1, <1>3
<1>5. Live(a) \cap Live(b) = {}
  <2> SUFFICES ASSUME NEW i \in DOMAIN a, NEW j \in DOMAIN b,
                      a[i] = b[j], a[i] # Nil
               PROVE  FALSE
    BY DEF Live, Range
  <2>1. /\ i \in DOMAIN s /\ k + j \in DOMAIN s
        /\ a[i] = s[i] /\ b[j] = s[k + j] /\ i # k + j
    BY <1>1, <1>3
  <2> QED
    BY Zenon, <2>1 DEF NoRepeat
<1> QED
  BY <1>1, <1>2, <1>4, <1>5 DEF a, b

(* A visiting order of a set lists each of its elements once.              *)
LEMMA OrdersList ==
  ASSUME NEW S \in SUBSET Ids, NEW s \in Orders(S)
  PROVE  /\ s \in Seq(Ids)
         /\ s \in Slots
         /\ Range(s) = S
         /\ Live(s) = S
         /\ NoRepeat(s)
<1>1. Cardinality(S) \in Nat
  BY Zenon, IdsAssumption, FS_Subset, FS_CardinalityType
<1>2. /\ s \in [1..Cardinality(S) -> S]
      /\ \A i, j \in 1..Cardinality(S) : s[i] = s[j] => i = j
      /\ \A x \in S : \E i \in 1..Cardinality(S) : s[i] = x
  BY DEF Orders, Bijection, Injection, Surjection, IsInjective
<1>3. s \in Seq(S)
  BY <1>1, <1>2, SeqDef
<1>4. s \in Seq(Ids) /\ s \in Slots
  BY <1>3, SeqMonotonic DEF Slots
<1>5. Range(s) = S
  BY <1>2 DEF Range
<1> QED
  BY ZenonT(60), <1>2, <1>4, <1>5, IdsAssumption DEF Live, NoRepeat

(* The slots of urgent are slots like those of ready, and none is empty.   *)
LEMMA UrgentSlots ==
  ASSUME NEW s \in Seq(Ids)
  PROVE  s \in Slots /\ Live(s) = Range(s) /\ Range(s) \subseteq Ids
<1>1. Range(s) \subseteq Ids
  BY RangeOfSeq
<1> QED
  BY <1>1, SeqMonotonic, IdsAssumption DEF Slots, Live

-----------------------------------------------------------------------------
(* The operations.                                                         *)

(* promoteDelayed, and the sweep, move messages and lose none.             *)
LEMMA PromoteSound ==
  ASSUME NEW g \in GroupType, WellPlaced(g),
         NEW A \in SUBSET g.processing, NEW lapsed \in Orders(A),
         NEW B \in SUBSET g.delayed, NEW ripe \in Orders(B)
  PROVE  /\ Rearranges(g, Promote(g, lapsed, ripe))
         /\ Promote(g, lapsed, ripe).processing = g.processing \ A
         /\ Promote(g, lapsed, ripe).delayed = g.delayed \ B
         /\ Promote(g, lapsed, ripe).at = g.at
<1> DEFINE p == Promote(g, lapsed, ripe)
<1>1. /\ g.processing \in SUBSET Ids /\ g.delayed \in SUBSET Ids
      /\ g.ready \in Slots /\ g.urgent \in Seq(Ids)
      /\ A \in SUBSET Ids /\ B \in SUBSET Ids
  BY DEF GroupType, Slots
<1>2. /\ lapsed \in Seq(Ids) /\ lapsed \in Slots /\ Range(lapsed) = A
      /\ Live(lapsed) = A /\ NoRepeat(lapsed)
  BY <1>1, OrdersList
<1>3. /\ ripe \in Slots /\ Range(ripe) = B /\ Live(ripe) = B /\ NoRepeat(ripe)
  BY <1>1, OrdersList
<1>4. g.urgent \in Slots
  BY <1>1, UrgentSlots
<1>5. /\ p.processing = g.processing \ A /\ p.delayed = g.delayed \ B
      /\ p.urgent = g.urgent \o lapsed /\ p.ready = g.ready \o ripe
      /\ p.cfg = g.cfg /\ p.attempts = g.attempts /\ p.at = g.at
  BY SMTT(30), <1>2, <1>3 DEF Promote, GroupType
<1>6. /\ NoRepeat(p.urgent) /\ Live(p.urgent) = Live(g.urgent) \cup A
  <2>1. NoRepeat(g.urgent) /\ Live(g.urgent) \cap Live(lapsed) = {}
    BY <1>2 DEF WellPlaced
  <2> QED
    BY <2>1, <1>2, <1>4, <1>5, SlotsConcat
<1>7. /\ p.ready \in Slots
      /\ NoRepeat(p.ready) /\ Live(p.ready) = Live(g.ready) \cup B
  <2>1. NoRepeat(g.ready) /\ Live(g.ready) \cap Live(ripe) = {}
    BY <1>3 DEF WellPlaced
  <2> QED
    BY <2>1, <1>1, <1>3, <1>5, SlotsConcat
<1>8. p.urgent \in Seq(Ids)
  BY <1>1, <1>2, <1>5, ConcatProperties
<1>9. p \in GroupType
  BY Zenon, <1>5, <1>7, <1>8 DEF Promote, GroupType, Slots
<1>10. WellPlaced(p)
  BY <1>5, <1>6, <1>7 DEF WellPlaced
<1>11. Held(p) = Held(g)
  BY <1>5, <1>6, <1>7 DEF Held
<1> QED
  BY <1>5, <1>9, <1>10, <1>11 DEF Rearranges

(* The slots n calls of nextDispatchable consume exist.                    *)
LEMMA ConsumedSlots ==
  ASSUME NEW g \in GroupType, NEW n \in Nat
  PROVE  /\ UrgentTaken(g, n) \in 0..Len(g.urgent)
         /\ ReadyTaken(g, n) \in 0..Len(g.ready)
<1>1. Len(g.urgent) \in Nat /\ Len(g.ready) \in Nat
  BY LenProperties DEF GroupType
<1>2. UrgentTaken(g, n) \in 0..Len(g.urgent)
  BY <1>1 DEF UrgentTaken
<1> DEFINE T == {r \in 0..Len(g.ready) :
                   r = Len(g.ready) \/ LiveIn(g, r) = n - UrgentTaken(g, n)}
<1>3. T \in SUBSET (0..Len(g.ready)) /\ Len(g.ready) \in T
  BY <1>1
<1>4. ReadyTaken(g, n) = Min(T)
  BY DEF ReadyTaken
<1> HIDE DEF T
<1>5. Min(T) \in 0..Len(g.ready)
  BY <1>1, <1>3, ScanStops
<1> QED
  BY <1>2, <1>4, <1>5

(* Leasing moves the messages of the consumed slots to processing.         *)
LEMMA LeaseSound ==
  ASSUME NEW g \in GroupType, WellPlaced(g), NEW n \in Nat, NEW t \in Int
  PROVE  HandsOut(g, Lease(g, n, t))
<1> DEFINE u == UrgentTaken(g, n)
           r == ReadyTaken(g, n)
           ua == SubSeq(g.urgent, 1, u)
           ub == SubSeq(g.urgent, u + 1, Len(g.urgent))
           ra == SubSeq(g.ready, 1, r)
           rb == SubSeq(g.ready, r + 1, Len(g.ready))
           taken == Live(Consumed(g, n))
           l == Lease(g, n, t)
<1>1. /\ g.ready \in Slots /\ g.urgent \in Seq(Ids) /\ g.urgent \in Slots
      /\ g.cfg.lease \in Int /\ g.at \in [Ids -> Int]
      /\ g.processing \subseteq Ids /\ g.delayed \subseteq Ids
  BY UrgentSlots DEF GroupType, ConfigType, Slots
<1>2. u \in 0..Len(g.urgent) /\ r \in 0..Len(g.ready)
  BY ConsumedSlots
<1>3. /\ ua \in Slots /\ ub \in Slots /\ NoRepeat(ub)
      /\ Live(g.urgent) = Live(ua) \cup Live(ub) /\ Live(ua) \cap Live(ub) = {}
  BY <1>1, <1>2, SlotsCut DEF WellPlaced
<1>4. /\ ra \in Slots /\ rb \in Slots /\ NoRepeat(rb)
      /\ Live(g.ready) = Live(ra) \cup Live(rb) /\ Live(ra) \cap Live(rb) = {}
  BY <1>1, <1>2, SlotsCut DEF WellPlaced
<1>5. ub \in Seq(Ids)
  BY <1>1, <1>2, CutSequence
<1>6. taken = Live(ua) \cup Live(ra)
  <2>1. Consumed(g, n) = ua \o ra
    BY DEF Consumed
  <2> HIDE DEF ua, ra
  <2>2. Range(ua \o ra) = Range(ua) \cup Range(ra)
    BY <1>3, <1>4, RangeConcatenation DEF Slots
  <2> QED
    BY <2>1, <2>2 DEF Live
<1>7. /\ l.processing = g.processing \cup taken /\ l.delayed = g.delayed
      /\ l.urgent = ub /\ l.ready = rb
      /\ l.at = [m \in Ids |-> IF m \in taken THEN t + g.cfg.lease ELSE g.at[m]]
      /\ l.cfg = g.cfg /\ l.attempts = g.attempts
      /\ l.deficit = g.deficit /\ l.events = g.events
  BY Zenon DEF Lease, GroupType
<1>8. taken \subseteq Ids
  <2>1. Live(g.urgent) \subseteq Ids /\ Live(g.ready) \subseteq Ids
    BY <1>1, RangeOfSeq DEF Live, Slots
  <2> QED
    BY <2>1, <1>3, <1>4, <1>6
<1>9. l \in GroupType
  <2>1. l.at \in [Ids -> Int]
    BY <1>1, <1>7
  <2>2. l = [g EXCEPT !.urgent = l.urgent, !.ready = l.ready,
                      !.processing = l.processing, !.at = l.at]
    BY <1>7 DEF Lease, GroupType
  <2> HIDE DEF u, r, ua, ub, ra, rb, taken, l
  <2>3. /\ l.ready \in Seq(Ids \cup {Nil}) /\ l.urgent \in Seq(Ids)
        /\ l.processing \in SUBSET Ids
    BY <1>1, <1>4, <1>5, <1>7, <1>8 DEF Slots
  <2> QED
    BY ZenonT(60), <2>1, <2>2, <2>3 DEF GroupType
<1> HIDE DEF u, r, ua, ub, ra, rb, taken, l
<1>10. WellPlaced(l)
  BY <1>3, <1>4, <1>6, <1>7 DEF WellPlaced
<1>11. Held(l) = Held(g)
  BY <1>3, <1>4, <1>6, <1>7 DEF Held
<1>12. \A m \in g.processing \cup g.delayed : l.at[m] = g.at[m]
  <2>1. taken \cap (g.processing \cup g.delayed) = {}
    BY <1>3, <1>4, <1>6 DEF WellPlaced
  <2> QED
    BY <1>1, <1>7, <2>1
<1>13. HandsOut(g, l)
  BY <1>7, <1>9, <1>10, <1>11, <1>12 DEF HandsOut, Rearranges
<1> QED
  BY <1>13 DEF l

(* The limiter's memory stays a sequence of times, and an eviction never   *)
(* makes it longer.                                                        *)
LEMMA EvictSound ==
  ASSUME NEW times \in Seq(Int), NEW t \in Int
  PROVE  /\ Stale(times, t) \in 0..Len(times)
         /\ Evict(times, t) \in Seq(Int)
         /\ Len(Evict(times, t)) = Len(times) - Stale(times, t)
<1> DEFINE T == {i \in 0..Len(times) :
                   i = Len(times) \/ times[i + 1] >= t - RateWindow}
<1>1. Len(times) \in Nat
  BY LenProperties
<1>2. T \in SUBSET (0..Len(times)) /\ Len(times) \in T
  BY <1>1
<1>3. Stale(times, t) = Min(T)
  BY DEF Stale
<1> HIDE DEF T
<1>4. Stale(times, t) \in 0..Len(times)
  BY <1>1, <1>2, <1>3, ScanStops
<1> QED
  BY ZenonT(60), <1>4, CutSequence DEF Evict

LEMMA AdmitSound ==
  ASSUME NEW times \in Seq(Int), NEW t \in Int, NEW n \in Nat
  PROVE  /\ Admit(times, t, n) \in Seq(Int)
         /\ Len(Admit(times, t, n)) = Len(Evict(times, t)) + n
<1> DEFINE tail == [i \in 1..n |-> t]
<1>1. tail \in Seq(Int) /\ Len(tail) = n
  <2>1. tail \in [1..n -> Int]
    OBVIOUS
  <2>2. tail \in Seq(Int)
    BY <2>1, SeqDef
  <2>3. DOMAIN tail = 1..Len(tail) /\ Len(tail) \in Nat
    BY <2>2, LenProperties
  <2> HIDE DEF tail
  <2> QED
    BY <2>1, <2>2, <2>3
<1>2. Evict(times, t) \in Seq(Int)
  BY EvictSound
<1> QED
  BY <1>1, <1>2, ConcatProperties DEF Admit

(* The counts a dispatch compares are integers.                            *)
LEMMA CountsSound ==
  ASSUME NEW g \in GroupType
  PROVE  /\ Cardinality(g.processing) \in Nat
         /\ Cardinality(g.delayed) \in Nat
         /\ Free(g) \in Int
         /\ Available(g) \in Nat
         /\ PendingCount(g) \in Nat
<1>1. Cardinality(g.processing) \in Nat /\ Cardinality(g.delayed) \in Nat
  <2>1. IsFiniteSet(g.processing) /\ IsFiniteSet(g.delayed)
    BY IdsAssumption, FS_Subset DEF GroupType
  <2> QED
    BY <2>1, FS_CardinalityType
<1>2. Len(g.urgent) \in Nat /\ Len(g.ready) \in Nat
  BY LenProperties DEF GroupType
<1>3. LiveIn(g, Len(g.ready)) \in Nat
  <2> DEFINE T == {i \in 1..Len(g.ready) : g.ready[i] # Nil}
  <2>1. IsFiniteSet(1..Len(g.ready))
    BY <1>2, FS_Interval
  <2>2. IsFiniteSet(T)
    BY <2>1, FS_Subset
  <2> QED
    BY <2>2, FS_CardinalityType DEF LiveIn
<1>4. g.cfg.parallelism \in Int
  BY DEF GroupType, ConfigType
<1>5. Free(g) \in Int
  BY <1>1, <1>4 DEF Free
<1>6. Available(g) \in Nat
  BY <1>2, <1>3 DEF Available
<1>7. PendingCount(g) \in Nat
  <2> DEFINE d == Cardinality(g.delayed)
             u == Len(g.urgent)
             r == Len(g.ready)
  <2>1. d \in Nat /\ u \in Nat /\ r \in Nat
    BY <1>1, <1>2
  <2>2. PendingCount(g) = u + r + d
    BY DEF PendingCount
  <2> HIDE DEF d, u, r
  <2> QED
    BY <2>1, <2>2
<1> QED
  BY <1>1, <1>5, <1>6, <1>7

(* A dispatch returns no more messages than its budget, the free capacity, *)
(* the room of the limiter and the messages there are.                     *)
LEMMA ObtainedBounds ==
  ASSUME NEW g \in GroupType, NEW t \in Int, NEW budget \in Nat
  PROVE  /\ Obtained(g, t, budget) \in 0..budget
         /\ Obtained(g, t, budget) = 0 \/ Obtained(g, t, budget) <= Free(g)
         /\ HasLimiter => Obtained(g, t, budget) = 0
                             \/ Obtained(g, t, budget) <= Room(g.events, t)
         /\ Obtained(g, t, budget) <= Available(g)
         /\ \/ Obtained(g, t, budget) \in {budget, Available(g)}
            \/ Free(g) <= Obtained(g, t, budget)
            \/ LimiterRoom(g, t, budget) <= Obtained(g, t, budget)
         /\ Passed(g, t, budget) \in 0..budget
         /\ Passed(g, t, budget) \in {Obtained(g, t, budget),
                                       Obtained(g, t, budget) + 1}
<1>1. Free(g) \in Int /\ Available(g) \in Nat
  BY CountsSound
<1>2. LimiterRoom(g, t, budget) \in Int
  <2>1. g.events \in Seq(Int)
    BY DEF GroupType
  <2>2. Len(Evict(g.events, t)) \in Nat
    BY <2>1, EvictSound, LenProperties
  <2> QED
    BY <2>2, RateAssumption DEF LimiterRoom, Room
<1> DEFINE S == {budget, Free(g), LimiterRoom(g, t, budget), Available(g)}
           low == Min(S)
<1>3. /\ low \in Int /\ low <= budget /\ low <= Free(g)
      /\ low <= LimiterRoom(g, t, budget) /\ low <= Available(g)
      /\ low \in {budget, Free(g), LimiterRoom(g, t, budget), Available(g)}
  <2>1. PICK F \in Int, L \in Int, V \in Int :
          F = Free(g) /\ L = LimiterRoom(g, t, budget) /\ V = Available(g)
    BY <1>1, <1>2
  <2>2. S = {budget, F, L, V}
    BY <2>1
  <2>3. \E y \in {budget, F, L, V} : \A x \in {budget, F, L, V} : y <= x
    <3>1. CASE budget <= F /\ budget <= L /\ budget <= V
      BY <3>1
    <3>2. CASE F <= budget /\ F <= L /\ F <= V
      BY <3>2
    <3>3. CASE L <= budget /\ L <= F /\ L <= V
      BY <3>3
    <3>4. CASE V <= budget /\ V <= F /\ V <= L
      BY <3>4
    <3> QED
      BY <3>1, <3>2, <3>3, <3>4
  <2> HIDE DEF S
  <2>4. low \in S /\ \A x \in S : low <= x
    BY <2>2, <2>3 DEF Min
  <2> HIDE DEF low
  <2> QED
    BY <2>1, <2>2, <2>4
<1>4. Obtained(g, t, budget) = IF 0 >= low THEN 0 ELSE low
  <2>1. Obtained(g, t, budget) = Max({0, low})
    BY DEF Obtained
  <2> HIDE DEF low
  <2> QED
    BY <2>1, <1>3, LargerOfTwo
<1> HIDE DEF low
<1>5. Obtained(g, t, budget) \in 0..budget
  BY <1>3, <1>4
<1>6. StopReason(g, t, budget) = "empty" => Obtained(g, t, budget) # budget
  BY DEF StopReason
<1>7. Passed(g, t, budget) \in 0..budget
  BY <1>5, <1>6 DEF Passed
<1>8. Passed(g, t, budget) \in {Obtained(g, t, budget), Obtained(g, t, budget) + 1}
  BY <1>5 DEF Passed
<1>9. \/ Obtained(g, t, budget) \in {budget, Available(g)}
      \/ Free(g) <= Obtained(g, t, budget)
      \/ LimiterRoom(g, t, budget) <= Obtained(g, t, budget)
  BY <1>1, <1>2, <1>3, <1>4
<1> QED
  BY <1>1, <1>3, <1>4, <1>5, <1>7, <1>8, <1>9 DEF LimiterRoom

(* nextDispatchable, called until it returns no message or the budget is   *)
(* spent.                                                                  *)
LEMMA DispatchSound ==
  ASSUME NEW g \in GroupType, WellPlaced(g), NEW t \in Int, NEW budget \in Nat
  PROVE  HandsOut(g, Dispatch(g, t, budget))
<1> DEFINE n == Passed(g, t, budget)
           l == Lease(g, n, t)
           e == IF HasLimiter /\ Free(g) > 0 THEN Admit(l.events, t, n)
                                             ELSE l.events
           d == [l EXCEPT !.events = e]
<1>1. n \in Nat
  BY ObtainedBounds
<1>2. HandsOut(g, l)
  BY <1>1, LeaseSound
<1>3. Dispatch(g, t, budget) = d
  BY DEF Dispatch
<1> HIDE DEF n, l
<1>4. l \in GroupType
  BY <1>2 DEF HandsOut, Rearranges
<1>5. e \in Seq(Int)
  BY <1>1, <1>4, AdmitSound DEF GroupType
<1> HIDE DEF e
<1>6. /\ d \in GroupType
      /\ d.ready = l.ready /\ d.urgent = l.urgent /\ d.delayed = l.delayed
      /\ d.processing = l.processing /\ d.at = l.at
      /\ d.cfg = l.cfg /\ d.attempts = l.attempts
  BY Zenon, <1>4, <1>5 DEF GroupType
<1> HIDE DEF d
<1>7. HandsOut(g, d)
  BY <1>2, <1>6 DEF HandsOut, Rearranges, WellPlaced, Held
<1> QED
  BY <1>3, <1>7

(* drainRound, after its promotion: the deficit never goes negative.       *)
LEMMA DrainedSound ==
  ASSUME NEW g \in GroupType, WellPlaced(g), NEW t \in Int
  PROVE  HandsOut(g, Drained(g, t))
<1> DEFINE budget == g.deficit + Quantum(g)
           x == Dispatch(g, t, budget)
           left == budget - Obtained(g, t, budget)
           d == [x EXCEPT !.deficit = left]
<1>1. budget \in Nat
  BY DEF GroupType, ConfigType, Quantum
<1>2. left \in Nat
  <2>1. Obtained(g, t, budget) \in 0..budget
    BY <1>1, ObtainedBounds
  <2> HIDE DEF budget
  <2> QED
    BY <1>1, <2>1
<1>3. HandsOut(g, x)
  BY <1>1, DispatchSound
<1>4. Drained(g, t) = IF PendingCount(g) = 0 THEN g ELSE d
  BY DEF Drained
<1> HIDE DEF x, left
<1>5. x \in GroupType
  BY <1>3 DEF HandsOut, Rearranges
<1>6. /\ d \in GroupType
      /\ d.ready = x.ready /\ d.urgent = x.urgent /\ d.delayed = x.delayed
      /\ d.processing = x.processing /\ d.at = x.at
      /\ d.cfg = x.cfg /\ d.attempts = x.attempts
  BY ZenonT(60), <1>2, <1>5 DEF GroupType
<1> HIDE DEF d
<1>7. HandsOut(g, d)
  BY <1>3, <1>6 DEF HandsOut, Rearranges, WellPlaced, Held
<1>8. HandsOut(g, g)
  BY DEF HandsOut, Rearranges
<1> QED
  BY <1>4, <1>7, <1>8

(* promoteDelayed at time t.                                               *)
LEMMA PromotionsSound ==
  ASSUME NEW g \in GroupType, WellPlaced(g), NEW t \in Int,
         NEW p \in Promotions(g, t)
  PROVE  /\ Rearranges(g, p)
         /\ p.processing = g.processing \ Expired(g, t)
         /\ p.delayed = g.delayed \ Due(g, t)
         /\ p.at = g.at
<1>1. PICK lapsed \in Orders(Expired(g, t)), ripe \in HeapOrders(g, Due(g, t)) :
        p = Promote(g, lapsed, ripe)
  BY DEF Promotions
<1>2. ripe \in Orders(Due(g, t))
  BY DEF HeapOrders
<1>3. Expired(g, t) \in SUBSET g.processing /\ Due(g, t) \in SUBSET g.delayed
  BY DEF Expired, Due
<1> QED
  BY <1>1, <1>2, <1>3, PromoteSound

(* One slot more, for a message the group did not hold there.              *)
LEMMA SlotsAppend ==
  ASSUME NEW s \in Slots, NoRepeat(s), NEW m \in Ids, m \notin Live(s)
  PROVE  /\ Append(s, m) \in Slots
         /\ NoRepeat(Append(s, m))
         /\ Live(Append(s, m)) = Live(s) \cup {m}
<1> DEFINE o == <<m>>
<1>1. o \in Slots /\ DOMAIN o = {1} /\ o[1] = m
  BY DEF Slots
<1>2. Live(o) = {m}
  BY <1>1, IdsAssumption DEF Live, Range
<1>3. NoRepeat(o)
  BY <1>1 DEF NoRepeat
<1>4. Append(s, m) = s \o o
  BY AppendIsConcat DEF Slots
<1> HIDE DEF o
<1> QED
  BY <1>1, <1>2, <1>3, <1>4, SlotsConcat

LEMMA EnqueueSound ==
  ASSUME NEW g \in GroupType, WellPlaced(g), NEW m \in Ids, m \notin Held(g),
         NEW t \in Int
  PROVE  /\ Enqueue(g, m, t) \in GroupType /\ WellPlaced(Enqueue(g, m, t))
         /\ Held(Enqueue(g, m, t)) = Held(g) \cup {m}
         /\ Enqueue(g, m, t).cfg = g.cfg
         /\ Enqueue(g, m, t).processing = g.processing
         /\ Enqueue(g, m, t).delayed = g.delayed
         /\ \A k \in Ids \ {m} : Enqueue(g, m, t).at[k] = g.at[k]
<1> DEFINE e == Enqueue(g, m, t)
<1>1. g.ready \in Slots /\ NoRepeat(g.ready) /\ m \notin Live(g.ready)
  BY DEF GroupType, Slots, WellPlaced, Held
<1>2. /\ e.ready = Append(g.ready, m) /\ e.urgent = g.urgent
      /\ e.delayed = g.delayed /\ e.processing = g.processing
      /\ e.cfg = g.cfg
      /\ \A k \in Ids \ {m} : e.at[k] = g.at[k]
  BY DEF Enqueue, GroupType
<1>3. /\ Append(g.ready, m) \in Slots /\ NoRepeat(Append(g.ready, m))
      /\ Live(Append(g.ready, m)) = Live(g.ready) \cup {m}
  BY <1>1, SlotsAppend
<1>4. e \in GroupType
  BY Zenon, <1>3 DEF Enqueue, GroupType, Slots
<1> HIDE DEF e
<1>5. WellPlaced(e)
  BY <1>2, <1>3 DEF WellPlaced, Held
<1>6. Held(e) = Held(g) \cup {m}
  BY <1>2, <1>3 DEF Held
<1> QED
  BY <1>2, <1>4, <1>5, <1>6 DEF e

(* complete takes out exactly a leased message.                            *)
LEMMA CompleteSound ==
  ASSUME NEW g \in GroupType, WellPlaced(g), NEW m \in Ids
  PROVE  /\ Complete(g, m) \in GroupType /\ WellPlaced(Complete(g, m))
         /\ Held(Complete(g, m)) = Held(g) \ ({m} \cap g.processing)
         /\ Complete(g, m).processing = g.processing \ {m}
         /\ Complete(g, m).delayed = g.delayed
         /\ Complete(g, m).ready = g.ready
         /\ Complete(g, m).at = g.at /\ Complete(g, m).cfg = g.cfg
         /\ Complete(g, m).attempts = g.attempts
<1> DEFINE c == Complete(g, m)
<1>1. /\ c \in GroupType
      /\ c.ready = g.ready /\ c.urgent = g.urgent /\ c.delayed = g.delayed
      /\ c.processing = g.processing \ {m}
      /\ c.at = g.at /\ c.cfg = g.cfg /\ c.attempts = g.attempts
  BY ZenonT(60) DEF Complete, GroupType
<1> HIDE DEF c
<1>2. WellPlaced(c)
  BY <1>1 DEF WellPlaced
<1>3. Held(c) = Held(g) \ ({m} \cap g.processing)
  BY <1>1 DEF Held, WellPlaced
<1> QED
  BY <1>1, <1>2, <1>3 DEF c

(* fail: a leased message goes to the retry heap or leaves the group.      *)
LEMMA FailSound ==
  ASSUME NEW g \in GroupType, WellPlaced(g), g.cfg \in InForce,
         NEW m \in Ids, NEW t \in Int
  PROVE  /\ Fail(g, m, t) \in GroupType /\ WellPlaced(Fail(g, m, t))
         /\ Held(Fail(g, m, t)) = IF Exhausted(g, m) THEN Held(g) \ {m}
                                                     ELSE Held(g)
         /\ Fail(g, m, t).cfg = g.cfg /\ Fail(g, m, t).ready = g.ready
         /\ Fail(g, m, t).processing = g.processing \ {m}
         /\ g.delayed \subseteq Fail(g, m, t).delayed
         /\ \A k \in Ids \ {m} : /\ Fail(g, m, t).at[k] = g.at[k]
                                 /\ Fail(g, m, t).attempts[k] = g.attempts[k]
         /\ m \notin g.processing => Fail(g, m, t) = g
         /\ m \in g.processing => Fail(g, m, t).attempts[m] = g.attempts[m] + 1
<1>1. CASE m \notin g.processing
  <2>1. Fail(g, m, t) = g /\ ~Exhausted(g, m)
    BY <1>1 DEF Fail, Exhausted
  <2> QED
    BY <1>1, <2>1
<1>2. CASE m \in g.processing
  <2> DEFINE f == Fail(g, m, t)
             kept == g.attempts[m] + 1 < g.cfg.maxAttempts
             delay == RetryDelay(g.cfg, g.attempts[m] + 1)
  <2>1. g.attempts[m] \in Nat /\ g.cfg.maxAttempts \in Int
    BY DEF GroupType, ConfigType
  <2>2. Exhausted(g, m) <=> ~kept
    BY <1>2, <2>1 DEF Exhausted
  <2>3. kept => delay \in Int
    BY <2>1, RetryDelayAssumption
  <2> DEFINE A == [g.attempts EXCEPT ![m] = g.attempts[m] + 1]
             T == IF kept THEN [g.at EXCEPT ![m] = t + delay] ELSE g.at
             D == IF kept THEN g.delayed \cup {m} ELSE g.delayed
  <2>4. f = [g EXCEPT !.processing = g.processing \ {m}, !.attempts = A,
                      !.at = T, !.delayed = D]
    <3>1. CASE kept
      BY <1>2, <2>2, <3>1 DEF Fail, GroupType
    <3>2. CASE ~kept
      BY Zenon, <1>2, <2>2, <3>2 DEF Fail, GroupType
    <3> QED
      BY <3>1, <3>2
  <2>5. /\ f \in GroupType
        /\ f.ready = g.ready /\ f.urgent = g.urgent /\ f.cfg = g.cfg
        /\ f.processing = g.processing \ {m}
        /\ f.delayed = IF kept THEN g.delayed \cup {m} ELSE g.delayed
        /\ f.attempts = [g.attempts EXCEPT ![m] = g.attempts[m] + 1]
        /\ \A k \in Ids \ {m} : f.at[k] = g.at[k]
    <3>1. A \in [Ids -> Nat]
      BY <2>1 DEF GroupType
    <3>2. T \in [Ids -> Int] /\ \A k \in Ids \ {m} : T[k] = g.at[k]
      <4> HIDE DEF kept, delay
      <4> QED
        BY <2>3 DEF GroupType
    <3>3. D \in SUBSET Ids
      BY DEF GroupType
    <3> HIDE DEF f, A, T, D, kept
    <3>4. /\ f \in GroupType
          /\ f.ready = g.ready /\ f.urgent = g.urgent /\ f.cfg = g.cfg
          /\ f.processing = g.processing \ {m}
          /\ f.delayed = D /\ f.attempts = A /\ f.at = T
      BY ZenonT(60), <2>4, <3>1, <3>2, <3>3 DEF GroupType
    <3> QED
      BY <3>2, <3>4 DEF A, D
  <2> HIDE DEF f, A, T, D, kept, delay
  <2>6. f.attempts[m] = g.attempts[m] + 1
        /\ \A k \in Ids \ {m} : f.attempts[k] = g.attempts[k]
    BY <2>5 DEF GroupType
  <2>7. WellPlaced(f)
    BY <1>2, <2>5 DEF WellPlaced
  <2>8. Held(f) = IF kept THEN Held(g) ELSE Held(g) \ {m}
    <3>1. m \notin Live(g.ready) \cup Live(g.urgent) \cup g.delayed
      BY <1>2 DEF WellPlaced
    <3> QED
      BY <1>2, <2>5, <3>1 DEF Held
  <2> QED
    BY <1>2, <2>2, <2>5, <2>6, <2>7, <2>8 DEF f
<1> QED
  BY <1>1, <1>2

(* returnToPending: a leased message goes to the end of urgent.            *)
LEMMA ReturnSound ==
  ASSUME NEW g \in GroupType, WellPlaced(g), NEW m \in Ids
  PROVE  /\ Rearranges(g, ReturnToPending(g, m))
         /\ ReturnToPending(g, m).processing = g.processing \ {m}
         /\ ReturnToPending(g, m).delayed = g.delayed
         /\ ReturnToPending(g, m).at = g.at
<1>1. CASE m \notin g.processing
  <2>1. ReturnToPending(g, m) = g
    BY <1>1 DEF ReturnToPending
  <2> QED
    BY <1>1, <2>1 DEF Rearranges
<1>2. CASE m \in g.processing
  <2> DEFINE r == ReturnToPending(g, m)
  <2>1. /\ g.urgent \in Seq(Ids) /\ g.urgent \in Slots /\ NoRepeat(g.urgent)
        /\ m \notin Live(g.urgent) /\ m \notin Live(g.ready)
    BY <1>2, UrgentSlots DEF GroupType, WellPlaced
  <2>2. /\ NoRepeat(Append(g.urgent, m))
        /\ Live(Append(g.urgent, m)) = Live(g.urgent) \cup {m}
    BY <2>1, SlotsAppend
  <2>3. Append(g.urgent, m) \in Seq(Ids)
    BY <2>1, AppendProperties
  <2>4. /\ r \in GroupType
        /\ r.urgent = Append(g.urgent, m) /\ r.ready = g.ready
        /\ r.processing = g.processing \ {m} /\ r.delayed = g.delayed
        /\ r.at = g.at /\ r.cfg = g.cfg /\ r.attempts = g.attempts
    BY Zenon, <1>2, <2>3 DEF ReturnToPending, GroupType
  <2> HIDE DEF r
  <2>5. WellPlaced(r)
    BY <1>2, <2>1, <2>2, <2>4 DEF WellPlaced
  <2>6. Held(r) = Held(g)
    BY <1>2, <2>2, <2>4 DEF Held
  <2> QED
    BY <2>4, <2>5, <2>6 DEF Rearranges, r
<1> QED
  BY <1>1, <1>2

-----------------------------------------------------------------------------
(* Configurations, new groups, and what a drain returns.                   *)

LEMMA InForceType == InForce \subseteq ConfigType
<1>1. ASSUME NEW c \in ConfigType PROVE WithDefaults(c) \in ConfigType
  <2> DEFINE p == IF c.parallelism <= 0 THEN 1 ELSE c.parallelism
             q == IF c.quantum <= 0 THEN 1 ELSE c.quantum
             a == IF c.maxAttempts = 0 THEN DefaultMaxAttempts ELSE c.maxAttempts
  <2>1. p \in Int /\ q \in Int /\ a \in Int
    BY DEF ConfigType, DefaultMaxAttempts
  <2>2. WithDefaults(c) = [c EXCEPT !.parallelism = p, !.quantum = q,
                                    !.maxAttempts = a]
    BY DEF ConfigType, WithDefaults
  <2> HIDE DEF p, q, a
  <2> QED
    BY Zenon, <2>1, <2>2 DEF ConfigType
<1>2. \A c \in ConfigType : Installed(c) \in ConfigType
  BY DEF ConfigType, Installed
<1> QED
  BY <1>1, <1>2, ConfigsAssumption DEF InForce

(* A group that starts with n emptied slots and nothing else.              *)
LEMMA NewGroupSound ==
  ASSUME NEW c \in Configs, NEW n \in Nat
  PROVE  LET g == [NewGroup(c) EXCEPT !.ready = [i \in 1..n |-> Nil]]
         IN  /\ g \in GroupType /\ g.cfg \in InForce
             /\ WellPlaced(g) /\ Held(g) = {}
<1> DEFINE holes == [i \in 1..n |-> Nil]
           zeros == [m \in Ids |-> 0]
           g == [NewGroup(c) EXCEPT !.ready = holes]
<1>1. holes \in Slots
  <2>1. holes \in [1..n -> Ids \cup {Nil}]
    OBVIOUS
  <2> QED
    BY <2>1, SeqDef DEF Slots
<1>2. Live(holes) = {} /\ NoRepeat(holes)
  BY DEF Live, NoRepeat, Range
<1>3. Live(<<>>) = {} /\ NoRepeat(<<>>)
  BY DEF Live, NoRepeat, Range
<1>4. WithDefaults(c) \in InForce /\ WithDefaults(c) \in ConfigType
  BY InForceType DEF InForce
<1>5. zeros \in [Ids -> Nat] /\ zeros \in [Ids -> Int]
  OBVIOUS
<1>6. <<>> \in Seq(Ids) /\ <<>> \in Seq(Int) /\ <<>> \in Slots
  BY DEF Slots
<1> HIDE DEF holes
<1> DEFINE N == NewGroup(c)
<1>7. /\ N \in GroupType /\ N.cfg = WithDefaults(c) /\ N.urgent = <<>>
      /\ N.delayed = {} /\ N.processing = {}
  <2>1. N = [cfg |-> WithDefaults(c), ready |-> <<>>, urgent |-> <<>>,
             delayed |-> {}, processing |-> {},
             attempts |-> zeros, at |-> zeros, deficit |-> 0, events |-> <<>>]
    BY DEF NewGroup
  <2> HIDE DEF N, zeros
  <2> QED
    BY <1>4, <1>5, <1>6, <2>1 DEF GroupType, Slots
<1> HIDE DEF N
<1>8. /\ g.cfg = WithDefaults(c) /\ g.ready = holes /\ g.urgent = <<>>
      /\ g.delayed = {} /\ g.processing = {}
      /\ g \in GroupType
  BY Zenon, <1>1, <1>7 DEF GroupType, Slots, N
<1> HIDE DEF g
<1>9. g \in GroupType /\ g.cfg \in InForce
  BY <1>4, <1>8
<1>10. WellPlaced(g) /\ Held(g) = {}
  BY <1>2, <1>3, <1>8 DEF WellPlaced, Held
<1> QED
  BY <1>9, <1>10 DEF g, holes

(* Right after an admission at time t the limiter has nothing to evict at  *)
(* time t, so a refusal finds an oldest event to compute the retry from.   *)
LEMMA RetryAtType ==
  ASSUME NEW times \in Seq(Int), NEW t \in Int, NEW n \in Nat,
         Len(Evict(times, t)) + n > 0
  PROVE  RetryAt(Admit(times, t, n), t) \in Int
<1> DEFINE e == Evict(times, t)
           a == Admit(times, t, n)
           k == Stale(times, t)
<1>1. /\ k \in 0..Len(times) /\ e \in Seq(Int) /\ Len(e) = Len(times) - k
      /\ Len(times) \in Nat /\ Len(e) \in Nat
  BY EvictSound, LenProperties
<1>2. a \in Seq(Int) /\ Len(a) = Len(e) + n /\ Len(a) \in Nat
  BY AdmitSound, LenProperties
<1>3. Len(e) > 0 => a[1] >= t - RateWindow
  <2> SUFFICES ASSUME Len(e) > 0 PROVE a[1] >= t - RateWindow
    OBVIOUS
  <2>1. a[1] = e[1]
    <3> DEFINE tail == [i \in 1..n |-> t]
    <3>1. tail \in Seq(Int)
      <4>1. tail \in [1..n -> Int]
        OBVIOUS
      <4> QED
        BY <4>1, SeqDef
    <3>2. a = e \o tail
      BY DEF Admit
    <3>3. Len(tail) \in Nat
      BY <3>1, LenProperties
    <3> HIDE DEF tail, e, a
    <3> QED
      BY <1>1, <3>1, <3>2, <3>3, ConcatProperties
  <2>2. e[1] = times[k + 1]
    <3>1. \A i \in 1..(Len(times) - k) : e[i] = times[k + i]
      BY Zenon, <1>1, CutSequence DEF Evict
    <3> HIDE DEF e, k
    <3>2. 1 \in 1..(Len(times) - k)
      BY <1>1
    <3> QED
      BY <3>1, <3>2
  <2>3. times[k + 1] >= t - RateWindow
    <3> DEFINE T == {i \in 0..Len(times) :
                       i = Len(times) \/ times[i + 1] >= t - RateWindow}
    <3>1. T \in SUBSET (0..Len(times)) /\ Len(times) \in T
      BY <1>1
    <3>2. k = Min(T)
      BY DEF Stale
    <3>3. k \in T
      <4> HIDE DEF T, k
      <4> QED
        BY <1>1, <3>1, <3>2, ScanStops
    <3> HIDE DEF k
    <3> QED
      BY <1>1, <3>3
  <2> QED
    BY <2>1, <2>2, <2>3
<1>4. Len(e) = 0 => a[1] >= t - RateWindow
  <2> SUFFICES ASSUME Len(e) = 0 PROVE a[1] >= t - RateWindow
    OBVIOUS
  <2> DEFINE tail == [i \in 1..n |-> t]
  <2>1. tail \in Seq(Int)
    <3>1. tail \in [1..n -> Int]
      OBVIOUS
    <3> QED
      BY <3>1, SeqDef
  <2>2. a = e \o tail
    BY DEF Admit
  <2>3. n >= 1 /\ tail[1] = t
    BY <1>1
  <2>4. a[1] = tail[1]
    <3>1. Len(tail) \in Nat /\ Len(a) = Len(e) + Len(tail)
      BY <1>1, <2>1, <2>2, LenProperties, ConcatProperties
    <3> HIDE DEF tail, e, a
    <3> QED
      BY <1>1, <1>2, <2>1, <2>2, <2>3, <3>1, ConcatProperties
  <2> QED
    BY <2>3, <2>4, RateAssumption
<1>5. a[1] >= t - RateWindow /\ Len(a) > 0 /\ a[1] \in Int
  <2>1. Len(a) > 0
    BY <1>2
  <2>2. a[1] \in Int
    BY <1>2, <2>1, ElementOfSeq
  <2> QED
    BY <1>1, <1>3, <1>4, <2>1, <2>2
<1> HIDE DEF e, a, k
<1>6. Stale(a, t) = 0
  <2> DEFINE T == {i \in 0..Len(a) : i = Len(a) \/ a[i + 1] >= t - RateWindow}
  <2>1. T \in SUBSET Nat /\ 0 \in T
    BY <1>2, <1>5
  <2>2. Stale(a, t) = Min(T)
    BY DEF Stale
  <2> HIDE DEF T
  <2>3. Min(T) \in T /\ \A x \in T : Min(T) <= x
    BY <2>1, MinOfNaturals
  <2>4. Min(T) \in Nat /\ Min(T) <= 0
    BY Zenon, <2>1, <2>3
  <2> QED
    BY <2>2, <2>4
<1>7. Evict(a, t) \in Seq(Int) /\ Len(Evict(a, t)) = Len(a)
  BY <1>2, <1>6, EvictSound
<1>8. Head(Evict(a, t)) \in Int
  BY <1>2, <1>5, <1>7, HeadTailProperties
<1> QED
  BY <1>8, RateAssumption DEF RetryAt, a

(* A drain that the limiter stopped computes a definite next slot.         *)
LEMMA DrainRetryAt ==
  ASSUME NEW g \in GroupType, WellPlaced(g), NEW t \in Int, PendingCount(g) > 0,
         StopReason(g, t, g.deficit + Quantum(g)) = "rate"
  PROVE  RetryAt(Drained(g, t).events, t) \in Int
<1> DEFINE budget == g.deficit + Quantum(g)
           obtained == Obtained(g, t, budget)
<1>0. budget \in Nat
  BY SMTT(30) DEF GroupType, ConfigType, Quantum
<1>1. /\ obtained # budget /\ Free(g) > obtained
      /\ LimiterRoom(g, t, budget) <= obtained
  BY DEF StopReason
<1>2. obtained \in 0..budget /\ Free(g) \in Int
  BY <1>0, ObtainedBounds, CountsSound
<1>3. HasLimiter /\ Free(g) > 0
  BY <1>0, <1>1, <1>2 DEF LimiterRoom
<1>4. Passed(g, t, budget) = obtained
  BY <1>2 DEF Passed
<1>5. g.events \in Seq(Int)
  BY DEF GroupType
<1>6. Len(Evict(g.events, t)) \in Nat
  BY <1>5, EvictSound, LenProperties
<1>7. Len(Evict(g.events, t)) + obtained > 0
  <2>1. RateMax - Len(Evict(g.events, t)) <= obtained
    BY <1>1, <1>3 DEF LimiterRoom, Room
  <2> HIDE DEF obtained
  <2> QED
    BY <1>2, <1>6, <2>1, RateAssumption
<1>8. Drained(g, t).events = Admit(g.events, t, obtained)
  <2>1. Lease(g, obtained, t).events = g.events
    BY DEF Lease, GroupType
  <2>2. PendingCount(g) # 0
    BY CountsSound
  <2>3. Lease(g, obtained, t) \in GroupType
    <3>1. HandsOut(g, Lease(g, obtained, t))
      BY <1>2, LeaseSound
    <3> QED
      BY <3>1 DEF HandsOut, Rearranges
  <2> DEFINE l == Lease(g, obtained, t)
             e == Admit(g.events, t, obtained)
  <2>4. Dispatch(g, t, budget) = [l EXCEPT !.events = e]
    BY <1>3, <1>4, <2>1 DEF Dispatch
  <2>5. Drained(g, t) = [[l EXCEPT !.events = e] EXCEPT !.deficit = budget - obtained]
    BY Zenon, <2>2, <2>4 DEF Drained
  <2> HIDE DEF l, e, budget, obtained
  <2> QED
    BY <2>3, <2>5 DEF GroupType, l, e
<1> HIDE DEF obtained
<1>9. obtained \in Nat
  BY <1>0, <1>2
<1> QED
  BY <1>5, <1>7, <1>8, <1>9, RetryAtType

(* drainRound returns a well-formed answer.                                *)
LEMMA DrainReturnType ==
  ASSUME NEW g \in GroupType, WellPlaced(g), NEW t \in Int
  PROVE  DrainReturn(g, t) \in [wake : SUBSET Int, still : BOOLEAN]
<1> DEFINE budget == g.deficit + Quantum(g)
           stop == StopReason(g, t, budget)
<1>1. PromotedWake(g) \subseteq Int
  BY DEF PromotedWake, Earliest, GroupType
<1>2. ASSUME PendingCount(g) > 0, stop = "rate"
      PROVE  RetryAt(Drained(g, t).events, t) \in Int
  BY <1>2, DrainRetryAt
<1> DEFINE wake == IF PendingCount(g) > 0 /\ stop = "rate"
                   THEN Earliest(PromotedWake(g)
                                   \cup {RetryAt(Drained(g, t).events, t)})
                   ELSE PromotedWake(g)
           still == /\ PendingCount(g) > 0
                    /\ stop = "budget"
                    /\ wake = {}
                    /\ PendingCount(Drained(g, t)) > 0
<1>3. wake \subseteq Int
  BY <1>1, <1>2 DEF Earliest
<1>4. DrainReturn(g, t) = [wake |-> wake, still |-> still]
  BY DEF DrainReturn
<1>5. still \in BOOLEAN
  OBVIOUS
<1> HIDE DEF wake, still
<1> QED
  BY <1>3, <1>4, <1>5
-----------------------------------------------------------------------------
(* The group over time.                                                    *)

IInv == TypeOK /\ OnePlace /\ Conservation

(* What promoteDelayed followed by a dispatch does to group g at time t.   *)
Progress(g, h, t) ==
  /\ Rearranges(g, h)
  /\ g.delayed \ h.delayed \subseteq Due(g, t)
  /\ \A m \in g.processing \cap h.processing :
       h.at[m] = g.at[m] \/ t > g.at[m]

LEMMA ProgressAfterPromotion ==
  ASSUME NEW g \in GroupType, WellPlaced(g), NEW t \in Int,
         NEW p \in Promotions(g, t), NEW h, HandsOut(p, h)
  PROVE  Progress(g, h, t)
<1>1. /\ Rearranges(g, p) /\ p.at = g.at
      /\ p.processing = g.processing \ Expired(g, t)
      /\ p.delayed = g.delayed \ Due(g, t)
  BY PromotionsSound
<1>2. Rearranges(g, h)
  BY <1>1 DEF HandsOut, Rearranges
<1>3. g.delayed \ h.delayed \subseteq Due(g, t)
  BY <1>1 DEF HandsOut
<1>4. ASSUME NEW m \in g.processing \cap h.processing
      PROVE  h.at[m] = g.at[m] \/ t > g.at[m]
  <2>1. CASE m \in Expired(g, t)
    BY <2>1 DEF Expired
  <2>2. CASE m \notin Expired(g, t)
    <3>1. m \in p.processing
      BY <1>1, <2>2
    <3> QED
      BY <1>1, <3>1 DEF HandsOut
  <2> QED
    BY <2>1, <2>2
<1> QED
  BY <1>2, <1>3, <1>4 DEF Progress

(* promoteDelayed and next.                                                *)
LEMMA NextSound ==
  ASSUME NEW g \in GroupType, WellPlaced(g), NEW t \in Int,
         NEW p \in Promotions(g, t)
  PROVE  Progress(g, Dispatch(p, t, 1), t)
<1>1. p \in GroupType /\ WellPlaced(p)
  BY PromotionsSound DEF Rearranges
<1>2. HandsOut(p, Dispatch(p, t, 1))
  BY <1>1, DispatchSound
<1> QED
  BY <1>2, ProgressAfterPromotion

(* drainRound.                                                             *)
LEMMA DrainSound ==
  ASSUME NEW g \in GroupType, WellPlaced(g), NEW t \in Int,
         NEW p \in Promotions(g, t)
  PROVE  /\ Progress(g, Drained(p, t), t)
         /\ DrainReturn(p, t) \in [wake : SUBSET Int, still : BOOLEAN]
<1>1. p \in GroupType /\ WellPlaced(p)
  BY PromotionsSound DEF Rearranges
<1>2. HandsOut(p, Drained(p, t))
  BY <1>1, DrainedSound
<1> QED
  BY <1>1, <1>2, ProgressAfterPromotion, DrainReturnType

-----------------------------------------------------------------------------

(* What a step does to the histories, beside keeping the invariant.        *)
StepShape ==
  /\ published \subseteq published' /\ done \subseteq done' /\ dead \subseteq dead'
  /\ published' # published =>
       grp'.processing = grp.processing /\ done' = done /\ dead' = dead
  /\ (done' \ done) \cup (dead' \ dead) \subseteq grp.processing
  /\ \A m, n \in (done' \ done) \cup (dead' \ dead) : m = n

(* The two action properties about leases and retries, for one step.       *)
StepTiming ==
  /\ \A m \in grp.processing \cap grp'.processing :
       grp'.at[m] # grp.at[m] =>
         now > grp.at[m] \/ grp'.attempts[m] > grp.attempts[m]
  /\ \A m \in grp.delayed \ grp'.delayed : grp.at[m] <= now

(* A step that only rearranges the group.                                  *)
LEMMA RearrangingStep ==
  ASSUME IInv, Progress(grp, grp', now),
         UNCHANGED <<published, done, dead>>,
         now' \in Nat, drained' \subseteq [wake : SUBSET Int, still : BOOLEAN]
  PROVE  IInv' /\ StepShape /\ StepTiming
<1>1. Rearranges(grp, grp')
  BY DEF Progress
<1>2. IInv'
  BY <1>1 DEF IInv, TypeOK, OnePlace, Conservation, Rearranges
<1>3. StepShape
  BY DEF StepShape
<1>4. StepTiming
  BY DEF StepTiming, Progress, Due
<1> QED
  BY <1>2, <1>3, <1>4

LEMMA PublishStep ==
  ASSUME IInv, NEW m \in Ids, Publish(m)
  PROVE  IInv' /\ StepShape /\ StepTiming
<1>1. /\ grp \in GroupType /\ WellPlaced(grp) /\ grp.cfg \in InForce
      /\ m \notin Held(grp) /\ now \in Int
  BY DEF IInv, TypeOK, OnePlace, Conservation, Publish
<1>2. grp' = Enqueue(grp, m, now)
  BY DEF Publish
<1>3. /\ grp' \in GroupType /\ WellPlaced(grp')
      /\ Held(grp') = Held(grp) \cup {m}
      /\ grp'.cfg = grp.cfg /\ grp'.processing = grp.processing
      /\ grp'.delayed = grp.delayed
      /\ \A k \in Ids \ {m} : grp'.at[k] = grp.at[k]
  BY <1>1, <1>2, EnqueueSound
<1>4. m \notin grp.processing /\ grp.processing \subseteq Ids
  BY <1>1 DEF Held, GroupType
<1>5. IInv'
  BY <1>1, <1>3 DEF IInv, TypeOK, OnePlace, Conservation, Publish
<1>6. StepShape
  BY <1>3 DEF StepShape, Publish
<1>7. StepTiming
  BY <1>3, <1>4 DEF StepTiming
<1> QED
  BY <1>5, <1>6, <1>7

LEMMA CompleteStep ==
  ASSUME IInv, NEW m \in Ids, CompleteAndNext(m)
  PROVE  IInv' /\ StepShape /\ StepTiming
<1> DEFINE c == Complete(grp, m)
<1>1. /\ grp \in GroupType /\ WellPlaced(grp) /\ grp.cfg \in InForce
      /\ now \in Int /\ grp.processing \subseteq Held(grp)
  BY DEF IInv, TypeOK, OnePlace, Held
<1>2. /\ c \in GroupType /\ WellPlaced(c)
      /\ Held(c) = Held(grp) \ ({m} \cap grp.processing)
      /\ c.processing = grp.processing \ {m} /\ c.delayed = grp.delayed
      /\ c.at = grp.at /\ c.cfg = grp.cfg /\ c.attempts = grp.attempts
  BY <1>1, CompleteSound
<1>3. Progress(c, grp', now)
  BY <1>1, <1>2, NextSound DEF CompleteAndNext, PromoteAndNext
<1> HIDE DEF c
<1>4. /\ grp' \in GroupType /\ WellPlaced(grp')
      /\ Held(grp') = Held(grp) \ ({m} \cap grp.processing)
      /\ grp'.cfg = grp.cfg
  BY <1>2, <1>3 DEF Progress, Rearranges
<1>5. /\ done' = done \cup ({m} \cap grp.processing)
      /\ dead' = dead /\ published' = published /\ now' = now /\ drained' = {}
  BY DEF CompleteAndNext
<1>6. IInv'
  <2>1. TypeOK' /\ OnePlace'
    BY <1>1, <1>4, <1>5 DEF IInv, TypeOK, OnePlace
  <2>2. Conservation'
    BY <1>1, <1>4, <1>5 DEF IInv, Conservation
  <2> QED
    BY <2>1, <2>2 DEF IInv
<1>7. StepShape
  BY <1>5 DEF StepShape
<1>8. StepTiming
  <2>1. m \notin grp'.processing \/ m \notin grp.processing
    <3>1. CASE m \in grp.processing
      BY <1>4, <3>1 DEF Held
    <3> QED
      BY <3>1
  <2> QED
    BY <1>2, <1>3, <2>1 DEF StepTiming, Progress, Due
<1> QED
  BY <1>6, <1>7, <1>8

LEMMA FailStep ==
  ASSUME IInv, NEW m \in Ids, FailAndNext(m)
  PROVE  IInv' /\ StepShape /\ StepTiming
<1> DEFINE f == Fail(grp, m, now)
<1>1. /\ grp \in GroupType /\ WellPlaced(grp) /\ grp.cfg \in InForce
      /\ now \in Int /\ grp.processing \subseteq Held(grp)
      /\ Exhausted(grp, m) => m \in grp.processing
  BY DEF IInv, TypeOK, OnePlace, Held, Exhausted
<1>2. /\ f \in GroupType /\ WellPlaced(f)
      /\ Held(f) = IF Exhausted(grp, m) THEN Held(grp) \ {m} ELSE Held(grp)
      /\ f.cfg = grp.cfg /\ f.processing = grp.processing \ {m}
      /\ grp.delayed \subseteq f.delayed
      /\ \A k \in Ids \ {m} : /\ f.at[k] = grp.at[k]
                              /\ f.attempts[k] = grp.attempts[k]
      /\ m \notin grp.processing => f = grp
      /\ m \in grp.processing => f.attempts[m] = grp.attempts[m] + 1
  BY <1>1, FailSound
<1>3. Progress(f, grp', now)
  BY <1>1, <1>2, NextSound DEF FailAndNext, PromoteAndNext
<1> HIDE DEF f
<1>4. /\ grp' \in GroupType /\ WellPlaced(grp') /\ Held(grp') = Held(f)
      /\ grp'.cfg = grp.cfg /\ grp'.attempts = f.attempts
  BY <1>2, <1>3 DEF Progress, Rearranges
<1>5. /\ dead' = IF Exhausted(grp, m) THEN dead \cup {m} ELSE dead
      /\ done' = done /\ published' = published /\ now' = now /\ drained' = {}
  BY DEF FailAndNext
<1>6. IInv'
  <2>1. TypeOK' /\ OnePlace'
    BY <1>1, <1>4, <1>5 DEF IInv, TypeOK, OnePlace
  <2>2. Conservation'
    BY <1>1, <1>2, <1>4, <1>5 DEF IInv, Conservation
  <2> QED
    BY <2>1, <2>2 DEF IInv
<1>7. StepShape
  BY <1>1, <1>5 DEF StepShape
<1>8. StepTiming
  <2>1. ASSUME NEW k \in grp.processing \cap grp'.processing,
               grp'.at[k] # grp.at[k]
        PROVE  now > grp.at[k] \/ grp'.attempts[k] > grp.attempts[k]
    <3>1. CASE k = m
      <4>1. grp.attempts[m] \in Nat
        BY <1>1 DEF GroupType
      <4> QED
        BY <1>2, <1>4, <3>1, <4>1
    <3>2. CASE k # m
      <4>1. k \in f.processing /\ k \in Ids /\ f.at[k] = grp.at[k]
        BY <1>1, <1>2, <3>2 DEF GroupType
      <4> QED
        BY <1>3, <2>1, <4>1 DEF Progress
    <3> QED
      BY <3>1, <3>2
  <2>2. ASSUME NEW k \in grp.delayed \ grp'.delayed PROVE grp.at[k] <= now
    <3>1. k \in Ids /\ f.at[k] = grp.at[k]
      <4>1. CASE k = m
        BY SMTT(30), <1>1, <1>2, <4>1 DEF WellPlaced, GroupType
      <4>2. CASE k # m
        BY <1>1, <1>2, <4>2 DEF GroupType
      <4> QED
        BY <4>1, <4>2
    <3>2. k \in Due(f, now)
      BY <1>2, <1>3 DEF Progress
    <3> QED
      BY <3>1, <3>2 DEF Due
  <2> QED
    BY <2>1, <2>2 DEF StepTiming
<1> QED
  BY <1>6, <1>7, <1>8

-----------------------------------------------------------------------------

(* Every step of Next keeps the invariant.                                 *)
LEMMA StepSound ==
  ASSUME IInv, Next
  PROVE  IInv' /\ StepShape /\ StepTiming
<1>1. /\ grp \in GroupType /\ WellPlaced(grp) /\ now \in Nat /\ now \in Int
      /\ published \subseteq Ids
  BY DEF IInv, TypeOK, OnePlace
<1>2. ASSUME NEW m \in Ids, Publish(m) PROVE IInv' /\ StepShape /\ StepTiming
  BY <1>2, PublishStep
<1>3. ASSUME TryDispatchOne PROVE IInv' /\ StepShape /\ StepTiming
  <2>1. Progress(grp, grp', now)
    BY <1>1, <1>3, NextSound DEF TryDispatchOne, PromoteAndNext
  <2>2. UNCHANGED <<published, done, dead>> /\ now' = now /\ drained' = {}
    BY <1>3 DEF TryDispatchOne
  <2> QED
    BY <1>1, <2>1, <2>2, RearrangingStep
<1>4. ASSUME NEW m \in published, CompleteAndNext(m)
      PROVE  IInv' /\ StepShape /\ StepTiming
  BY <1>1, <1>4, CompleteStep
<1>5. ASSUME NEW m \in published, FailAndNext(m)
      PROVE  IInv' /\ StepShape /\ StepTiming
  BY <1>1, <1>5, FailStep
<1>6. ASSUME NEW m \in published, GiveBack(m)
      PROVE  IInv' /\ StepShape /\ StepTiming
  <2>1. grp' = ReturnToPending(grp, m) /\ m \in Ids
    BY <1>1, <1>6 DEF GiveBack
  <2>2. /\ Rearranges(grp, grp') /\ grp'.delayed = grp.delayed
        /\ grp'.at = grp.at
    BY <1>1, <2>1, ReturnSound
  <2>3. Progress(grp, grp', now)
    BY <2>2 DEF Progress
  <2>4. UNCHANGED <<published, done, dead>> /\ now' = now /\ drained' = {}
    BY <1>6 DEF GiveBack
  <2> QED
    BY <1>1, <2>3, <2>4, RearrangingStep
<1>7. ASSUME SweepExpiredLeases PROVE IInv' /\ StepShape /\ StepTiming
  <2>1. PICK lapsed \in Orders(Expired(grp, now)) :
          grp' = Promote(grp, lapsed, <<>>)
    BY <1>7 DEF SweepExpiredLeases
  <2>2. <<>> \in Orders({})
    <3>1. Cardinality({}) = 0
      BY FS_EmptySet
    <3>2. 1..0 = {}
      OBVIOUS
    <3> QED
      BY <3>1, <3>2 DEF Orders, Bijection, Injection, Surjection, IsInjective
  <2>3. PICK B \in SUBSET grp.delayed, none \in Orders({}) : B = {} /\ none = <<>>
    BY SMTT(30), <2>2
  <2>4. PICK A \in SUBSET grp.processing : A = Expired(grp, now)
    BY DEF Expired
  <2>5. /\ Rearranges(grp, grp') /\ grp'.delayed = grp.delayed
        /\ grp'.at = grp.at
    <3>1. lapsed \in Orders(A) /\ none \in Orders(B) /\ grp' = Promote(grp, lapsed, none)
      BY <2>1, <2>3, <2>4
    <3>2. /\ Rearranges(grp, grp') /\ grp'.delayed = grp.delayed \ B
          /\ grp'.at = grp.at
      BY <1>1, <3>1, PromoteSound
    <3> QED
      BY <2>3, <3>2
  <2>6. Progress(grp, grp', now)
    BY <2>5 DEF Progress
  <2>7. UNCHANGED <<published, done, dead>> /\ now' = now /\ drained' = {}
    BY <1>7 DEF SweepExpiredLeases
  <2> QED
    BY <1>1, <2>6, <2>7, RearrangingStep
<1>8. ASSUME DrainGroup PROVE IInv' /\ StepShape /\ StepTiming
  <2>1. PICK p \in Promotions(grp, now) :
          grp' = Drained(p, now) /\ drained' = {DrainReturn(p, now)}
    BY <1>8 DEF DrainGroup
  <2>2. /\ Progress(grp, grp', now)
        /\ DrainReturn(p, now) \in [wake : SUBSET Int, still : BOOLEAN]
    BY <1>1, <2>1, DrainSound
  <2>3. UNCHANGED <<published, done, dead>> /\ now' = now
    BY <1>8 DEF DrainGroup
  <2>4. drained' \subseteq [wake : SUBSET Int, still : BOOLEAN]
    BY ZenonT(60), <2>1, <2>2
  <2> QED
    BY SMTT(30), <1>1, <2>2, <2>3, <2>4, RearrangingStep
<1>9. ASSUME NEW c \in Configs, SetGroupConfig(c)
      PROVE  IInv' /\ StepShape /\ StepTiming
  <2>1. Installed(c) \in InForce /\ Installed(c) \in ConfigType
    BY InForceType DEF InForce
  <2>2. grp' = [grp EXCEPT !.cfg = Installed(c)]
    BY <1>9 DEF SetGroupConfig
  <2>3. /\ grp' \in GroupType /\ grp'.cfg \in InForce
        /\ grp'.ready = grp.ready /\ grp'.urgent = grp.urgent
        /\ grp'.delayed = grp.delayed /\ grp'.processing = grp.processing
        /\ grp'.at = grp.at
    BY ZenonT(60), <1>1, <2>1, <2>2 DEF GroupType
  <2>4. UNCHANGED <<published, done, dead>> /\ now' = now /\ drained' = {}
    BY <1>9 DEF SetGroupConfig
  <2>5. WellPlaced(grp') /\ Held(grp') = Held(grp)
    BY <1>1, <2>3 DEF WellPlaced, Held
  <2>6. IInv'
    BY <2>3, <2>4, <2>5 DEF IInv, TypeOK, OnePlace, Conservation
  <2> QED
    BY <2>3, <2>4, <2>6 DEF StepShape, StepTiming
<1>10. ASSUME Tick PROVE IInv' /\ StepShape /\ StepTiming
  <2>1. /\ grp' = grp /\ UNCHANGED <<published, done, dead>>
        /\ now' = now + 1 /\ drained' = {}
    BY <1>10 DEF Tick
  <2>2. IInv'
    BY <1>1, <2>1 DEF IInv, TypeOK, OnePlace, Conservation
  <2> QED
    BY <2>1, <2>2 DEF StepShape, StepTiming
<1> QED
  BY SMTT(30), <1>2, <1>3, <1>4, <1>5, <1>6, <1>7, <1>8, <1>9, <1>10
    DEF Next

(* The invariant holds at the start, in a group created empty or rebuilt   *)
(* with slots whose messages are gone.                                     *)
LEMMA InitSound == Init => IInv
<1> SUFFICES ASSUME Init PROVE IInv
  OBVIOUS
<1>1. PICK c \in Configs, n \in 0..MaxHoles :
        grp = [NewGroup(c) EXCEPT !.ready = [i \in 1..n |-> Nil]]
  BY ZenonT(60) DEF Init
<1>2. n \in Nat
  BY BoundsAssumption
<1>3. /\ grp \in GroupType /\ grp.cfg \in InForce
      /\ WellPlaced(grp) /\ Held(grp) = {}
  BY <1>1, <1>2, NewGroupSound, Zenon
<1> QED
  BY Zenon, <1>3 DEF Init, IInv, TypeOK, OnePlace, Conservation

(* A step that changes nothing keeps it too.                               *)
LEMMA StutterSound ==
  ASSUME IInv, UNCHANGED vars
  PROVE  IInv'
BY DEF IInv, TypeOK, OnePlace, Conservation, vars

(* The invariant holds throughout.                                         *)
THEOREM Invariance == Spec => []IInv
<1>1. IInv /\ [Next]_vars => IInv'
  BY StepSound, StutterSound
<1> QED
  BY <1>1, InitSound, PTL DEF Spec

(* Type correctness: no operation ever puts a nil slot in urgent, makes    *)
(* the DRR deficit negative, or returns a malformed wake-up.               *)
THEOREM TypeCorrect == Spec => []TypeOK
<1>1. IInv => TypeOK
  BY DEF IInv
<1> QED
  BY <1>1, Invariance, PTL

(* No message is ever in two places of the group.                          *)
THEOREM OnePlaceAlways == Spec => []OnePlace
<1>1. IInv => OnePlace
  BY DEF IInv
<1> QED
  BY <1>1, Invariance, PTL

(* No accepted message is lost and none ends twice, whatever ACKs, NACKs,  *)
(* lapsed leases and drains interleave.                                    *)
THEOREM NothingLost == Spec => []Conservation
<1>1. IInv => Conservation
  BY DEF IInv
<1> QED
  BY <1>1, Invariance, PTL

(* A lease is never given away before it runs out, and a retry never runs  *)
(* before its backoff has elapsed.                                         *)
THEOREM LeasesExclusive == Spec => LeaseExclusive
<1>1. IInv /\ [Next]_vars =>
        [\A m \in grp.processing \cap grp'.processing :
           grp'.at[m] # grp.at[m] =>
             now > grp.at[m] \/ grp'.attempts[m] > grp.attempts[m]]_vars
  BY StepSound DEF StepTiming
<1> QED
  BY <1>1, Invariance, PTL DEF Spec, LeaseExclusive

(* A message leaves the retry heap only when its backoff has elapsed.      *)
THEOREM RetriesWait == Spec => NoEarlyRetry
<1>1. IInv /\ [Next]_vars =>
        [\A m \in grp.delayed \ grp'.delayed : grp.at[m] <= now]_vars
  BY StepSound DEF StepTiming
<1> QED
  BY <1>1, Invariance, PTL DEF Spec, NoEarlyRetry

-----------------------------------------------------------------------------
(* Refinement.                                                             *)

(* Under the invariant the cases of StateOf are exclusive and complete.    *)
LEMMA StateOfCases ==
  ASSUME IInv, NEW m \in Ids
  PROVE  /\ StateOf(m) = "done" <=> m \in done
         /\ StateOf(m) = "dead" <=> m \in dead
         /\ StateOf(m) = "processing" <=> m \in grp.processing
         /\ StateOf(m) = "pending" <=> m \in Held(grp) \ grp.processing
         /\ StateOf(m) = "new" <=> m \notin published
         /\ StateOf(m) \in {"new", "pending", "processing", "done", "dead"}
<1>1. grp.processing \subseteq Held(grp)
  BY DEF Held
<1> QED
  BY <1>1 DEF IInv, Conservation, StateOf

LEMMA StateOfCasesNext ==
  ASSUME IInv', NEW m \in Ids
  PROVE  /\ StateOf(m)' = "done" <=> m \in done'
         /\ StateOf(m)' = "dead" <=> m \in dead'
         /\ StateOf(m)' = "processing" <=> m \in grp'.processing
         /\ StateOf(m)' = "pending" <=> m \in Held(grp') \ grp'.processing
         /\ StateOf(m)' = "new" <=> m \notin published'
         /\ StateOf(m)' \in {"new", "pending", "processing", "done", "dead"}
<1>1. grp'.processing \subseteq Held(grp')
  BY DEF Held
<1> QED
  BY <1>1 DEF IInv, Conservation, StateOf

(* Every step of the group is a step of the lifecycle.                     *)
LEMMA LifecycleStep ==
  ASSUME IInv, IInv', StepShape
  PROVE  Lifecycle!Next
<1>1. ASSUME NEW m \in Ids
      PROVE  <<StateOf(m), StateOf(m)'>> \in Lifecycle!Legal
  <2>1. CASE m \notin published
    <3>1. m \notin grp.processing /\ m \notin Held(grp)
      BY <2>1 DEF IInv, Conservation, Held
    <3>2. CASE m \notin published'
      BY SMTT(30), <2>1, <3>2, StateOfCases, StateOfCasesNext
        DEF Lifecycle!Legal, Lifecycle!States
    <3>3. CASE m \in published'
      <4>1. /\ grp'.processing = grp.processing /\ done' = done /\ dead' = dead
        BY <2>1, <3>3 DEF StepShape
      <4>2. m \in Held(grp') \ grp'.processing
        BY SMTT(30), <2>1, <3>1, <3>3, <4>1 DEF IInv, Conservation
      <4> QED
        BY SMTT(30), <2>1, <4>2, StateOfCases, StateOfCasesNext
          DEF Lifecycle!Legal
    <3> QED
      BY <3>2, <3>3
  <2>2. CASE m \in done
    <3>1. m \in done'
      BY <2>2 DEF StepShape
    <3> QED
      BY <2>2, <3>1, StateOfCases, StateOfCasesNext
        DEF Lifecycle!Legal, Lifecycle!States
  <2>3. CASE m \in dead
    <3>1. m \in dead'
      BY <2>3 DEF StepShape
    <3> QED
      BY SMTT(30), <2>3, <3>1, StateOfCases, StateOfCasesNext
        DEF Lifecycle!Legal, Lifecycle!States
  <2>4. CASE m \in grp.processing
    <3>1. m \in published'
      BY <2>4 DEF IInv, Conservation, Held, StepShape
    <3>2. StateOf(m) = "processing"
      BY <2>4, StateOfCases
    <3>3. StateOf(m)' \in {"pending", "processing", "done", "dead"}
      BY <3>1, StateOfCasesNext
    <3> QED
      BY <3>2, <3>3 DEF Lifecycle!Legal, Lifecycle!States
  <2>5. CASE m \in Held(grp) \ grp.processing
    <3>1. m \in published' /\ m \notin done' /\ m \notin dead'
      BY <2>5 DEF IInv, Conservation, StepShape
    <3>2. StateOf(m) = "pending"
      BY <2>5, StateOfCases
    <3>3. StateOf(m)' \in {"pending", "processing"}
      BY <3>1, StateOfCasesNext
    <3> QED
      BY <3>2, <3>3 DEF Lifecycle!Legal, Lifecycle!States
  <2> QED
    BY SMTT(30), <2>1, <2>2, <2>3, <2>4, <2>5 DEF IInv, Conservation
<1>2. [m \in Ids |-> StateOf(m)]' \in [Ids -> Lifecycle!States]
  BY StateOfCasesNext DEF Lifecycle!States
<1>3. ASSUME NEW m \in Ids, NEW n \in Ids,
             StateOf(m) = "processing", StateOf(m)' \in {"done", "dead"},
             StateOf(n) = "processing", StateOf(n)' \in {"done", "dead"}
      PROVE  m = n
  <2>1. m \in (done' \ done) \cup (dead' \ dead)
    BY SMTT(30), <1>3, StateOfCases, StateOfCasesNext
  <2>2. n \in (done' \ done) \cup (dead' \ dead)
    BY <1>3, StateOfCases, StateOfCasesNext
  <2> QED
    BY <2>1, <2>2 DEF StepShape
<1> QED
  BY SMTT(30), <1>1, <1>2, <1>3 DEF Lifecycle!Next, Lifecycle!Ends

(* The group implements the lifecycle of its messages.                     *)
THEOREM Refinement == Spec => ImplementsLifecycle
<1>1. Init => Lifecycle!Init
  <2> SUFFICES ASSUME Init PROVE Lifecycle!Init
    OBVIOUS
  <2>1. IInv /\ published = {}
    BY Zenon, InitSound DEF Init
  <2>2. \A m \in Ids : StateOf(m) = "new"
    BY <2>1, StateOfCases
  <2> QED
    BY <2>2 DEF Lifecycle!Init
<1>2. IInv /\ [Next]_vars => [Lifecycle!Next]_([m \in Ids |-> StateOf(m)])
  <2>1. ASSUME IInv, Next PROVE Lifecycle!Next
    BY <2>1, StepSound, LifecycleStep
  <2>2. ASSUME UNCHANGED vars PROVE UNCHANGED [m \in Ids |-> StateOf(m)]
    BY <2>2 DEF vars, StateOf
  <2> QED
    BY <2>1, <2>2
<1> QED
  BY <1>1, <1>2, Invariance, PTL DEF Spec, ImplementsLifecycle, Lifecycle!Spec
=============================================================================
