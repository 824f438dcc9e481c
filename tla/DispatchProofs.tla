--------------------------- MODULE DispatchProofs --------------------------
(***************************************************************************)
(* What a consumer group hands out, and when: never more than its slots,   *)
(* urgent and older messages first, and never nothing while there is       *)
(* something to hand out that no timer will come back for.                 *)
(***************************************************************************)
EXTENDS ConsumerGroupProofs

-----------------------------------------------------------------------------
(* How many messages a dispatch hands out.                                 *)

(* The messages in the first slots of ready, counted.                      *)
LEMMA LiveInSteps ==
  ASSUME NEW g \in GroupType
  PROVE  /\ LiveIn(g, 0) = 0
         /\ \A r \in 0..Len(g.ready) : LiveIn(g, r) \in Nat
         /\ \A r, q \in 0..Len(g.ready) : r <= q => LiveIn(g, r) <= LiveIn(g, q)
         /\ \A r \in 1..Len(g.ready) : LiveIn(g, r) <= LiveIn(g, r - 1) + 1
<1> DEFINE L(r) == {i \in 1..r : g.ready[i] # Nil}
<1>1. Len(g.ready) \in Nat
  BY LenProperties DEF GroupType
<1>2. \A r : LiveIn(g, r) = Cardinality(L(r))
  BY DEF LiveIn
<1>3. ASSUME NEW r \in 0..Len(g.ready)
      PROVE  IsFiniteSet(L(r)) /\ Cardinality(L(r)) \in Nat
  <2>1. IsFiniteSet(1..r)
    BY <1>1, FS_Interval
  <2>2. IsFiniteSet(L(r))
    BY <2>1, FS_Subset
  <2> QED
    BY <2>2, FS_CardinalityType
<1>4. L(0) = {}
  BY SMT
<1>5. Cardinality(L(0)) = 0
  BY <1>4, FS_EmptySet
<1>6. ASSUME NEW r \in 0..Len(g.ready), NEW q \in 0..Len(g.ready), r <= q
      PROVE  Cardinality(L(r)) <= Cardinality(L(q))
  <2>1. L(r) \in SUBSET L(q)
    BY <1>1, <1>6
  <2> HIDE DEF L
  <2> QED
    BY <1>3, <2>1, FS_Subset
<1>7. ASSUME NEW r \in 1..Len(g.ready)
      PROVE  Cardinality(L(r)) <= Cardinality(L(r - 1)) + 1
  <2>1. r - 1 \in 0..Len(g.ready) /\ r \in 0..Len(g.ready)
    BY <1>1
  <2>2. L(r) \in SUBSET (L(r - 1) \cup {r})
    BY <1>1
  <2>3. r \notin L(r - 1)
    BY <1>1
  <2> HIDE DEF L
  <2>4. IsFiniteSet(L(r - 1) \cup {r}) /\ Cardinality(L(r - 1) \cup {r}) = Cardinality(L(r - 1)) + 1
    BY Zenon, <1>3, <2>1, <2>3, FS_AddElement
  <2>5. Cardinality(L(r)) <= Cardinality(L(r - 1) \cup {r})
    BY <2>2, <2>4, FS_Subset
  <2> QED
    BY <2>4, <2>5
<1> HIDE DEF L
<1> QED
  BY <1>2, <1>3, <1>5, <1>6, <1>7

(* The scan of ready stops at the last message it is to take, or at the    *)
(* end.                                                                    *)
LEMMA ReadyTakenLive ==
  ASSUME NEW g \in GroupType, NEW n \in Nat
  PROVE  LET k == n - UrgentTaken(g, n)
             all == LiveIn(g, Len(g.ready))
             r == ReadyTaken(g, n)
         IN  /\ k \in Nat
             /\ LiveIn(g, r) = IF k <= all THEN k ELSE all
             /\ k = 0 => r = 0
             /\ k > all => r = Len(g.ready)
<1> DEFINE k == n - UrgentTaken(g, n)
           all == LiveIn(g, Len(g.ready))
           r == ReadyTaken(g, n)
           end == Len(g.ready)
           T == {q \in 0..end : q = end \/ LiveIn(g, q) = k}
<1>1. end \in Nat /\ Len(g.urgent) \in Nat
  BY LenProperties DEF GroupType
<1>2. k \in Nat
  BY <1>1 DEF UrgentTaken
<1>3. /\ LiveIn(g, 0) = 0 /\ \A q \in 0..end : LiveIn(g, q) \in Nat
      /\ \A p, q \in 0..end : p <= q => LiveIn(g, p) <= LiveIn(g, q)
      /\ \A q \in 1..end : LiveIn(g, q) <= LiveIn(g, q - 1) + 1
  BY LiveInSteps
<1>4. r = Min(T)
  BY DEF ReadyTaken
<1> HIDE DEF k, r, end
<1>5. T \in SUBSET Nat /\ end \in T
  BY <1>1
<1>6. r \in T /\ \A q \in T : r <= q
  <2> HIDE DEF T
  <2> QED
    BY <1>4, <1>5, MinOfNaturals
<1>7. all = LiveIn(g, end) /\ all \in Nat
  BY <1>1, <1>3 DEF end
<1> HIDE DEF all
<1>8. ASSUME k <= all
      PROVE  \E q \in 0..end : LiveIn(g, q) = k
  <2> DEFINE U == {q \in 0..end : LiveIn(g, q) >= k}
  <2>1. U \in SUBSET Nat /\ end \in U
    BY <1>1, <1>2, <1>7, <1>8
  <2>2. Min(U) \in U /\ \A q \in U : Min(U) <= q
    <3> HIDE DEF U
    <3> QED
      BY <2>1, MinOfNaturals
  <2>3. PICK q \in 0..end : LiveIn(g, q) >= k /\ \A p \in 0..end : LiveIn(g, p) >= k => q <= p
    BY <2>2
  <2>4. CASE q = 0
    BY <1>2, <1>3, <2>3, <2>4
  <2>5. CASE q # 0
    <3>1. q \in 1..end /\ q - 1 \in 0..end
      BY <1>1, <2>5
    <3>2. ~(LiveIn(g, q - 1) >= k)
      BY <1>1, <2>3, <3>1
    <3>3. LiveIn(g, q) <= LiveIn(g, q - 1) + 1
      BY <1>3, <3>1
    <3>4. LiveIn(g, q) \in Nat /\ LiveIn(g, q - 1) \in Nat
      BY <1>3, <3>1
    <3> QED
      BY <1>2, <2>3, <3>2, <3>3, <3>4
  <2> QED
    BY <2>4, <2>5
<1>9. LiveIn(g, r) = IF k <= all THEN k ELSE all
  <2>1. CASE k <= all
    <3>1. PICK q \in 0..end : LiveIn(g, q) = k
      BY <1>8, <2>1
    <3>2. r <= q
      BY <1>6, <3>1
    <3>3. r = end => q = end
      BY <1>1, <3>2
    <3>4. r = end \/ LiveIn(g, r) = k
      BY <1>6
    <3> QED
      BY <2>1, <3>1, <3>3, <3>4
  <2>2. CASE ~(k <= all)
    <3>1. r \in 0..end /\ LiveIn(g, r) <= all
      BY <1>1, <1>3, <1>6, <1>7
    <3>2. LiveIn(g, r) # k
      BY <1>2, <1>3, <1>7, <2>2, <3>1
    <3>3. r = end
      BY <1>6, <3>2
    <3> QED
      BY <1>7, <2>2, <3>3
  <2> QED
    BY <2>1, <2>2
<1>10. k = 0 => r = 0
  <2>1. k = 0 => 0 \in T
    BY <1>1, <1>3
  <2>2. r \in Nat
    BY <1>5, <1>6
  <2> HIDE DEF T
  <2> QED
    BY <1>6, <2>1, <2>2
<1>11. k > all => r = end
  BY <1>1, <1>2, <1>3, <1>6, <1>7
<1> QED
  BY <1>2, <1>9, <1>10, <1>11 DEF k, all, r, end

(* The messages in the first slots of a sequence that repeats none are as  *)
(* many as those slots that are not empty.                                 *)
LEMMA LiveCount ==
  ASSUME NEW s \in Slots, NoRepeat(s), NEW k \in 0..Len(s)
  PROVE  LET I == {i \in 1..k : s[i] # Nil}
         IN  /\ IsFiniteSet(Live(SubSeq(s, 1, k)))
             /\ Cardinality(Live(SubSeq(s, 1, k))) = Cardinality(I)
<1> DEFINE I == {i \in 1..k : s[i] # Nil}
           a == SubSeq(s, 1, k)
           L == Live(a)
           f == [i \in I |-> s[i]]
<1>1. Len(s) \in Nat /\ DOMAIN s = 1..Len(s)
  BY LenProperties DEF Slots
<1>2. a \in Slots /\ Len(a) = k /\ \A i \in 1..k : a[i] = s[i]
  BY CutSequence DEF Slots
<1>3. DOMAIN a = 1..k
  <2> HIDE DEF a
  <2> QED
    BY <1>2, LenProperties DEF Slots
<1> HIDE DEF a
<1>4. L = {s[i] : i \in I}
  BY <1>2, <1>3 DEF Live, Range
<1>5. IsFiniteSet(I)
  <2>1. IsFiniteSet(1..k)
    BY <1>1, FS_Interval
  <2> QED
    BY <2>1, FS_Subset
<1>6. \A i, j \in I : s[i] = s[j] => i = j
  BY <1>1 DEF NoRepeat
<1> HIDE DEF I, L
<1>7. f \in [I -> L] /\ \A i \in I : f[i] = s[i]
  BY <1>4
<1> HIDE DEF f
<1>8. f \in Surjection(I, L)
  BY <1>4, <1>7 DEF Surjection
<1>9. f \in Injection(I, L)
  BY <1>6, <1>7 DEF Injection, IsInjective
<1>10. IsFiniteSet(L) /\ Cardinality(L) = Cardinality(I)
  BY <1>5, <1>8, <1>9, FS_Surjection
<1> QED
  BY <1>10 DEF I, L, a

-----------------------------------------------------------------------------

(* h has the messages where n calls of nextDispatchable leave them.        *)
Leased(g, h, n, t) ==
  LET l == Lease(g, n, t)
  IN  /\ h.ready = l.ready /\ h.urgent = l.urgent
      /\ h.delayed = l.delayed /\ h.processing = l.processing
      /\ h.at = l.at /\ h.cfg = l.cfg

LEMMA LeaseParts ==
  ASSUME NEW g \in GroupType, WellPlaced(g), NEW n \in Nat, NEW t \in Int,
         NEW h, Leased(g, h, n, t)
  PROVE  LET u == UrgentTaken(g, n)
             r == ReadyTaken(g, n)
         IN  /\ h.urgent = SubSeq(g.urgent, u + 1, Len(g.urgent))
             /\ h.ready = SubSeq(g.ready, r + 1, Len(g.ready))
             /\ h.processing = g.processing \cup (Live(SubSeq(g.urgent, 1, u))
                                                   \cup Live(SubSeq(g.ready, 1, r)))
             /\ h.delayed = g.delayed /\ h.cfg = g.cfg
             /\ \A m \in g.processing \cup g.delayed : h.at[m] = g.at[m]
<1> DEFINE u == UrgentTaken(g, n)
           r == ReadyTaken(g, n)
           ua == SubSeq(g.urgent, 1, u)
           ra == SubSeq(g.ready, 1, r)
           l == Lease(g, n, t)
<1>1. /\ h.ready = l.ready /\ h.urgent = l.urgent
      /\ h.delayed = l.delayed /\ h.processing = l.processing
      /\ h.at = l.at /\ h.cfg = l.cfg
  BY DEF Leased
<1>2. /\ l.urgent = SubSeq(g.urgent, u + 1, Len(g.urgent))
      /\ l.ready = SubSeq(g.ready, r + 1, Len(g.ready))
      /\ l.processing = g.processing \cup Live(Consumed(g, n))
      /\ l.delayed = g.delayed /\ l.cfg = g.cfg
  BY Zenon DEF Lease, GroupType
<1>3. ua \in Slots /\ ra \in Slots
  <2>1. u \in 0..Len(g.urgent) /\ r \in 0..Len(g.ready)
    BY ConsumedSlots
  <2>2. g.urgent \in Slots /\ g.ready \in Slots
    BY UrgentSlots DEF GroupType, Slots
  <2> QED
    BY <2>1, <2>2, SlotsCut DEF WellPlaced
<1>4. Live(Consumed(g, n)) = Live(ua) \cup Live(ra)
  <2>1. Consumed(g, n) = ua \o ra
    BY DEF Consumed
  <2> HIDE DEF ua, ra
  <2>2. Range(ua \o ra) = Range(ua) \cup Range(ra)
    BY <1>3, RangeConcatenation DEF Slots
  <2> QED
    BY <2>1, <2>2 DEF Live
<1>5. \A m \in g.processing \cup g.delayed : l.at[m] = g.at[m]
  BY LeaseSound DEF HandsOut
<1> HIDE DEF u, r, ua, ra, l
<1> QED
  BY <1>1, <1>2, <1>4, <1>5 DEF u, r, ua, ra

(* n calls take as many messages as there are, up to n.                    *)
LEMMA LeaseCount ==
  ASSUME NEW g \in GroupType, WellPlaced(g), NEW n \in Nat, NEW t \in Int,
         NEW h, Leased(g, h, n, t)
  PROVE  LET k == IF n <= Available(g) THEN n ELSE Available(g)
         IN  /\ Cardinality(h.processing) = Cardinality(g.processing) + k
             /\ k = 0 => h.processing = g.processing
             /\ n > Available(g) => Len(h.urgent) = 0 /\ Len(h.ready) = 0
<1> DEFINE u == UrgentTaken(g, n)
           r == ReadyTaken(g, n)
           ua == Live(SubSeq(g.urgent, 1, u))
           ra == Live(SubSeq(g.ready, 1, r))
           all == LiveIn(g, Len(g.ready))
           k == IF n <= Available(g) THEN n ELSE Available(g)
<1>1. /\ g.ready \in Slots /\ g.urgent \in Slots /\ g.urgent \in Seq(Ids)
      /\ NoRepeat(g.ready) /\ NoRepeat(g.urgent)
      /\ Len(g.ready) \in Nat /\ Len(g.urgent) \in Nat
  BY UrgentSlots, LenProperties DEF GroupType, Slots, WellPlaced
<1>2. u \in 0..Len(g.urgent) /\ r \in 0..Len(g.ready)
  BY ConsumedSlots
<1>3. /\ h.urgent = SubSeq(g.urgent, u + 1, Len(g.urgent))
      /\ h.ready = SubSeq(g.ready, r + 1, Len(g.ready))
      /\ h.processing = g.processing \cup (ua \cup ra)
  BY LeaseParts
<1>4. IsFiniteSet(ua) /\ Cardinality(ua) = u
  <2> DEFINE I == {i \in 1..u : g.urgent[i] # Nil}
  <2>1. IsFiniteSet(ua) /\ Cardinality(ua) = Cardinality(I)
    BY <1>1, <1>2, LiveCount
  <2>2. \A i \in 1..u : g.urgent[i] # Nil
    <3> TAKE i \in 1..u
    <3>1. i \in 1..Len(g.urgent)
      BY <1>1, <1>2
    <3>2. g.urgent[i] \in Ids
      BY <1>1, <3>1, ElementOfSeq
    <3> QED
      BY <3>2, IdsAssumption
  <2>3. I = 1..u
    BY <2>2
  <2>4. Cardinality(1..u) = u
    BY <1>1, <1>2, FS_Interval
  <2> QED
    BY Zenon, <2>1, <2>3, <2>4
<1>5. IsFiniteSet(ra) /\ Cardinality(ra) = LiveIn(g, r)
  BY Zenon, <1>1, <1>2, LiveCount DEF LiveIn
<1>6. /\ n - u \in Nat
      /\ LiveIn(g, r) = IF n - u <= all THEN n - u ELSE all
      /\ n - u > all => r = Len(g.ready)
  BY ReadyTakenLive
<1>7. u = IF n <= Len(g.urgent) THEN n ELSE Len(g.urgent)
  BY DEF UrgentTaken
<1>8. Available(g) = Len(g.urgent) + all /\ all \in Nat
  BY <1>1, LiveInSteps DEF Available
<1>9. /\ IsFiniteSet(g.processing) /\ Cardinality(g.processing) \in Nat
      /\ ua \cap ra = {} /\ g.processing \cap (ua \cup ra) = {}
  <2>1. IsFiniteSet(g.processing)
    BY IdsAssumption, FS_Subset DEF GroupType
  <2>2. ua \subseteq Live(g.urgent) /\ ra \subseteq Live(g.ready)
    BY <1>1, <1>2, SlotsCut
  <2> HIDE DEF ua, ra
  <2>3. ua \cap ra = {} /\ g.processing \cap (ua \cup ra) = {}
    BY <2>2 DEF WellPlaced
  <2> QED
    BY <2>1, <2>3, FS_CardinalityType
<1> HIDE DEF u, r, ua, ra, all
<1>10. IsFiniteSet(ua \cup ra) /\ Cardinality(ua \cup ra) = u + LiveIn(g, r)
  <2>1. /\ IsFiniteSet(ua \cup ra)
        /\ Cardinality(ua \cup ra) = Cardinality(ua) + Cardinality(ra) - Cardinality({})
    BY <1>4, <1>5, <1>9, FS_Union
  <2>2. Cardinality(ra) \in Nat /\ Cardinality({}) = 0
    BY <1>5, FS_CardinalityType, FS_EmptySet
  <2> QED
    BY <1>1, <1>2, <1>4, <1>5, <2>1, <2>2
<1>11. u + LiveIn(g, r) = k
  <2>1. PICK v \in Nat, w \in Nat, q \in Nat :
          v = Len(g.urgent) /\ w = all /\ q = LiveIn(g, r)
    BY Zenon, <1>1, <1>6, <1>8
  <2>2. /\ u = (IF n <= v THEN n ELSE v) /\ n - u \in Nat
        /\ q = (IF n - u <= w THEN n - u ELSE w) /\ Available(g) = v + w
    BY <1>6, <1>7, <1>8, <2>1
  <2>3. k = IF n <= v + w THEN n ELSE v + w
    BY <2>2
  <2> HIDE DEF k
  <2>4. CASE n <= v
    <3>1. u = n /\ n - u = 0
      BY <2>2, <2>4
    <3>2. q = 0 /\ k = n
      BY <2>2, <2>3, <2>4, <3>1
    <3> QED
      BY <2>1, <3>1, <3>2
  <2>5. CASE ~(n <= v)
    <3>1. u = v
      BY <2>2, <2>5
    <3>2. q = IF n - v <= w THEN n - v ELSE w
      BY <2>2, <3>1
    <3>3. v + q = k
      BY <2>3, <2>5, <3>2
    <3> QED
      BY <2>1, <3>1, <3>3
  <2> QED
    BY <2>4, <2>5
<1>12. Cardinality(h.processing) = Cardinality(g.processing) + k
  <2>1. Cardinality(g.processing \cup (ua \cup ra))
          = Cardinality(g.processing) + Cardinality(ua \cup ra) - Cardinality({})
    BY <1>9, <1>10, FS_Union
  <2>2. Cardinality({}) = 0 /\ Cardinality(ua \cup ra) \in Nat
    BY <1>10, FS_EmptySet, FS_CardinalityType
  <2> HIDE DEF k
  <2> QED
    BY <1>3, <1>9, <1>10, <1>11, <2>1, <2>2
<1>13. k = 0 => h.processing = g.processing
  <2>1. k = 0 => ua \cup ra = {}
    BY <1>10, <1>11, FS_EmptySet
  <2> HIDE DEF k
  <2> QED
    BY <1>3, <2>1
<1>14. ASSUME n > Available(g)
       PROVE  Len(h.urgent) = 0 /\ Len(h.ready) = 0
  <2>1. u = Len(g.urgent) /\ r = Len(g.ready)
    BY <1>1, <1>6, <1>7, <1>8, <1>14
  <2>2. Len(SubSeq(g.urgent, u + 1, Len(g.urgent))) = Len(g.urgent) - u
    BY <1>1, <1>2, CutSequence
  <2>3. Len(SubSeq(g.ready, r + 1, Len(g.ready))) = Len(g.ready) - r
    BY <1>1, <1>2, CutSequence DEF Slots
  <2> QED
    BY <1>1, <1>3, <2>1, <2>2, <2>3
<1> HIDE DEF k
<1> QED
  BY <1>12, <1>13, <1>14 DEF k

(* A message of ready is handed out after all of urgent and after those    *)
(* before it.                                                              *)
LEMMA LeaseOrder ==
  ASSUME NEW g \in GroupType, WellPlaced(g), NEW n \in Nat, NEW t \in Int,
         NEW h, Leased(g, h, n, t),
         NEW i \in DOMAIN g.ready, g.ready[i] \in h.processing
  PROVE  /\ Live(h.urgent) = {}
         /\ \A j \in 1..(i - 1) : g.ready[j] \notin Live(h.ready)
<1> DEFINE u == UrgentTaken(g, n)
           r == ReadyTaken(g, n)
           ua == Live(SubSeq(g.urgent, 1, u))
           a == SubSeq(g.ready, 1, r)
           b == SubSeq(g.ready, r + 1, Len(g.ready))
<1>1. /\ g.ready \in Slots /\ g.urgent \in Slots /\ g.urgent \in Seq(Ids)
      /\ NoRepeat(g.ready) /\ NoRepeat(g.urgent)
      /\ Len(g.ready) \in Nat /\ Len(g.urgent) \in Nat
      /\ DOMAIN g.ready = 1..Len(g.ready)
  BY UrgentSlots, LenProperties DEF GroupType, Slots, WellPlaced
<1>2. u \in 0..Len(g.urgent) /\ r \in 0..Len(g.ready)
  BY ConsumedSlots
<1>3. /\ h.urgent = SubSeq(g.urgent, u + 1, Len(g.urgent)) /\ h.ready = b
      /\ h.processing = g.processing \cup (ua \cup Live(a))
  BY LeaseParts
<1>4. ua \subseteq Live(g.urgent)
  BY <1>1, <1>2, SlotsCut
<1>5. /\ a \in Slots /\ Len(a) = r /\ \A j \in 1..r : a[j] = g.ready[j]
      /\ b \in Slots /\ Len(b) = Len(g.ready) - r
      /\ \A j \in 1..(Len(g.ready) - r) : b[j] = g.ready[r + j]
  <2> HIDE DEF r
  <2>1. PICK s : s = g.ready
    OBVIOUS
  <2>2. s \in Seq(Ids \cup {Nil}) /\ r \in 0..Len(s)
    BY <1>1, <1>2, <2>1 DEF Slots
  <2>3. /\ SubSeq(s, 1, r) \in Seq(Ids \cup {Nil}) /\ Len(SubSeq(s, 1, r)) = r
        /\ \A j \in 1..r : SubSeq(s, 1, r)[j] = s[j]
    BY <2>2, CutSequence
  <2>4. /\ SubSeq(s, r + 1, Len(s)) \in Seq(Ids \cup {Nil})
        /\ Len(SubSeq(s, r + 1, Len(s))) = Len(s) - r
        /\ \A j \in 1..(Len(s) - r) : SubSeq(s, r + 1, Len(s))[j] = s[r + j]
    BY <2>2, CutSequence
  <2>5. a = SubSeq(s, 1, r) /\ b = SubSeq(s, r + 1, Len(s))
    BY <2>1
  <2> HIDE DEF a, b
  <2> QED
    BY <2>1, <2>3, <2>4, <2>5 DEF Slots
<1> HIDE DEF u, r, ua, a, b
<1>6. DOMAIN a = 1..r /\ DOMAIN b = 1..(Len(g.ready) - r)
  BY <1>5, LenProperties DEF Slots
<1>7. g.ready[i] # Nil /\ g.ready[i] \in Live(g.ready)
  <2>1. h.processing \subseteq Ids
    <3>1. Live(a) \subseteq Ids
      BY <1>5, RangeOfSeq DEF Live, Slots
    <3>2. Live(g.urgent) \subseteq Ids
      BY <1>1, UrgentSlots
    <3> QED
      BY <1>3, <1>4, <3>1, <3>2 DEF GroupType
  <2> QED
    BY <2>1, IdsAssumption DEF Live, Range
<1>8. g.ready[i] \in Live(a)
  <2>1. g.ready[i] \notin g.processing /\ g.ready[i] \notin Live(g.urgent)
    BY <1>7 DEF WellPlaced
  <2> QED
    BY <1>3, <1>4, <2>1
<1>9. PICK j \in 1..r : g.ready[j] = g.ready[i]
  <2>1. PICK x \in DOMAIN a : a[x] = g.ready[i]
    BY <1>8 DEF Live, Range
  <2>2. x \in 1..r
    BY <1>6
  <2> QED
    BY Zenon, <1>5, <2>1, <2>2
<1>10. i <= r /\ i \in 1..Len(g.ready)
  <2>1. j \in DOMAIN g.ready
    BY <1>1, <1>2
  <2>2. j = i
    BY <1>1, <1>7, <1>9, <2>1 DEF NoRepeat
  <2> QED
    BY <1>1, <1>2, <2>2
<1>11. Live(h.urgent) = {}
  <2>1. n - u # 0 /\ n - u \in Nat
    <3>1. n - u = 0 => r = 0
      BY ReadyTakenLive DEF u, r
    <3>2. n - u \in Nat
      BY ReadyTakenLive DEF u
    <3> QED
      BY <1>10, <3>1, <3>2
  <2>2. u = Len(g.urgent)
    <3>1. u = IF n <= Len(g.urgent) THEN n ELSE Len(g.urgent)
      BY DEF u, UrgentTaken
    <3> QED
      BY <1>1, <2>1, <3>1
  <2>3. h.urgent \in Seq(Ids) /\ Len(h.urgent) = 0
    <3>1. /\ SubSeq(g.urgent, u + 1, Len(g.urgent)) \in Seq(Ids)
          /\ Len(SubSeq(g.urgent, u + 1, Len(g.urgent))) = Len(g.urgent) - u
      BY <1>1, <1>2, CutSequence
    <3> QED
      BY <1>1, <1>3, <2>2, <3>1
  <2>4. h.urgent = <<>>
    BY <2>3, EmptySeq
  <2> QED
    BY <2>4 DEF Live, Range
<1>12. ASSUME NEW q \in 1..(i - 1), g.ready[q] \in Live(b)
       PROVE  FALSE
  <2>1. PICK x \in DOMAIN b : b[x] = g.ready[q] /\ b[x] # Nil
    BY <1>12 DEF Live, Range
  <2>2. /\ r + x \in DOMAIN g.ready /\ g.ready[r + x] = g.ready[q]
        /\ q \in DOMAIN g.ready /\ q # r + x
    <3>1. x \in 1..(Len(g.ready) - r)
      BY <1>6
    <3>2. g.ready[r + x] = g.ready[q]
      <4>1. b[x] = g.ready[r + x]
        BY Zenon, <1>5, <3>1
      <4> QED
        BY Zenon, <2>1, <4>1
    <3>3. r + x \in 1..Len(g.ready) /\ q \in 1..Len(g.ready) /\ q # r + x
      <4>1. PICK N : N = Len(g.ready)
        BY Zenon
      <4>2. N \in Nat /\ r \in 0..N /\ i \in 1..N /\ i <= r
        BY <1>1, <1>2, <1>10, <4>1
      <4>3. x \in 1..(N - r)
        BY <3>1, <4>1
      <4>4. r + x \in 1..N /\ q \in 1..N /\ q # r + x
        BY <4>2, <4>3
      <4> QED
        BY <4>1, <4>4
    <3> QED
      BY <1>1, <3>2, <3>3
  <2> QED
    BY <1>1, <1>5, <1>6, <2>1, <2>2 DEF NoRepeat
<1> QED
  BY <1>3, <1>11, <1>12

-----------------------------------------------------------------------------
(* Capacity, order, and what a drain leaves behind.                        *)

LEMMA DispatchLeases ==
  ASSUME NEW g \in GroupType, WellPlaced(g), NEW t \in Int, NEW budget \in Nat
  PROVE  Leased(g, Dispatch(g, t, budget), Passed(g, t, budget), t)
<1> DEFINE n == Passed(g, t, budget)
           l == Lease(g, n, t)
           e == IF HasLimiter /\ Free(g) > 0 THEN Admit(l.events, t, n) ELSE l.events
<1>1. n \in Nat
  BY ObtainedBounds
<1>2. l \in GroupType
  BY <1>1, LeaseSound DEF HandsOut, Rearranges
<1>3. Dispatch(g, t, budget) = [l EXCEPT !.events = e]
  BY DEF Dispatch
<1> HIDE DEF l, e
<1>4. /\ [l EXCEPT !.events = e].ready = l.ready /\ [l EXCEPT !.events = e].urgent = l.urgent
      /\ [l EXCEPT !.events = e].delayed = l.delayed
      /\ [l EXCEPT !.events = e].processing = l.processing
      /\ [l EXCEPT !.events = e].at = l.at /\ [l EXCEPT !.events = e].cfg = l.cfg
  BY Zenon, <1>2 DEF GroupType
<1> QED
  BY <1>3, <1>4 DEF Leased, l

LEMMA DrainedLeases ==
  ASSUME NEW g \in GroupType, WellPlaced(g), NEW t \in Int, PendingCount(g) # 0
  PROVE  /\ g.deficit + Quantum(g) \in Nat
         /\ Leased(g, Drained(g, t), Passed(g, t, g.deficit + Quantum(g)), t)
<1> DEFINE budget == g.deficit + Quantum(g)
           x == Dispatch(g, t, budget)
           left == budget - Obtained(g, t, budget)
<1>1. budget \in Nat
  BY DEF GroupType, ConfigType, Quantum
<1>2. x \in GroupType /\ Leased(g, x, Passed(g, t, budget), t)
  BY Zenon, <1>1, DispatchSound, DispatchLeases DEF HandsOut, Rearranges
<1>3. Drained(g, t) = [x EXCEPT !.deficit = left]
  BY DEF Drained
<1> HIDE DEF x, left, budget
<1>4. /\ [x EXCEPT !.deficit = left].ready = x.ready
      /\ [x EXCEPT !.deficit = left].urgent = x.urgent
      /\ [x EXCEPT !.deficit = left].delayed = x.delayed
      /\ [x EXCEPT !.deficit = left].processing = x.processing
      /\ [x EXCEPT !.deficit = left].at = x.at /\ [x EXCEPT !.deficit = left].cfg = x.cfg
  BY Zenon, <1>2 DEF GroupType
<1>5. Leased(g, Drained(g, t), Passed(g, t, budget), t)
  BY <1>2, <1>3, <1>4 DEF Leased
<1> QED
  BY <1>1, <1>5 DEF budget

(* The calls of one dispatch hand out as many messages as they obtain.     *)
LEMMA HandedOut ==
  ASSUME NEW g \in GroupType, WellPlaced(g), NEW t \in Int, NEW budget \in Nat,
         NEW h, Leased(g, h, Passed(g, t, budget), t)
  PROVE  LET n == Obtained(g, t, budget)
         IN  /\ n \in Nat
             /\ Cardinality(h.processing) = Cardinality(g.processing) + n
             /\ n = 0 => h.processing = g.processing
             /\ StopReason(g, t, budget) = "empty" => Len(h.urgent) = 0 /\ Len(h.ready) = 0
<1> DEFINE n == Obtained(g, t, budget)
           c == Passed(g, t, budget)
           k == IF c <= Available(g) THEN c ELSE Available(g)
<1>1. /\ n \in Nat /\ n <= Available(g) /\ c \in Nat /\ Available(g) \in Nat
      /\ Free(g) \in Int
  BY ObtainedBounds, CountsSound
<1>2. /\ c = n + (IF StopReason(g, t, budget) = "empty" THEN 1 ELSE 0)
      /\ StopReason(g, t, budget) = "empty" => n = Available(g)
  <2>1. c = n + (IF StopReason(g, t, budget) = "empty" THEN 1 ELSE 0)
    BY DEF Passed
  <2>2. ASSUME StopReason(g, t, budget) = "empty"
        PROVE  n = Available(g)
    <3>1. n # budget /\ ~(Free(g) <= n)
      BY <2>2 DEF StopReason
    <3>2. ~(LimiterRoom(g, t, budget) <= n)
      <4>1. Free(g) > n
        BY <1>1, <3>1
      <4> QED
        BY <2>2, <3>1, <4>1 DEF StopReason
    <3>3. \/ n \in {budget, Available(g)} \/ Free(g) <= n
          \/ LimiterRoom(g, t, budget) <= n
      BY ObtainedBounds
    <3> HIDE DEF n
    <3> QED
      BY <3>1, <3>2, <3>3
  <2> QED
    BY <2>1, <2>2
<1>3. /\ Cardinality(h.processing) = Cardinality(g.processing) + k
      /\ k = 0 => h.processing = g.processing
      /\ c > Available(g) => Len(h.urgent) = 0 /\ Len(h.ready) = 0
  <2>1. PICK d \in Nat : d = c
    BY <1>1
  <2>2. Leased(g, h, d, t)
    BY <2>1
  <2> QED
    BY <2>1, <2>2, LeaseCount
<1> HIDE DEF n, c
<1>4. k = n
  BY <1>1, <1>2
<1>5. StopReason(g, t, budget) = "empty" => c > Available(g)
  BY <1>1, <1>2
<1> HIDE DEF k
<1> QED
  BY <1>1, <1>3, <1>4, <1>5 DEF n

(* A group hands messages out only while it stays within its parallelism.  *)
LEMMA CapacityKept ==
  ASSUME NEW g \in GroupType, WellPlaced(g), NEW t \in Int, NEW budget \in Nat,
         NEW h, Leased(g, h, Passed(g, t, budget), t)
  PROVE  h.processing = g.processing \/ Cardinality(h.processing) <= g.cfg.parallelism
<1> DEFINE n == Obtained(g, t, budget)
<1>1. /\ n \in Nat /\ Cardinality(h.processing) = Cardinality(g.processing) + n
      /\ n = 0 => h.processing = g.processing
  BY HandedOut
<1>2. n = 0 \/ n <= Free(g)
  BY ObtainedBounds
<1>3. Cardinality(g.processing) \in Nat /\ g.cfg.parallelism \in Int
  BY Zenon, CountsSound DEF GroupType, ConfigType
<1> HIDE DEF n
<1> QED
  BY <1>1, <1>2, <1>3 DEF Free

(* promoteDelayed only adds to the end of ready.                           *)
LEMMA PromotionKeepsReady ==
  ASSUME NEW g \in GroupType, WellPlaced(g), NEW t \in Int, NEW p \in Promotions(g, t)
  PROVE  \A i \in DOMAIN g.ready : i \in DOMAIN p.ready /\ p.ready[i] = g.ready[i]
<1>1. PICK lapsed \in Orders(Expired(g, t)), ripe \in HeapOrders(g, Due(g, t)) :
        p = Promote(g, lapsed, ripe)
  BY DEF Promotions
<1>2. ripe \in Slots
  <2>1. Due(g, t) \in SUBSET Ids /\ ripe \in Orders(Due(g, t))
    BY DEF Due, HeapOrders, GroupType
  <2> QED
    BY <2>1, OrdersList
<1>3. p.ready = g.ready \o ripe
  BY <1>1 DEF Promote, GroupType
<1>4. g.ready \in Seq(Ids \cup {Nil}) /\ ripe \in Seq(Ids \cup {Nil})
  BY <1>2 DEF GroupType, Slots
<1>5. /\ p.ready \in Seq(Ids \cup {Nil}) /\ Len(p.ready) = Len(g.ready) + Len(ripe)
      /\ \A i \in 1..(Len(g.ready) + Len(ripe)) :
           p.ready[i] = IF i <= Len(g.ready) THEN g.ready[i] ELSE ripe[i - Len(g.ready)]
  BY <1>3, <1>4, ConcatProperties
<1>6. /\ Len(g.ready) \in Nat /\ DOMAIN g.ready = 1..Len(g.ready) /\ Len(ripe) \in Nat
      /\ DOMAIN p.ready = 1..Len(p.ready)
  BY <1>4, <1>5, LenProperties
<1> QED
  BY <1>5, <1>6

(* The steps that may hand messages out are a promotion and a dispatch,    *)
(* from the group or from what an answer leaves of it.                     *)
LEMMA HandOutSteps ==
  ASSUME IInv, Next
  PROVE  \/ grp'.processing \subseteq grp.processing
         \/ \E g \in GroupType, b \in Nat :
              /\ WellPlaced(g) /\ g.ready = grp.ready /\ g.cfg = grp.cfg
              /\ g.processing \subseteq grp.processing
              /\ \E p \in Promotions(g, now) : Leased(p, grp', Passed(p, now, b), now)
<1>1. /\ grp \in GroupType /\ WellPlaced(grp) /\ now \in Int /\ published \subseteq Ids
      /\ grp.cfg \in InForce
  BY DEF IInv, TypeOK, OnePlace
<1>2. ASSUME NEW g \in GroupType, WellPlaced(g), g.ready = grp.ready, g.cfg = grp.cfg,
             g.processing \subseteq grp.processing, PromoteAndNext(g)
      PROVE  \E b \in Nat : \E p \in Promotions(g, now) : Leased(p, grp', Passed(p, now, b), now)
  <2>1. PICK p \in Promotions(g, now) : grp' = Dispatch(p, now, 1)
    BY <1>2 DEF PromoteAndNext
  <2>2. p \in GroupType /\ WellPlaced(p)
    BY <1>1, <1>2, PromotionsSound DEF Rearranges
  <2>3. Leased(p, grp', Passed(p, now, 1), now)
    BY <1>1, <2>1, <2>2, DispatchLeases
  <2> QED
    BY <2>3
<1> SUFFICES ASSUME ~(grp'.processing \subseteq grp.processing)
             PROVE  \E g \in GroupType, b \in Nat :
                      /\ WellPlaced(g) /\ g.ready = grp.ready /\ g.cfg = grp.cfg
                      /\ g.processing \subseteq grp.processing
                      /\ \E p \in Promotions(g, now) : Leased(p, grp', Passed(p, now, b), now)
  OBVIOUS
<1>3. ASSUME NEW m \in Ids, Publish(m) PROVE FALSE
  <2>1. m \notin Held(grp)
    BY <1>3 DEF IInv, Conservation, Publish
  <2>2. grp'.processing = grp.processing
    BY <1>1, <1>3, <2>1, EnqueueSound DEF Publish
  <2> QED
    BY <2>2
<1>4. CASE TryDispatchOne
  BY <1>1, <1>2, <1>4 DEF TryDispatchOne
<1>5. ASSUME NEW m \in published, CompleteAndNext(m)
      PROVE  \E g \in GroupType, b \in Nat :
               /\ WellPlaced(g) /\ g.ready = grp.ready /\ g.cfg = grp.cfg
               /\ g.processing \subseteq grp.processing
               /\ \E p \in Promotions(g, now) : Leased(p, grp', Passed(p, now, b), now)
  <2>1. PICK g : g = Complete(grp, m)
    OBVIOUS
  <2>2. /\ g \in GroupType /\ WellPlaced(g) /\ g.ready = grp.ready /\ g.cfg = grp.cfg
        /\ g.processing \subseteq grp.processing
    BY <1>1, <1>5, <2>1, CompleteSound
  <2>3. PromoteAndNext(g)
    BY <1>5, <2>1 DEF CompleteAndNext
  <2> QED
    BY <1>2, <2>2, <2>3
<1>6. ASSUME NEW m \in published, FailAndNext(m)
      PROVE  \E g \in GroupType, b \in Nat :
               /\ WellPlaced(g) /\ g.ready = grp.ready /\ g.cfg = grp.cfg
               /\ g.processing \subseteq grp.processing
               /\ \E p \in Promotions(g, now) : Leased(p, grp', Passed(p, now, b), now)
  <2>1. PICK g : g = Fail(grp, m, now)
    OBVIOUS
  <2>2. /\ g \in GroupType /\ WellPlaced(g) /\ g.ready = grp.ready /\ g.cfg = grp.cfg
        /\ g.processing \subseteq grp.processing
    BY <1>1, <1>6, <2>1, FailSound
  <2>3. PromoteAndNext(g)
    BY <1>6, <2>1 DEF FailAndNext
  <2> QED
    BY <1>2, <2>2, <2>3
<1>7. ASSUME NEW m \in published, GiveBack(m) PROVE FALSE
  <2>1. grp'.processing = grp.processing \ {m}
    BY <1>1, <1>7, ReturnSound DEF GiveBack
  <2> QED
    BY <2>1
<1>8. ASSUME SweepExpiredLeases PROVE FALSE
  <2>1. PICK lapsed : grp' = Promote(grp, lapsed, <<>>)
    BY <1>8 DEF SweepExpiredLeases
  <2>2. grp'.processing = grp.processing \ Range(lapsed)
    BY <1>1, <2>1 DEF Promote, GroupType
  <2> QED
    BY <2>2
<1>9. CASE DrainGroup
  <2>1. PICK p \in Promotions(grp, now) : grp' = Drained(p, now)
    BY <1>9 DEF DrainGroup
  <2>2. p \in GroupType /\ WellPlaced(p) /\ p.processing \subseteq grp.processing
    BY <1>1, PromotionsSound DEF Rearranges
  <2>3. PendingCount(p) # 0
    BY <2>1, <2>2 DEF Drained
  <2>4. PICK b \in Nat : Leased(p, grp', Passed(p, now, b), now)
    BY <1>1, <2>1, <2>2, <2>3, DrainedLeases
  <2> QED
    BY <1>1, <2>4
<1>10. ASSUME NEW c \in Configs, SetGroupConfig(c) PROVE FALSE
  <2>1. grp'.processing = grp.processing
    BY <1>1, <1>10 DEF SetGroupConfig, GroupType
  <2> QED
    BY <2>1
<1>11. ASSUME Tick PROVE FALSE
  BY <1>11 DEF Tick
<1> QED
  BY <1>1, <1>3, <1>4, <1>5, <1>6, <1>7, <1>8, <1>9, <1>10, <1>11 DEF Next

-----------------------------------------------------------------------------
(* The wake-up drainRound asks for.                                        *)

LEMMA EarliestFacts ==
  ASSUME NEW S \in SUBSET Int, IsFiniteSet(S)
  PROVE  /\ Earliest(S) \in SUBSET S
         /\ \A x \in S : \E y \in Earliest(S) : y <= x
<1>1. ASSUME NEW x \in S
      PROVE  \E y \in Earliest(S) : y <= x
  <2>1. PICK y \in S : \A z \in S : y <= z
    BY LeastOfIntegers
  <2> QED
    BY <2>1 DEF Earliest
<1> QED
  BY <1>1 DEF Earliest

(* The wake-up promoteDelayed asks for is no later than any running lease  *)
(* and any pending retry.                                                  *)
LEMMA PromotedWakeCovers ==
  ASSUME NEW g \in GroupType
  PROVE  /\ PromotedWake(g) \in SUBSET Int /\ IsFiniteSet(PromotedWake(g))
         /\ \A m \in g.processing \cup g.delayed : \E y \in PromotedWake(g) : y <= g.at[m]
<1> DEFINE H == g.processing \cup g.delayed
           S == {g.at[m] : m \in H}
<1>1. H \in SUBSET Ids /\ S \in SUBSET Int
  BY DEF GroupType
<1>2. IsFiniteSet(S)
  <2>1. IsFiniteSet(H)
    BY <1>1, IdsAssumption, FS_Subset
  <2> DEFINE f == [m \in H |-> g.at[m]]
  <2>2. f \in Surjection(H, S)
    <3>1. f \in [H -> S]
      OBVIOUS
    <3>2. \A x \in S : \E m \in H : f[m] = x
      OBVIOUS
    <3> HIDE DEF f, S, H
    <3> QED
      BY <3>1, <3>2 DEF Surjection
  <2> HIDE DEF f, S, H
  <2> QED
    BY <2>1, <2>2, FS_Surjection
<1>3. /\ PromotedWake(g) = Earliest(S) /\ Earliest(S) \in SUBSET S
      /\ \A x \in S : \E y \in Earliest(S) : y <= x
  <2>1. PromotedWake(g) = Earliest(S)
    BY DEF PromotedWake
  <2> HIDE DEF S
  <2> QED
    BY <1>1, <1>2, <2>1, EarliestFacts
<1>4. IsFiniteSet(PromotedWake(g))
  BY <1>2, <1>3, FS_Subset
<1> QED
  BY Zenon, <1>1, <1>3, <1>4

(* What drainRound leaves behind is covered by what it returns.            *)
LEMMA DrainCovers ==
  ASSUME NEW g \in GroupType, WellPlaced(g), NEW t \in Int
  PROVE  LET h == Drained(g, t)
             r == DrainReturn(g, t)
         IN  /\ PendingCount(h) > 0 => r.still \/ r.wake # {} \/ Free(h) <= 0
             /\ \A m \in h.delayed : \E y \in r.wake : y <= h.at[m]
<1> DEFINE h == Drained(g, t)
           r == DrainReturn(g, t)
           budget == g.deficit + Quantum(g)
           stop == StopReason(g, t, budget)
           late == PromotedWake(g) \cup {RetryAt(Drained(g, t).events, t)}
           wake == IF PendingCount(g) > 0 /\ stop = "rate"
                   THEN Earliest(late) ELSE PromotedWake(g)
           still == /\ PendingCount(g) > 0
                    /\ stop = "budget"
                    /\ wake = {}
                    /\ PendingCount(Drained(g, t)) > 0
<1>1. r.wake = wake /\ r.still = still
  <2>1. r = [wake |-> wake, still |-> still]
    BY DEF DrainReturn
  <2> HIDE DEF r, wake, still
  <2> QED
    BY <2>1
<1>2. /\ h \in GroupType /\ h.delayed = g.delayed /\ h.cfg = g.cfg
      /\ \A m \in g.delayed : h.at[m] = g.at[m]
  BY DrainedSound DEF HandsOut, Rearranges
<1>3. /\ PromotedWake(g) \in SUBSET Int /\ IsFiniteSet(PromotedWake(g))
      /\ \A m \in g.processing \cup g.delayed : \E y \in PromotedWake(g) : y <= g.at[m]
  BY PromotedWakeCovers
<1>4. ASSUME PendingCount(g) > 0, stop = "rate"
      PROVE  /\ Earliest(late) # {}
             /\ \A m \in g.delayed : \E y \in Earliest(late) : y <= g.at[m]
  <2>1. late \in SUBSET Int
    BY <1>3, <1>4, DrainRetryAt
  <2>2. IsFiniteSet(late)
    BY <1>3, FS_AddElement
  <2>3. RetryAt(Drained(g, t).events, t) \in late /\ PromotedWake(g) \in SUBSET late
    OBVIOUS
  <2> HIDE DEF late
  <2>4. /\ Earliest(late) \in SUBSET late
        /\ \A x \in late : \E y \in Earliest(late) : y <= x
    BY <2>1, <2>2, EarliestFacts
  <2>5. ASSUME NEW m \in g.delayed
        PROVE  \E y \in Earliest(late) : y <= g.at[m]
    <3>1. PICK x \in PromotedWake(g) : x <= g.at[m]
      BY <1>3
    <3>2. PICK y \in Earliest(late) : y <= x
      BY <2>3, <2>4
    <3>3. x \in Int /\ y \in Int /\ g.at[m] \in Int
      BY Zenon, <1>3, <2>1, <2>4 DEF GroupType
    <3> QED
      BY <3>1, <3>2, <3>3
  <2> QED
    BY <2>3, <2>4, <2>5
<1> HIDE DEF late, budget, stop
<1>5. \A m \in h.delayed : \E y \in r.wake : y <= h.at[m]
  <2>1. \A m \in g.delayed : \E y \in wake : y <= g.at[m]
    BY <1>3, <1>4
  <2> HIDE DEF wake, r, h
  <2> QED
    BY <1>1, <1>2, <2>1
<1>6. ASSUME PendingCount(h) > 0, wake = {}, ~still
      PROVE  Free(h) <= 0
  <2>1. PendingCount(g) > 0 /\ PendingCount(g) # 0
    <3>1. CASE PendingCount(g) = 0
      <4>1. h = g
        BY <3>1 DEF Drained
      <4> QED
        BY <1>6, <3>1, <4>1
    <3>2. PendingCount(g) \in Nat
      BY CountsSound
    <3> QED
      BY <3>1, <3>2
  <2>2. stop # "rate" /\ stop # "budget"
    BY <1>4, <1>6, <2>1
  <2>3. g.processing = {} /\ g.delayed = {}
    <3>1. PromotedWake(g) = {}
      BY <1>6, <2>2
    <3> QED
      BY <1>3, <3>1
  <2>4. budget \in Nat /\ Leased(g, h, Passed(g, t, budget), t)
    BY <2>1, DrainedLeases DEF budget
  <2> DEFINE n == Obtained(g, t, budget)
  <2>5. /\ n \in Nat /\ Cardinality(h.processing) = Cardinality(g.processing) + n
        /\ stop = "empty" => Len(h.urgent) = 0 /\ Len(h.ready) = 0
    <3>1. PICK x : x = h
      OBVIOUS
    <3>2. /\ n \in Nat /\ Cardinality(x.processing) = Cardinality(g.processing) + n
          /\ stop = "empty" => Len(x.urgent) = 0 /\ Len(x.ready) = 0
      <4> HIDE DEF h
      <4>1. Leased(g, x, Passed(g, t, budget), t)
        BY <2>4, <3>1
      <4> QED
        BY <2>4, <4>1, HandedOut DEF stop
    <3> QED
      BY <3>1, <3>2
  <2>6. stop # "empty"
    <3>1. Cardinality(h.delayed) = 0
      BY <1>2, <2>3, FS_EmptySet
    <3>2. ASSUME stop = "empty" PROVE PendingCount(h) = 0
      <4>1. Len(h.urgent) = 0 /\ Len(h.ready) = 0
        BY <2>5, <3>2
      <4>2. PendingCount(h) = Len(h.urgent) + Len(h.ready) + Cardinality(h.delayed)
        BY DEF PendingCount
      <4>3. PendingCount(h) = 0 + 0 + 0
        BY Zenon, <3>1, <4>1, <4>2
      <4> QED
        BY <4>3
    <3> QED
      BY <1>6, <3>2
  <2>7. Free(g) <= n
    BY <2>2, <2>6 DEF stop, StopReason
  <2>8. Cardinality(g.processing) \in Nat /\ g.cfg.parallelism \in Int
    BY Zenon, CountsSound DEF GroupType, ConfigType
  <2> HIDE DEF n, h
  <2> QED
    BY <1>2, <2>5, <2>7, <2>8 DEF Free
<1> HIDE DEF still, wake, r, h
<1>7. PendingCount(h) > 0 => r.still \/ r.wake # {} \/ Free(h) <= 0
  <2>1. CASE still
    BY <1>1, <2>1
  <2>2. CASE ~still
    BY <1>1, <1>6, <2>2
  <2> QED
    BY <2>1, <2>2
<1> QED
  BY <1>5, <1>7 DEF r, h

(* Only a drain leaves an answer behind, and that answer covers the group. *)
LEMMA DrainStepCovers ==
  ASSUME IInv, Next
  PROVE  DrainCoversPending'
<1>1. /\ grp \in GroupType /\ WellPlaced(grp) /\ now \in Int
  BY DEF IInv, TypeOK, OnePlace
<1>2. CASE DrainGroup
  <2>1. PICK p \in Promotions(grp, now) :
          grp' = Drained(p, now) /\ drained' = {DrainReturn(p, now)}
    BY <1>2 DEF DrainGroup
  <2>2. p \in GroupType /\ WellPlaced(p)
    BY <1>1, PromotionsSound DEF Rearranges
  <2>3. PICK h, r : h = Drained(p, now) /\ r = DrainReturn(p, now)
    OBVIOUS
  <2>4. /\ PendingCount(h) > 0 => r.still \/ r.wake # {} \/ Free(h) <= 0
        /\ \A m \in h.delayed : \E y \in r.wake : y <= h.at[m]
    BY <1>1, <2>2, <2>3, DrainCovers
  <2>5. grp' = h /\ drained' = {r}
    BY <2>1, <2>3
  <2> QED
    BY <2>4, <2>5 DEF DrainCoversPending
<1>3. CASE ~DrainGroup
  <2>1. drained' = {}
    BY <1>3 DEF Next, Publish, TryDispatchOne, CompleteAndNext, FailAndNext, GiveBack,
         PromoteAndNext, SweepExpiredLeases, SetGroupConfig, Tick
  <2> QED
    BY <2>1 DEF DrainCoversPending
<1> QED
  BY <1>2, <1>3

(* After any drain every pending message is provided for.                  *)
THEOREM DrainsCoverPending == Spec => []DrainCoversPending
<1>1. Init => DrainCoversPending
  BY DEF Init, DrainCoversPending
<1>2. IInv /\ DrainCoversPending /\ [Next]_vars => DrainCoversPending'
  <2>1. ASSUME DrainCoversPending, UNCHANGED vars PROVE DrainCoversPending'
    <3>1. grp' = grp /\ drained' = drained
      BY <2>1 DEF vars
    <3> QED
      BY Zenon, <2>1, <3>1 DEF DrainCoversPending, PendingCount, Free
  <2> QED
    BY <2>1, DrainStepCovers
<1> QED
  BY <1>1, <1>2, Invariance, PTL DEF Spec

(* Whichever path dispatches, it stays within the parallelism.             *)
THEOREM ParallelismKept == Spec => ParallelismRespected
<1>1. ASSUME IInv, Next
      PROVE  grp'.processing \subseteq grp.processing
               \/ Cardinality(grp'.processing) <= grp.cfg.parallelism
  <2> SUFFICES ASSUME ~(grp'.processing \subseteq grp.processing)
               PROVE  Cardinality(grp'.processing) <= grp.cfg.parallelism
    OBVIOUS
  <2>1. PICK g \in GroupType, b \in Nat :
          /\ WellPlaced(g) /\ g.ready = grp.ready /\ g.cfg = grp.cfg
          /\ g.processing \subseteq grp.processing
          /\ \E p \in Promotions(g, now) : Leased(p, grp', Passed(p, now, b), now)
    BY <1>1, HandOutSteps
  <2>2. PICK p \in Promotions(g, now) : Leased(p, grp', Passed(p, now, b), now)
    BY <2>1
  <2>3. now \in Int
    BY <1>1 DEF IInv, TypeOK
  <2>4. /\ p \in GroupType /\ WellPlaced(p) /\ p.cfg = grp.cfg
        /\ p.processing \subseteq grp.processing
    BY <2>1, <2>3, PromotionsSound DEF Rearranges
  <2>5. grp'.processing = p.processing
          \/ Cardinality(grp'.processing) <= p.cfg.parallelism
    BY <2>2, <2>3, <2>4, CapacityKept
  <2> QED
    BY <2>4, <2>5
<1>2. IInv /\ [Next]_vars =>
        [grp'.processing \subseteq grp.processing
           \/ Cardinality(grp'.processing) <= grp.cfg.parallelism]_vars
  BY <1>1
<1> QED
  BY <1>2, Invariance, PTL DEF Spec, ParallelismRespected

(* urgent is served before ready, and ready in order.                      *)
THEOREM DispatchOrdered == Spec => DispatchOrder
<1>1. ASSUME IInv, Next, NEW i \in DOMAIN grp.ready, grp.ready[i] \in grp'.processing
      PROVE  /\ Live(grp.urgent) \cap Live(grp'.urgent) = {}
             /\ \A j \in 1..(i - 1) : grp.ready[j] \notin Live(grp'.ready)
  <2>1. /\ grp \in GroupType /\ WellPlaced(grp) /\ now \in Int
        /\ grp'.processing \subseteq Ids
    <3>1. IInv'
      BY <1>1, StepSound
    <3> QED
      BY <1>1, <3>1 DEF IInv, TypeOK, OnePlace, GroupType
  <2>2. ~(grp'.processing \subseteq grp.processing)
    <3>1. grp.ready[i] \in Live(grp.ready)
      BY <1>1, <2>1, IdsAssumption DEF Live, Range
    <3>2. grp.ready[i] \notin grp.processing
      BY <2>1, <3>1 DEF WellPlaced
    <3> QED
      BY <1>1, <3>2
  <2>3. PICK g \in GroupType, b \in Nat :
          /\ WellPlaced(g) /\ g.ready = grp.ready /\ g.cfg = grp.cfg
          /\ g.processing \subseteq grp.processing
          /\ \E p \in Promotions(g, now) : Leased(p, grp', Passed(p, now, b), now)
    BY <1>1, <2>2, HandOutSteps
  <2>4. PICK p \in Promotions(g, now) : Leased(p, grp', Passed(p, now, b), now)
    BY <2>3
  <2>5. /\ p \in GroupType /\ WellPlaced(p)
    BY <2>1, <2>3, PromotionsSound DEF Rearranges
  <2>6. \A j \in DOMAIN grp.ready : j \in DOMAIN p.ready /\ p.ready[j] = grp.ready[j]
    BY <2>1, <2>3, PromotionKeepsReady
  <2>7. Passed(p, now, b) \in Nat
    BY <2>1, <2>5, ObtainedBounds
  <2>8. /\ Live(grp'.urgent) = {}
        /\ \A j \in 1..(i - 1) : p.ready[j] \notin Live(grp'.ready)
    BY <1>1, <2>1, <2>4, <2>5, <2>6, <2>7, LeaseOrder
  <2>9. \A j \in 1..(i - 1) : j \in DOMAIN grp.ready
    <3>1. grp.ready \in Slots
      BY <2>1 DEF GroupType, Slots
    <3>2. Len(grp.ready) \in Nat /\ DOMAIN grp.ready = 1..Len(grp.ready)
      BY <3>1, LenProperties DEF Slots
    <3>3. i \in 1..Len(grp.ready)
      BY <3>2
    <3> QED
      BY <3>2, <3>3
  <2> QED
    BY <2>6, <2>8, <2>9
<1>2. IInv /\ [Next]_vars =>
        [\A i \in DOMAIN grp.ready :
           grp.ready[i] \in grp'.processing =>
             /\ Live(grp.urgent) \cap Live(grp'.urgent) = {}
             /\ \A j \in 1..(i - 1) : grp.ready[j] \notin Live(grp'.ready)]_vars
  BY <1>1
<1> QED
  BY <1>2, Invariance, PTL DEF Spec, DispatchOrder
=============================================================================
