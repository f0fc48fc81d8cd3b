----------------------------- MODULE PriceProofs -----------------------------
(***************************************************************************)
(* Theorems about the opening prices, for every set of windows, length of  *)
(* the grace and size of the ring: what the ring of ticks and the prices   *)
(* taken from it have to do with each other, and the two runtimes' prices. *)
(***************************************************************************)
EXTENDS PriceParity, WellFoundedInduction, FiniteSetTheorems, TLAPS

-----------------------------------------------------------------------------
(***************************************************************************)
(* Numbers                                                                 *)
(***************************************************************************)

\* A set of natural numbers that is not empty has a least one.
LEMMA LeastIs ==
    ASSUME NEW T \in SUBSET Nat, T # {}
    PROVE  Min(T) \in T /\ \A y \in T : Min(T) =< y
<1> DEFINE R == OpToRel(<, Nat)
<1>1. IsWellFoundedOn(R, Nat)
  BY NatLessThanWellFounded, Zenon
<1>2. \A x, y \in Nat : <<y, x>> \in R <=> y < x
  BY DEF OpToRel
<1> HIDE DEF R
<1>3. PICK x \in T : \A y \in T : ~(<<y, x>> \in R)
  BY <1>1, WFMin
<1>4. \A y \in T : ~(y < x)
  BY <1>2, <1>3
<1>5. \A y \in T : x =< y
  BY <1>4
<1> QED
  BY <1>5 DEF Min

\* A quotient is between: the multiple below, and the one above.
LEMMA QuotientIs ==
    ASSUME NEW x \in Nat, NEW y \in Nat \ {0}
    PROVE  x \div y \in Nat /\ (x \div y) * y =< x /\ x < (x \div y) * y + y
  OBVIOUS

\* Multiples are ordered like what they are multiples of.
LEMMA MultiplesOrdered ==
    ASSUME NEW a \in Nat, NEW b \in Nat, NEW y \in Nat \ {0}
    PROVE  a =< b <=> a * y =< b * y
<1>1. a =< b => a * y =< b * y
  OBVIOUS
<1>2. a * y =< b * y => a =< b
  OBVIOUS
<1> QED
  BY <1>1, <1>2

\* What the ticks' milliseconds and their seconds say of the same grace: the seconds say
\* yes one second longer, and differ nowhere else.
LEMMA GraceInSeconds ==
    ASSUME NEW w \in Window, NEW t \in Nat
    PROVE  /\ InGrace(w, t) => InGraceSeconds(w, t)
           /\ InGraceSeconds(w, t) /\ ~InGrace(w, t)
                => t \div Milli = w + Grace /\ t > (w + Grace) * Milli
<1> DEFINE d == t \div Milli
           last == w + Grace
<1>1. w \in Nat /\ last \in Nat /\ Milli \in Nat \ {0}
  BY PricesAssumption
<1>2. d \in Nat /\ d * Milli =< t /\ t < d * Milli + Milli
  BY <1>1, QuotientIs
<1> HIDE DEF d, last
<1>3. (d + 1) * Milli = d * Milli + Milli /\ (d + 1) * Milli \in Nat /\ d * Milli \in Nat
      /\ w * Milli \in Nat /\ last * Milli \in Nat
  BY <1>1, <1>2
<1>4. w * Milli =< t => w =< d
  <2> SUFFICES ASSUME ~(w =< d) PROVE ~(w * Milli =< t)
    OBVIOUS
  <2>1. d + 1 =< w
    BY <1>1, <1>2
  <2>2. (d + 1) * Milli =< w * Milli
    BY <1>1, <1>2, <2>1, MultiplesOrdered
  <2> QED
    BY <1>2, <1>3, <2>2
<1>5. w =< d => w * Milli =< t
  <2>1. w =< d => w * Milli =< d * Milli
    BY <1>1, <1>2, MultiplesOrdered
  <2> QED
    BY <1>2, <1>3, <2>1
<1>6. t =< last * Milli => d =< last
  <2>1. t =< last * Milli => d * Milli =< last * Milli
    BY <1>2, <1>3
  <2> QED
    BY <1>1, <1>2, <2>1, MultiplesOrdered
<1>7. t > last * Milli => last =< d
  <2> SUFFICES ASSUME ~(last =< d) PROVE ~(t > last * Milli)
    OBVIOUS
  <2>1. d + 1 =< last
    BY <1>1, <1>2
  <2>2. (d + 1) * Milli =< last * Milli
    BY <1>1, <1>2, <2>1, MultiplesOrdered
  <2> QED
    BY <1>2, <1>3, <2>2
<1>8. InGrace(w, t) <=> w * Milli =< t /\ t =< last * Milli
  BY DEF InGrace, last
<1>9. InGraceSeconds(w, t) <=> w =< d /\ d =< last
  BY DEF InGraceSeconds, last, d
<1>10. t =< last * Milli \/ t > last * Milli
  BY <1>3
<1>11. d =< last /\ last =< d => d = last
  BY <1>1, <1>2
<1>12. InGraceSeconds(w, t) /\ ~InGrace(w, t) => d = last /\ t > last * Milli
  BY <1>4, <1>5, <1>6, <1>7, <1>8, <1>9, <1>10, <1>11
<1>13. InGrace(w, t) => InGraceSeconds(w, t)
  BY <1>4, <1>6, <1>8, <1>9
<1> QED
  BY <1>12, <1>13 DEF d, last

\* The three marks of a window are different, and none is a price or a number.
LEMMA MarksDiffer ==
    /\ Unknown # Unarmed /\ Unknown # Official /\ Unarmed # Official
    /\ Unknown \notin Price /\ Unarmed \notin Price /\ Official \notin Nat /\ NoTick \notin Int
<1>1. IsFiniteSet({}) /\ Cardinality({}) = 0
  BY FS_EmptySet
<1> DEFINE a == {} \cup {Unknown}
           b == a \cup {Unarmed}
           c == b \cup {Official}
<1>2. IsFiniteSet(a) /\ Cardinality(a) = 1
  BY <1>1, FS_AddElement
<1>3. IsFiniteSet(b) /\ Cardinality(b) = IF Unarmed \in a THEN 1 ELSE 2
  BY <1>2, FS_AddElement
<1>4. Cardinality(c) = IF Official \in b THEN Cardinality(b) ELSE Cardinality(b) + 1
  BY <1>3, FS_AddElement
<1>5. c = {Unknown, Unarmed, Official}
  OBVIOUS
<1>6. Cardinality(c) = 3
  BY <1>5, PricesAssumption
<1> HIDE DEF c
<1>7. Unarmed \notin a /\ Official \notin b
  BY <1>3, <1>4, <1>6
<1>8. {Unknown, Unarmed, Official, NoTick} \cap Int = {}
  BY PricesAssumption
<1> QED
  BY <1>7, <1>8 DEF Price

-----------------------------------------------------------------------------
(***************************************************************************)
(* The ring                                                                *)
(***************************************************************************)

Ticks == 0..MaxNow

\* A tick at the end of a list
LEMMA AppendTick ==
    ASSUME NEW s \in Seq(Ticks), NEW t \in Ticks
    PROVE  /\ Append(s, t) \in Seq(Ticks) /\ Len(s) \in Nat /\ Len(Append(s, t)) = Len(s) + 1
           /\ Range(Append(s, t)) = Range(s) \cup {t}
<1> DEFINE l == Append(s, t)
<1>1. /\ l \in Seq(Ticks) /\ Len(s) \in Nat /\ Len(l) = Len(s) + 1
      /\ DOMAIN s = 1..Len(s) /\ DOMAIN l = 1..(Len(s) + 1)
      /\ \A i \in 1..Len(s) : l[i] = s[i]
      /\ l[Len(s) + 1] = t
  OBVIOUS
<1> HIDE DEF l
<1>2. \A i \in 1..(Len(s) + 1) : i \in 1..Len(s) \/ i = Len(s) + 1
  BY <1>1
<1>3. 1..Len(s) \subseteq 1..(Len(s) + 1) /\ Len(s) + 1 \in 1..(Len(s) + 1)
  BY <1>1
<1>4. Range(l) = Range(s) \cup {t}
  BY <1>1, <1>2, <1>3 DEF Range
<1> QED
  BY <1>1, <1>4 DEF l

\* The end of a list
LEMMA EndOfList ==
    ASSUME NEW s \in Seq(Ticks), NEW a \in 1..Len(s)
    PROVE  /\ SubSeq(s, a, Len(s)) \in Seq(Ticks)
           /\ Len(SubSeq(s, a, Len(s))) = Len(s) - a + 1
           /\ Range(SubSeq(s, a, Len(s))) \subseteq Range(s)
           /\ s[Len(s)] \in Range(SubSeq(s, a, Len(s)))
           /\ a = 1 => SubSeq(s, a, Len(s)) = s
<1> DEFINE l == SubSeq(s, a, Len(s))
<1>1. /\ l \in Seq(Ticks) /\ Len(s) \in Nat /\ Len(l) = Len(s) - a + 1
      /\ DOMAIN s = 1..Len(s) /\ DOMAIN l = 1..(Len(s) - a + 1)
      /\ \A i \in 1..(Len(s) - a + 1) : l[i] = s[a + i - 1]
  OBVIOUS
<1>2. a = 1 => l = s
  OBVIOUS
<1> HIDE DEF l
<1>3. \A i \in 1..(Len(s) - a + 1) : a + i - 1 \in 1..Len(s)
  BY <1>1
<1>4. Range(l) \subseteq Range(s)
  BY <1>1, <1>3 DEF Range
<1>5. Len(s) - a + 1 \in DOMAIN l /\ l[Len(s) - a + 1] = s[Len(s)]
  BY <1>1
<1> QED
  BY <1>1, <1>2, <1>4, <1>5 DEF l, Range

\* The ring after a tick: not too long, with that tick and otherwise only older ones, and
\* all of them until it overflows.
RingAfter(s, t, k) ==
    /\ k \in Seq(Ticks) /\ Len(k) =< RingMax
    /\ t \in Range(k) /\ Range(k) \subseteq Range(s) \cup {t}
    /\ Len(s) < RingMax => k = Append(s, t)

LEMMA KeptIs ==
    ASSUME NEW s \in Seq(Ticks), Len(s) =< RingMax, NEW t \in Ticks
    PROVE  RingAfter(s, t, Kept(Append(s, t)))
<1> DEFINE l == Append(s, t)
<1>1. /\ l \in Seq(Ticks) /\ Len(s) \in Nat /\ Len(l) = Len(s) + 1
      /\ Range(l) = Range(s) \cup {t}
  BY AppendTick
<1>2. l[Len(s) + 1] = t
  OBVIOUS
<1> HIDE DEF l
<1>3. RingMax \in Nat \ {0} /\ RingCut \in 1..RingMax
  BY PricesAssumption
<1>4. CASE Len(l) > RingMax
  <2>1. RingCut + 1 \in 1..Len(l)
    BY <1>1, <1>3, <1>4
  <2> DEFINE k == SubSeq(l, RingCut + 1, Len(l))
  <2>2. /\ k \in Seq(Ticks) /\ Len(k) = Len(l) - (RingCut + 1) + 1
        /\ Range(k) \subseteq Range(l) /\ l[Len(l)] \in Range(k)
    BY <1>1, <2>1, EndOfList
  <2>3. Kept(l) = k
    BY <1>4 DEF Kept
  <2> HIDE DEF k
  <2> QED
    BY <1>1, <1>2, <1>3, <1>4, <2>2, <2>3 DEF RingAfter, l
<1>5. CASE ~(Len(l) > RingMax)
  <2>1. Kept(l) = l
    BY <1>5 DEF Kept
  <2> QED
    BY <1>1, <1>3, <1>5, <2>1 DEF RingAfter, l
<1> QED
  BY <1>4, <1>5 DEF l

\* In Rust it stays full once it is.
LEMMA KeptRustIs ==
    ASSUME NEW s \in Seq(Ticks), Len(s) =< RingMax, NEW t \in Ticks
    PROVE  /\ RingAfter(s, t, KeptRust(Append(s, t)))
           /\ Len(s) = RingMax => Len(KeptRust(Append(s, t))) = RingMax
<1> DEFINE l == Append(s, t)
           a == IF Len(l) > RingMax THEN Len(l) - RingMax + 1 ELSE 1
           k == SubSeq(l, a, Len(l))
<1>1. /\ l \in Seq(Ticks) /\ Len(s) \in Nat /\ Len(l) = Len(s) + 1
      /\ Range(l) = Range(s) \cup {t}
  BY AppendTick
<1>2. l[Len(s) + 1] = t
  OBVIOUS
<1>3. KeptRust(l) = k
  BY DEF KeptRust
<1> HIDE DEF l
<1>4. RingMax \in Nat \ {0}
  BY PricesAssumption
<1>5. /\ a \in 1..Len(l) /\ Len(l) - a + 1 =< RingMax
      /\ Len(s) < RingMax => a = 1
      /\ Len(s) = RingMax => Len(l) - a + 1 = RingMax
  BY <1>1, <1>4
<1> HIDE DEF a
<1>6. /\ k \in Seq(Ticks) /\ Len(k) = Len(l) - a + 1
      /\ Range(k) \subseteq Range(l) /\ l[Len(l)] \in Range(k)
      /\ a = 1 => k = l
  BY <1>1, <1>5, EndOfList
<1> HIDE DEF k
<1> QED
  BY <1>1, <1>2, <1>3, <1>5, <1>6 DEF RingAfter, l

-----------------------------------------------------------------------------
(***************************************************************************)
(* Taking a price from the ring                                            *)
(***************************************************************************)

\* The ticks of a ring that open a window
Opening(ticks, w) == {t \in Range(ticks) : InGrace(w, t)}

\* The backfill finds the least of them, or there is none.
LEMMA BackfilledIs ==
    ASSUME NEW ticks, Range(ticks) \subseteq Ticks, NEW w
    PROVE  \/ Opening(ticks, w) = {} /\ Backfilled(ticks, w) = Unarmed
           \/ /\ Backfilled(ticks, w) \in Nat /\ Backfilled(ticks, w) \in Range(ticks)
              /\ InGrace(w, Backfilled(ticks, w))
              /\ \A t \in Range(ticks) : InGrace(w, t) => Backfilled(ticks, w) =< t
<1> DEFINE T == {t \in Range(ticks) : InGrace(w, t)}
<1>1. Backfilled(ticks, w) = IF T = {} THEN Unarmed ELSE Min(T)
  BY DEF Backfilled
<1>2. T \in SUBSET Nat
  BY PriceCaptureAssumption DEF Ticks
<1>3. T # {} => Min(T) \in T /\ \A t \in T : Min(T) =< t
  BY <1>2, LeastIs
<1>4. Opening(ticks, w) = T
  BY DEF Opening
<1>5. \A t : t \in T <=> t \in Range(ticks) /\ InGrace(w, t)
  OBVIOUS
<1> HIDE DEF T
<1> QED
  BY <1>1, <1>2, <1>3, <1>4, <1>5

\* Where a window's price stands to the ring. A window that waits has no opening tick in
\* it. (The sequence of ticks is the ring of one of the runtimes.)
NotMissed(prices, ticks) ==
    \A w \in Window : prices[w] = Unarmed => \A t \in Range(ticks) : ~InGrace(w, t)

PriceType(prices) == prices \in [Window -> Price \cup {Unknown, Unarmed}]

\* Merging keeps to that, with a ring of ticks.
LEMMA MergeKeeps ==
    ASSUME NEW prices, PriceType(prices), NEW ticks, Range(ticks) \subseteq Ticks,
           NEW found \in SUBSET Window, NEW priced \in SUBSET found, NotMissed(prices, ticks)
    PROVE  /\ PriceType(Merged(prices, ticks, found, priced))
           /\ NotMissed(Merged(prices, ticks, found, priced), ticks)
           /\ \A w \in Window :
                 \/ Merged(prices, ticks, found, priced)[w] = prices[w]
                 \/ Merged(prices, ticks, found, priced)[w] = Official
                 \/ /\ ~Armed(prices, w)
                    /\ Merged(prices, ticks, found, priced)[w] = Backfilled(ticks, w)
<1> DEFINE new == Merged(prices, ticks, found, priced)
<1>1. \A w \in Window : new[w] = IF w \in priced THEN Official
                                 ELSE IF w \in found /\ ~Armed(prices, w)
                                      THEN Backfilled(ticks, w) ELSE prices[w]
  BY DEF Merged
<1>2. new = [w \in Window |-> new[w]]
  BY DEF Merged
<1> HIDE DEF new
<1>3. \A w \in Window : new[w] \in Price \cup {Unknown, Unarmed}
  <2> TAKE w \in Window
  <2>1. Backfilled(ticks, w) \in Nat \cup {Unarmed}
    BY BackfilledIs
  <2>2. prices[w] \in Price \cup {Unknown, Unarmed}
    BY DEF PriceType
  <2> QED
    BY <1>1, <2>1, <2>2 DEF Price
<1>4. PriceType(new)
  BY <1>2, <1>3 DEF PriceType
<1>5. NotMissed(new, ticks)
  <2> SUFFICES ASSUME NEW w \in Window, new[w] = Unarmed, NEW t \in Range(ticks), InGrace(w, t)
               PROVE  FALSE
    BY DEF NotMissed
  <2>1. Unarmed # Official /\ Unarmed \notin Nat
    BY MarksDiffer DEF Price
  <2>2. prices[w] = Unarmed \/ Backfilled(ticks, w) = Unarmed
    BY <1>1, <2>1
  <2>3. t \in Opening(ticks, w)
    BY DEF Opening
  <2>4. Backfilled(ticks, w) # Unarmed
    BY <2>1, <2>3, BackfilledIs
  <2> QED
    BY <2>2, <2>4 DEF NotMissed
<1> QED
  BY <1>1, <1>4, <1>5 DEF new

-----------------------------------------------------------------------------
(***************************************************************************)
(* PriceCapture                                                            *)
(***************************************************************************)

\* With ticks in order the latest is the newest, and a price is the first of its opening.
InOrder(prices, ticks) ==
    /\ \A t \in Range(ticks) : t =< latest
    /\ \A w \in Window : prices[w] \in Nat =>
          /\ prices[w] =< latest
          /\ InGrace(w, prices[w])
          /\ \A t \in Range(ticks) : InGrace(w, t) => prices[w] =< t

CaptureIInv ==
    /\ TypeOK
    /\ latest = NoTick => Range(recent) = {} /\ \A w \in Window : price[w] \notin Nat
    /\ OpeningNotMissed
    /\ ordered => InOrder(price, recent)

LEMMA CaptureStarts == Init => CaptureIInv
<1> SUFFICES ASSUME Init PROVE CaptureIInv
  OBVIOUS
<1>1. Range(recent) = {} /\ recent \in Seq(Ticks) /\ Len(recent) = 0
  BY DEF Init, Range
<1>2. \A w \in Window : price[w] = Unknown
  BY DEF Init, Forgotten
<1>3. price \in [Window -> Price \cup {Unknown, Unarmed}]
  BY DEF Init, Forgotten
<1>4. 0 \in 0..MaxNow /\ 0 =< RingMax
  BY PriceCaptureAssumption, PricesAssumption
<1>5. TypeOK
  BY <1>1, <1>3, <1>4 DEF Init, TypeOK, Ticks
<1> QED
  BY <1>1, <1>2, <1>5, MarksDiffer DEF CaptureIInv, OpeningNotMissed, InOrder, Price

\* What TypeOK says, by name
LEMMA CaptureType ==
    ASSUME TypeOK
    PROVE  /\ recent \in Seq(Ticks) /\ Len(recent) =< RingMax /\ Range(recent) \subseteq Ticks
           /\ latest \in Ticks \cup {NoTick} /\ NoTick \notin Ticks
           /\ Ticks \subseteq Nat /\ now \in Nat /\ now =< MaxNow /\ asked \subseteq Window
           /\ PriceType(price) /\ ordered \in BOOLEAN
<1>1. recent \in Seq(Ticks) /\ MaxNow \in Nat
  BY PriceCaptureAssumption DEF TypeOK, Ticks
<1>2. Range(recent) \subseteq Ticks
  BY <1>1 DEF Range
<1>3. NoTick \notin Ticks
  BY <1>1, MarksDiffer DEF Ticks
<1> QED
  BY <1>1, <1>2, <1>3 DEF TypeOK, Ticks, PriceType

\* A tick arrives.
LEMMA TickKeeps ==
    ASSUME CaptureIInv, NEW t \in Delivered, OnTick(t)
    PROVE  CaptureIInv'
<1>1. /\ TypeOK /\ OpeningNotMissed
      /\ ordered => InOrder(price, recent)
      /\ latest = NoTick => Range(recent) = {} /\ \A w \in Window : price[w] \notin Nat
  BY DEF CaptureIInv
<1>2. /\ recent \in Seq(Ticks) /\ Len(recent) =< RingMax /\ Range(recent) \subseteq Ticks
      /\ latest \in Ticks \cup {NoTick} /\ NoTick \notin Ticks
      /\ Ticks \subseteq Nat /\ now \in Nat /\ now =< MaxNow /\ PriceType(price)
  BY <1>1, CaptureType
<1>3. t \in Ticks /\ (ordered => latest = NoTick \/ t > latest)
  BY <1>2, PriceCaptureAssumption DEF Delivered, Ticks
<1>4. /\ latest' = t /\ recent' = Kept(Append(recent, t)) /\ price' = ArmedBy(price, t)
      /\ UNCHANGED <<now, ordered, asked>>
  BY DEF OnTick
<1>5. /\ recent' \in Seq(Ticks) /\ Len(recent') =< RingMax
      /\ Range(recent') \subseteq Range(recent) \cup {t}
  BY <1>2, <1>3, <1>4, KeptIs DEF RingAfter
<1>6. \A w \in Window : price'[w] = IF price[w] = Unarmed /\ InGrace(w, t) THEN t ELSE price[w]
  BY <1>4 DEF ArmedBy
<1>7. price' \in [Window -> Price \cup {Unknown, Unarmed}]
  <2>1. \A w \in Window : price'[w] \in Price \cup {Unknown, Unarmed}
    BY <1>2, <1>3, <1>6 DEF PriceType, Price
  <2>2. price' = [w \in Window |-> price'[w]]
    BY <1>4 DEF ArmedBy
  <2> QED
    BY <2>1, <2>2
<1>8. TypeOK'
  BY <1>1, <1>3, <1>4, <1>5, <1>7 DEF TypeOK, Ticks
<1>9. OpeningNotMissed'
  <2> SUFFICES ASSUME NEW w \in Window, price'[w] = Unarmed, NEW u \in Range(recent'),
                      InGrace(w, u)
               PROVE  FALSE
    BY DEF OpeningNotMissed
  <2>1. t # Unarmed
    BY <1>2, <1>3, MarksDiffer DEF Price
  <2>2. price[w] = Unarmed /\ ~InGrace(w, t)
    BY <1>6, <2>1
  <2>3. u \in Range(recent)
    BY <1>5, <2>2
  <2> QED
    BY <1>1, <2>2, <2>3 DEF OpeningNotMissed
<1>10. ASSUME ordered PROVE InOrder(price, recent)'
  <2>1. latest \in Ticks => t > latest
    BY <1>2, <1>3, <1>10
  <2>2. \A u \in Range(recent) : latest \in Ticks /\ u =< latest
    BY <1>1, <1>2, <1>10 DEF InOrder
  <2>3. \A u \in Range(recent') : u =< t
    <3>1. \A u \in Range(recent) : u \in Nat /\ latest \in Nat
      BY <1>2, <2>2
    <3>2. t \in Nat
      BY <1>2, <1>3
    <3>3. \A u \in Range(recent) : u =< t
      BY <2>1, <2>2, <3>1, <3>2
    <3> QED
      BY <1>5, <3>2, <3>3
  <2>4. ASSUME NEW w \in Window, price'[w] \in Nat
        PROVE  /\ price'[w] =< t /\ InGrace(w, price'[w])
               /\ \A u \in Range(recent') : InGrace(w, u) => price'[w] =< u
    <3>1. CASE price[w] = Unarmed /\ InGrace(w, t)
      <4>1. price'[w] = t
        BY <1>6, <3>1
      <4>2. \A u \in Range(recent) : ~InGrace(w, u)
        BY <1>1, <3>1 DEF OpeningNotMissed
      <4>3. t \in Nat
        BY <1>2, <1>3
      <4>4. \A u \in Range(recent') : InGrace(w, u) => u = t
        BY <1>5, <4>2
      <4>5. t =< t
        BY <4>3
      <4>6. \A u \in Range(recent') : InGrace(w, u) => t =< u
        BY <4>4, <4>5
      <4> QED
        BY <3>1, <4>1, <4>5, <4>6
    <3>2. CASE ~(price[w] = Unarmed /\ InGrace(w, t))
      <4>1. price'[w] = price[w] /\ price[w] \in Nat
        BY <1>6, <2>4, <3>2
      <4>2. /\ latest \in Ticks /\ price[w] =< latest /\ InGrace(w, price[w])
            /\ \A u \in Range(recent) : InGrace(w, u) => price[w] =< u
        BY <1>1, <1>2, <1>10, <4>1 DEF InOrder
      <4>3. price[w] =< t
        <5>1. latest \in Nat /\ t \in Nat /\ price[w] \in Nat
          BY <1>2, <1>3, <4>1, <4>2
        <5> QED
          BY <2>1, <4>2, <5>1
      <4> QED
        BY <1>5, <4>1, <4>2, <4>3
    <3> QED
      BY <3>1, <3>2
  <2> QED
    BY <1>4, <2>3, <2>4 DEF InOrder
<1>11. latest' # NoTick
  BY <1>2, <1>3, <1>4
<1> QED
  BY <1>4, <1>8, <1>9, <1>10, <1>11 DEF CaptureIInv

\* The answers of a poll are merged.
LEMMA DiscoveryKeeps ==
    ASSUME CaptureIInv, NEW found \in SUBSET asked, NEW priced \in SUBSET (found \cap Begun),
           Discovered(found, priced)
    PROVE  CaptureIInv'
<1>1. /\ TypeOK /\ OpeningNotMissed
      /\ ordered => InOrder(price, recent)
      /\ latest = NoTick => Range(recent) = {} /\ \A w \in Window : price[w] \notin Nat
  BY DEF CaptureIInv
<1>2. /\ Range(recent) \subseteq Ticks /\ PriceType(price) /\ asked \subseteq Window
  BY <1>1, CaptureType
<1>3. found \in SUBSET Window /\ priced \in SUBSET found
  BY <1>2
<1>4. /\ price' = Merged(price, recent, found, priced) /\ asked' = {}
      /\ UNCHANGED <<now, ordered, recent, latest>>
  BY DEF Discovered
<1>5. NotMissed(price, recent)
  BY <1>1 DEF OpeningNotMissed, NotMissed
<1>6. /\ PriceType(price') /\ NotMissed(price', recent)
      /\ \A w \in Window : \/ price'[w] = price[w] \/ price'[w] = Official
                           \/ ~Armed(price, w) /\ price'[w] = Backfilled(recent, w)
  BY <1>2, <1>3, <1>4, <1>5, MergeKeeps
<1>7. TypeOK'
  BY <1>1, <1>4, <1>6 DEF TypeOK, PriceType
<1>8. OpeningNotMissed'
  BY <1>4, <1>6 DEF OpeningNotMissed, NotMissed
<1>9. ASSUME NEW w \in Window, price'[w] \in Nat
      PROVE  \/ price'[w] = price[w]
             \/ /\ price'[w] \in Range(recent) /\ InGrace(w, price'[w])
                /\ \A t \in Range(recent) : InGrace(w, t) => price'[w] =< t
  <2>1. price'[w] # Official /\ price'[w] # Unarmed
    BY <1>9, MarksDiffer DEF Price
  <2> QED
    BY <1>2, <1>6, <2>1, BackfilledIs
<1>10. ordered => InOrder(price, recent)'
  BY <1>1, <1>4, <1>9 DEF InOrder
<1>11. latest = NoTick => \A w \in Window : price'[w] \notin Nat
  BY <1>1, <1>9
<1> QED
  BY <1>1, <1>4, <1>7, <1>8, <1>10, <1>11 DEF CaptureIInv

LEMMA CaptureStep == CaptureIInv /\ [Next]_vars => CaptureIInv'
<1> SUFFICES ASSUME CaptureIInv, [Next]_vars PROVE CaptureIInv'
  OBVIOUS
<1>1. TypeOK
  BY DEF CaptureIInv
<1>2. CASE \E t \in Delivered : OnTick(t)
  BY <1>2, TickKeeps
<1>3. CASE Poll
  <2>1. asked' \subseteq Window /\ UNCHANGED <<now, ordered, recent, latest, price>>
    BY <1>3 DEF Poll, Candidates
  <2> QED
    BY <2>1 DEF CaptureIInv, TypeOK, OpeningNotMissed, InOrder
<1>4. CASE \E found \in SUBSET asked : \E priced \in SUBSET (found \cap Begun) :
               Discovered(found, priced)
  BY <1>4, DiscoveryKeeps
<1>5. CASE Pass
  <2>1. now' \in 0..MaxNow /\ UNCHANGED <<ordered, recent, latest, price, asked>>
    BY <1>1, <1>5, PriceCaptureAssumption DEF Pass, TypeOK
  <2> QED
    BY <2>1 DEF CaptureIInv, TypeOK, OpeningNotMissed, InOrder
<1>6. CASE Restart
  <2>1. /\ Range(recent') = {} /\ recent' \in Seq(0..MaxNow) /\ Len(recent') = 0
        /\ latest' = NoTick /\ asked' = {} /\ UNCHANGED <<now, ordered>>
    BY <1>6 DEF Restart, Range
  <2>2. \A w \in Window : price'[w] = Unknown
    BY <1>6 DEF Restart, Forgotten
  <2>3. price' \in [Window -> Price \cup {Unknown, Unarmed}]
    BY <1>6 DEF Restart, Forgotten
  <2>4. 0 =< RingMax
    BY PricesAssumption
  <2>5. TypeOK'
    BY <1>1, <2>1, <2>3, <2>4 DEF TypeOK
  <2> QED
    BY <2>1, <2>2, <2>5, MarksDiffer DEF CaptureIInv, OpeningNotMissed, InOrder, Price
<1>7. CASE UNCHANGED vars
  BY <1>7 DEF vars, CaptureIInv, TypeOK, OpeningNotMissed, InOrder
<1> QED
  BY <1>2, <1>3, <1>4, <1>5, <1>6, <1>7 DEF Next

LEMMA CaptureInvariant == Spec => []CaptureIInv
<1> QED
  BY CaptureStarts, CaptureStep, PTL DEF Spec

\* Type correctness.
THEOREM PriceTypeCorrect == Spec => []TypeOK
<1>1. CaptureIInv => TypeOK
  BY DEF CaptureIInv
<1> QED
  BY <1>1, CaptureInvariant, PTL

\* A window and its opening tick meet whichever comes first.
THEOREM OpeningIsTaken == Spec => []OpeningNotMissed
<1>1. CaptureIInv => OpeningNotMissed
  BY DEF CaptureIInv
<1> QED
  BY <1>1, CaptureInvariant, PTL

\* With ticks in order the price is the first tick of the opening.
THEOREM EarliestIsTaken == Spec => []OpeningIsEarliest
<1>1. CaptureIInv => OpeningIsEarliest
  BY DEF CaptureIInv, InOrder, OpeningIsEarliest
<1> QED
  BY <1>1, CaptureInvariant, PTL

\* An opening price, once known, is kept over every poll and tick, or replaced by Gamma's.
THEOREM PriceIsKept == Spec => PriceNeverLost
<1>1. CaptureIInv /\ [Next]_vars =>
          [\A w \in Window : (Armed(price, w) /\ price' # Forgotten)
                                 => price'[w] \in {price[w], Official}]_vars
  <2> SUFFICES ASSUME CaptureIInv, [Next]_vars, NEW w \in Window, Armed(price, w),
                      price' # Forgotten
               PROVE  price'[w] \in {price[w], Official}
    BY Zenon
  <2>1. TypeOK /\ OpeningNotMissed
    BY DEF CaptureIInv
  <2>2. price[w] # Unarmed
    BY MarksDiffer DEF Armed
  <2>3. CASE \E t \in Delivered : OnTick(t)
    BY <2>2, <2>3 DEF OnTick, ArmedBy
  <2>4. CASE \E found \in SUBSET asked : \E priced \in SUBSET (found \cap Begun) :
                 Discovered(found, priced)
    <3>1. PICK found \in SUBSET asked : \E priced \in SUBSET (found \cap Begun) :
                   Discovered(found, priced)
      BY <2>4
    <3>2. PICK priced \in SUBSET (found \cap Begun) : Discovered(found, priced)
      BY <3>1
    <3>3. price' = Merged(price, recent, found, priced)
      BY <3>2 DEF Discovered
    <3> QED
      BY <3>3 DEF Merged
  <2>5. CASE Poll \/ Pass \/ UNCHANGED vars
    BY <2>5 DEF Poll, Pass, vars
  <2> QED
    BY <2>3, <2>4, <2>5 DEF Next, Restart
<1> QED
  BY <1>1, CaptureInvariant, PTL DEF Spec, PriceNeverLost

-----------------------------------------------------------------------------
(***************************************************************************)
(* The tick a window is settled by                                         *)
(***************************************************************************)

End(w) == (w + WindowLen) * Milli

\* The first tick of the ring after the end, else the latest if it is after the end.
LEMMA SettlementTickIs ==
    ASSUME NEW ticks, Range(ticks) \subseteq Ticks, NEW last \in Ticks \cup {NoTick}, NEW w
    PROVE  LET tick == SettlementTick(ticks, last, w)
           IN  \/ /\ tick \in Range(ticks) /\ tick >= End(w)
                  /\ \A t \in Range(ticks) : t >= End(w) => tick =< t
               \/ /\ \A t \in Range(ticks) : ~(t >= End(w))
                  /\ \/ tick = NoTick
                     \/ tick = last /\ last # NoTick /\ last >= End(w)
<1> DEFINE T == {t \in Range(ticks) : t >= (w + WindowLen) * Milli}
<1>1. SettlementTick(ticks, last, w) =
          IF T # {} THEN Min(T)
          ELSE IF last # NoTick /\ last >= (w + WindowLen) * Milli THEN last ELSE NoTick
  BY DEF SettlementTick
<1>2. T \in SUBSET Nat
  BY PriceCaptureAssumption DEF Ticks
<1>3. T # {} => Min(T) \in T /\ \A t \in T : Min(T) =< t
  BY <1>2, LeastIs
<1>4. \A t : t \in T <=> t \in Range(ticks) /\ t >= End(w)
  BY DEF End
<1>5. (w + WindowLen) * Milli = End(w)
  BY DEF End
<1> HIDE DEF T
<1>6. CASE T # {}
  <2>1. SettlementTick(ticks, last, w) = Min(T)
    BY <1>1, <1>6
  <2> QED
    BY <1>3, <1>4, <1>6, <2>1
<1>7. CASE T = {}
  <2>1. \A t \in Range(ticks) : ~(t >= End(w))
    BY <1>4, <1>7
  <2>2. SettlementTick(ticks, last, w) =
            IF last # NoTick /\ last >= End(w) THEN last ELSE NoTick
    BY <1>1, <1>5, <1>7
  <2> QED
    BY <2>1, <2>2
<1> QED
  BY <1>6, <1>7

\* However long a settlement is put off it settles by the same tick, until the ring drops
\* that one, and then by a later one.
THEOREM SettlesByTheSameTick == Spec => SettlementTickStays
<1> DEFINE before(w) == SettlementTick(recent, latest, w)
           after(w) == SettlementTick(recent', latest', w)
<1>1. CaptureIInv /\ [Next]_vars =>
          [\A w \in Window :
               LET earlier == SettlementTick(recent, latest, w)
                   later == SettlementTick(recent', latest', w)
               IN  (ordered /\ earlier # NoTick /\ latest' # NoTick)
                     => /\ later # NoTick /\ later >= earlier
                        /\ earlier \in Range(recent') => later = earlier]_vars
  <2> SUFFICES ASSUME CaptureIInv, [Next]_vars, NEW w \in Window, ordered,
                      before(w) # NoTick, latest' # NoTick
               PROVE  /\ after(w) # NoTick /\ after(w) >= before(w)
                      /\ before(w) \in Range(recent') => after(w) = before(w)
    BY Zenon
  <2>1. /\ TypeOK /\ InOrder(price, recent)
        /\ latest = NoTick => Range(recent) = {}
    BY DEF CaptureIInv
  <2>2. /\ recent \in Seq(Ticks) /\ Len(recent) =< RingMax /\ Range(recent) \subseteq Ticks
        /\ latest \in Ticks \cup {NoTick} /\ NoTick \notin Ticks
        /\ Ticks \subseteq Nat /\ now \in Nat /\ now =< MaxNow
    BY <2>1, CaptureType
  <2>3. \/ /\ before(w) \in Range(recent) /\ before(w) >= End(w)
           /\ \A t \in Range(recent) : t >= End(w) => before(w) =< t
        \/ /\ \A t \in Range(recent) : ~(t >= End(w))
           /\ before(w) = latest /\ latest # NoTick /\ latest >= End(w)
    BY <2>2, SettlementTickIs, Zenon
  <2>4. before(w) \in Nat /\ before(w) >= End(w) /\ latest \in Nat /\ before(w) =< latest
    <3>1. \A t \in Range(recent) : t \in Nat /\ t =< latest /\ latest \in Nat
      BY <2>1, <2>2 DEF InOrder
    <3>2. latest # NoTick => latest \in Nat /\ latest =< latest
      BY <2>2
    <3> QED
      BY <2>3, <3>1, <3>2
  <2>5. CASE \E t \in Delivered : OnTick(t)
    <3>1. PICK t \in Delivered : OnTick(t)
      BY <2>5
    <3>2. t \in Ticks /\ t > latest /\ t \in Nat
      BY <2>2, <2>4, <3>1, PriceCaptureAssumption, MarksDiffer DEF Delivered, Ticks
    <3>3. /\ latest' = t /\ t \in Range(recent')
          /\ Range(recent') \subseteq Range(recent) \cup {t} /\ Range(recent') \subseteq Ticks
      <4>1. latest' = t /\ recent' = Kept(Append(recent, t))
        BY <3>1 DEF OnTick
      <4>2. RingAfter(recent, t, recent')
        BY <2>2, <3>2, <4>1, KeptIs
      <4> QED
        BY <2>2, <3>2, <4>1, <4>2 DEF RingAfter
    <3>4. End(w) \in Nat /\ t >= End(w) /\ t > before(w)
      <4>1. w + WindowLen \in Nat /\ Milli \in Nat
        BY PricesAssumption
      <4>2. End(w) \in Nat
        BY <4>1 DEF End
      <4> HIDE DEF before
      <4> QED
        BY <2>4, <3>2, <4>2
    <3>5. /\ after(w) \in Range(recent') /\ after(w) >= End(w)
          /\ \A u \in Range(recent') : u >= End(w) => after(w) =< u
      <4>1. latest' \in Ticks \cup {NoTick}
        BY <3>2, <3>3
      <4>2. \/ /\ after(w) \in Range(recent') /\ after(w) >= End(w)
               /\ \A u \in Range(recent') : u >= End(w) => after(w) =< u
            \/ \A u \in Range(recent') : ~(u >= End(w))
        BY <3>3, <4>1, SettlementTickIs, Zenon
      <4> QED
        BY <3>3, <3>4, <4>2
    <3> HIDE DEF before, after
    <3>6. after(w) \in Nat
      BY <2>2, <3>3, <3>5
    <3>7. after(w) >= before(w)
      <4>1. CASE after(w) = t
        BY <2>4, <3>2, <3>4, <4>1
      <4>2. CASE after(w) \in Range(recent)
        <5>1. before(w) =< after(w)
          BY <2>3, <3>5, <4>2, Zenon
        <5> QED
          BY <2>4, <3>6, <5>1
      <4> QED
        BY <3>3, <3>5, <4>1, <4>2
    <3>8. ASSUME before(w) \in Range(recent') PROVE after(w) = before(w)
      BY <2>4, <3>5, <3>6, <3>7, <3>8
    <3> QED
      BY <2>2, <3>3, <3>5, <3>7, <3>8
  <2>6. CASE UNCHANGED <<recent, latest>>
    <3>1. after(w) = before(w)
      BY <2>6
    <3> HIDE DEF before, after
    <3> QED
      BY <2>4, <3>1
  <2>7. CASE Restart
    BY <2>7 DEF Restart
  <2> QED
    BY <2>5, <2>6, <2>7 DEF Next, Poll, Pass, Discovered, vars
<1> QED
  BY <1>1, CaptureInvariant, PTL DEF Spec, SettlementTickStays

-----------------------------------------------------------------------------
(***************************************************************************)
(* PriceParity                                                             *)
(***************************************************************************)

\* A Rust price with ticks in order: the first tick of the grace, or one of the second
\* after it when the grace had none.
FirstOrLate(p, ticks, w) ==
    \/ InGrace(w, p) /\ \A t \in Range(ticks) : InGrace(w, t) => p =< t
    \/ /\ p \div Milli = w + Grace /\ ~InGrace(w, p) /\ p > (w + Grace) * Milli
       /\ \A t \in Range(ticks) : ~InGrace(w, t)

\* The Rust ring is full for good once it has overflowed; before, the two rings are the
\* same and hold every price that was taken from a tick.
RingsMeet ==
    Len(recentRust) < RingMax =>
        /\ recent = recentRust
        /\ \A w \in Window : /\ price[w] \in Nat => price[w] \in Range(recent)
                             /\ priceRust[w] \in Nat => priceRust[w] \in Range(recentRust)

RustInv ==
    /\ recentRust \in Seq(Ticks) /\ Len(recentRust) =< RingMax /\ PriceType(priceRust)
    /\ latest = NoTick => Range(recentRust) = {} /\ \A w \in Window : priceRust[w] \notin Nat
    /\ NotMissed(priceRust, recentRust)
    /\ ordered => /\ \A t \in Range(recentRust) : t =< latest
                  /\ \A w \in Window : priceRust[w] \in Nat =>
                        priceRust[w] =< latest /\ FirstOrLate(priceRust[w], recentRust, w)
    /\ RingsMeet

\* A run starts without ticks and prices, and starts so again.
LEMMA RustStarts ==
    ASSUME TypeOK, recentRust = <<>>, recent = <<>>, priceRust = Forgotten, price = Forgotten
    PROVE  RustInv
<1>1. recentRust \in Seq(Ticks) /\ Len(recentRust) = 0 /\ Range(recentRust) = {} /\ 0 =< RingMax
  BY PricesAssumption DEF Range
<1>2. \A w \in Window : priceRust[w] = Unknown /\ price[w] = Unknown
  BY DEF Forgotten
<1>3. PriceType(priceRust)
  BY DEF Forgotten, PriceType
<1>4. recent = recentRust
  OBVIOUS
<1> QED
  BY <1>1, <1>2, <1>3, <1>4, MarksDiffer DEF RustInv, RingsMeet, NotMissed, Price

\* A tick arrives at both.
LEMMA RustTickKeeps ==
    ASSUME CaptureIInv, RustInv, NEW t \in Delivered, OnTick(t), ApplyTick(t)
    PROVE  RustInv'
<1>1. TypeOK
  BY DEF CaptureIInv
<1>2. /\ recent \in Seq(Ticks) /\ Len(recent) =< RingMax
      /\ latest \in Ticks \cup {NoTick} /\ NoTick \notin Ticks
      /\ Ticks \subseteq Nat /\ now \in Nat /\ now =< MaxNow /\ PriceType(price)
  BY <1>1, CaptureType
<1>3. t \in Ticks /\ t \in Nat /\ (ordered => latest = NoTick \/ t > latest)
  BY <1>2, PriceCaptureAssumption DEF Delivered, Ticks
<1>4. /\ recentRust \in Seq(Ticks) /\ Len(recentRust) =< RingMax /\ PriceType(priceRust)
      /\ Len(recentRust) \in Nat /\ RingMax \in Nat
      /\ latest = NoTick => Range(recentRust) = {} /\ \A w \in Window : priceRust[w] \notin Nat
      /\ NotMissed(priceRust, recentRust) /\ RingsMeet
  BY PricesAssumption DEF RustInv
<1>5. /\ latest' = t /\ recent' = Kept(Append(recent, t)) /\ price' = ArmedBy(price, t)
      /\ ordered' = ordered
      /\ recentRust' = KeptRust(Append(recentRust, t)) /\ priceRust' = ArmedByRust(priceRust, t)
  BY DEF OnTick, ApplyTick
<1>6. RingAfter(recent, t, recent')
  BY <1>2, <1>3, <1>5, KeptIs
<1>7. /\ RingAfter(recentRust, t, recentRust')
      /\ Len(recentRust) = RingMax => Len(recentRust') = RingMax
  BY <1>3, <1>4, <1>5, KeptRustIs
<1>8. \A w \in Window :
          /\ price'[w] = IF price[w] = Unarmed /\ InGrace(w, t) THEN t ELSE price[w]
          /\ priceRust'[w] = IF priceRust[w] = Unarmed /\ InGraceSeconds(w, t) THEN t
                             ELSE priceRust[w]
  BY <1>5 DEF ArmedBy, ArmedByRust
<1>9. PriceType(priceRust')
  <2>1. \A w \in Window : priceRust'[w] \in Price \cup {Unknown, Unarmed}
    BY <1>3, <1>4, <1>8 DEF PriceType, Price
  <2>2. priceRust' = [w \in Window |-> priceRust'[w]]
    BY <1>5 DEF ArmedByRust
  <2> QED
    BY <2>1, <2>2 DEF PriceType
<1>10. NotMissed(priceRust', recentRust')
  <2> SUFFICES ASSUME NEW w \in Window, priceRust'[w] = Unarmed, NEW u \in Range(recentRust'),
                      InGrace(w, u)
               PROVE  FALSE
    BY DEF NotMissed
  <2>1. t # Unarmed
    BY <1>3, MarksDiffer DEF Price
  <2>2. priceRust[w] = Unarmed /\ ~InGrace(w, t)
    BY <1>3, <1>8, <2>1, GraceInSeconds
  <2>3. u \in Range(recentRust)
    BY <1>7, <2>2 DEF RingAfter
  <2> QED
    BY <1>4, <2>2, <2>3 DEF NotMissed
<1>11. RingsMeet'
  <2> SUFFICES ASSUME Len(recentRust') < RingMax
               PROVE  /\ recent' = recentRust'
                      /\ \A w \in Window :
                            /\ price'[w] \in Nat => price'[w] \in Range(recent')
                            /\ priceRust'[w] \in Nat => priceRust'[w] \in Range(recentRust')
    BY Zenon DEF RingsMeet
  <2>1. Len(recentRust) < RingMax
    <3>1. Len(recentRust) # RingMax
      BY <1>4, <1>7
    <3> QED
      BY <1>4, <3>1
  <2>2. /\ recent = recentRust
        /\ \A w \in Window : /\ price[w] \in Nat => price[w] \in Range(recent)
                             /\ priceRust[w] \in Nat => priceRust[w] \in Range(recentRust)
    BY <1>4, <2>1 DEF RingsMeet
  <2>3. recent' = Append(recent, t) /\ recentRust' = Append(recentRust, t)
    BY <1>6, <1>7, <2>1, <2>2 DEF RingAfter
  <2>4. Range(recent') = Range(recent) \cup {t} /\ Range(recentRust') = Range(recentRust) \cup {t}
    BY <1>2, <1>3, <1>4, <2>3, AppendTick
  <2> QED
    BY <1>8, <2>2, <2>3, <2>4
<1>12. ASSUME ordered
       PROVE  /\ \A u \in Range(recentRust') : u =< t
              /\ \A w \in Window : priceRust'[w] \in Nat =>
                    priceRust'[w] =< t /\ FirstOrLate(priceRust'[w], recentRust', w)
  <2>1. latest \in Ticks => t > latest
    BY <1>2, <1>3, <1>12
  <2>2. \A u \in Range(recentRust) : u \in Nat /\ latest \in Ticks /\ latest \in Nat /\ u =< latest
    <3>1. Range(recentRust) \subseteq Ticks
      BY <1>4 DEF Range
    <3> QED
      BY <1>2, <1>4, <1>12, <3>1 DEF RustInv
  <2>3. \A u \in Range(recentRust) : u =< t
    BY <1>3, <2>1, <2>2
  <2>4. \A u \in Range(recentRust') : u \in Range(recentRust) \/ u = t
    BY <1>7 DEF RingAfter
  <2>5. \A u \in Range(recentRust') : u =< t
    BY <1>3, <2>3, <2>4
  <2>6. ASSUME NEW w \in Window, priceRust'[w] \in Nat
        PROVE  priceRust'[w] =< t /\ FirstOrLate(priceRust'[w], recentRust', w)
    <3>1. CASE priceRust[w] = Unarmed /\ InGraceSeconds(w, t)
      <4>1. priceRust'[w] = t
        BY <1>8, <3>1
      <4>2. \A u \in Range(recentRust) : ~InGrace(w, u)
        BY <1>4, <3>1 DEF NotMissed
      <4>3. CASE InGrace(w, t)
        <5>1. \A u \in Range(recentRust') : InGrace(w, u) => t =< u
          BY <1>3, <2>4, <4>2
        <5> QED
          BY <1>3, <4>1, <4>3, <5>1 DEF FirstOrLate
      <4>4. CASE ~InGrace(w, t)
        <5>1. \A u \in Range(recentRust') : ~InGrace(w, u)
          BY <2>4, <4>2, <4>4
        <5>2. t \div Milli = w + Grace /\ t > (w + Grace) * Milli
          BY <1>3, <3>1, <4>4, GraceInSeconds
        <5> QED
          BY <1>3, <4>1, <4>4, <5>1, <5>2 DEF FirstOrLate
      <4> QED
        BY <4>3, <4>4
    <3>2. CASE ~(priceRust[w] = Unarmed /\ InGraceSeconds(w, t))
      <4> DEFINE p == priceRust[w]
      <4>1. priceRust'[w] = p /\ p \in Nat
        BY <1>8, <2>6, <3>2
      <4>2. latest \in Ticks /\ p =< latest /\ FirstOrLate(p, recentRust, w)
        BY <1>2, <1>4, <1>12, <4>1 DEF RustInv
      <4> HIDE DEF p
      <4>3. latest \in Nat /\ t > latest /\ p =< t /\ p < t
        BY <1>2, <1>3, <2>1, <4>1, <4>2
      <4>4. CASE InGrace(w, p) /\ \A u \in Range(recentRust) : InGrace(w, u) => p =< u
        BY <2>4, <4>1, <4>3, <4>4 DEF FirstOrLate
      <4>5. CASE /\ p \div Milli = w + Grace /\ ~InGrace(w, p) /\ p > (w + Grace) * Milli
                 /\ \A u \in Range(recentRust) : ~InGrace(w, u)
        <5>1. (w + Grace) * Milli \in Nat
          <6>1. w + Grace \in Nat /\ Milli \in Nat
            BY PricesAssumption
          <6> QED
            BY <6>1
        <5>2. ~(t =< (w + Grace) * Milli)
          BY <1>3, <4>1, <4>3, <4>5, <5>1
        <5>3. ~InGrace(w, t)
          BY <5>2 DEF InGrace
        <5>4. \A u \in Range(recentRust') : ~InGrace(w, u)
          BY <2>4, <4>5, <5>3
        <5> QED
          BY <4>1, <4>3, <4>5, <5>4 DEF FirstOrLate
      <4> QED
        BY <4>2, <4>4, <4>5 DEF FirstOrLate
    <3> QED
      BY <3>1, <3>2
  <2> QED
    BY <2>5, <2>6
<1>13. latest' # NoTick /\ recentRust' \in Seq(Ticks) /\ Len(recentRust') =< RingMax
  BY <1>2, <1>3, <1>5, <1>7 DEF RingAfter
<1> QED
  BY <1>5, <1>9, <1>10, <1>11, <1>12, <1>13 DEF RustInv

\* Both poll, or only the Python runtime does.
LEMMA RustDiscoveryKeeps ==
    ASSUME CaptureIInv, RustInv, NEW found \in SUBSET asked,
           NEW priced \in SUBSET (found \cap Begun), Discovered(found, priced),
           UpsertMarkets(found, priced) \/ DiscoveryFails
    PROVE  RustInv'
<1>1. TypeOK /\ OpeningNotMissed
  BY DEF CaptureIInv
<1>2. Range(recent) \subseteq Ticks /\ PriceType(price) /\ asked \subseteq Window
  BY <1>1, CaptureType
<1>3. found \in SUBSET Window /\ priced \in SUBSET found
  BY <1>2
<1>4. /\ recentRust \in Seq(Ticks) /\ Len(recentRust) =< RingMax /\ PriceType(priceRust)
      /\ NotMissed(priceRust, recentRust) /\ RingsMeet
      /\ latest = NoTick => Range(recentRust) = {} /\ \A w \in Window : priceRust[w] \notin Nat
  BY DEF RustInv
<1>5. Range(recentRust) \subseteq Ticks
  BY <1>4 DEF Range
<1>6. /\ price' = Merged(price, recent, found, priced)
      /\ UNCHANGED <<now, ordered, recent, latest, recentRust>>
  BY DEF Discovered, UpsertMarkets, DiscoveryFails, rust
<1>7. priceRust' = Merged(priceRust, recentRust, found, priced) \/ priceRust' = priceRust
  BY DEF UpsertMarkets, DiscoveryFails, rust
<1>8. \A w \in Window : \/ price'[w] = price[w] \/ price'[w] = Official
                        \/ price'[w] = Backfilled(recent, w)
  <2>1. NotMissed(price, recent)
    BY <1>1 DEF OpeningNotMissed, NotMissed
  <2> QED
    BY <1>2, <1>3, <1>6, <2>1, MergeKeeps
<1>9. /\ PriceType(priceRust') /\ NotMissed(priceRust', recentRust)
      /\ \A w \in Window : \/ priceRust'[w] = priceRust[w] \/ priceRust'[w] = Official
                           \/ priceRust'[w] = Backfilled(recentRust, w)
  <2>1. CASE priceRust' = priceRust
    BY <1>4, <2>1
  <2>2. CASE priceRust' = Merged(priceRust, recentRust, found, priced)
    BY <1>3, <1>4, <1>5, <2>2, MergeKeeps
  <2> QED
    BY <1>7, <2>1, <2>2
<1>10. Official \notin Nat /\ Unarmed \notin Nat
  BY MarksDiffer DEF Price
<1>11. ASSUME NEW w \in Window, priceRust'[w] \in Nat
       PROVE  \/ priceRust'[w] = priceRust[w]
              \/ /\ priceRust'[w] \in Range(recentRust) /\ InGrace(w, priceRust'[w])
                 /\ \A t \in Range(recentRust) : InGrace(w, t) => priceRust'[w] =< t
  BY <1>5, <1>9, <1>10, <1>11, BackfilledIs
<1>12. ASSUME NEW w \in Window, price'[w] \in Nat
       PROVE  price'[w] = price[w] \/ price'[w] \in Range(recent)
  BY <1>2, <1>8, <1>10, <1>12, BackfilledIs
<1>13. RingsMeet'
  BY <1>4, <1>6, <1>11, <1>12 DEF RingsMeet
<1>14. ASSUME ordered
       PROVE  \A w \in Window : priceRust'[w] \in Nat =>
                 priceRust'[w] =< latest /\ FirstOrLate(priceRust'[w], recentRust, w)
  <2> SUFFICES ASSUME NEW w \in Window, priceRust'[w] \in Nat
               PROVE  priceRust'[w] =< latest /\ FirstOrLate(priceRust'[w], recentRust, w)
    OBVIOUS
  <2>1. CASE priceRust'[w] = priceRust[w]
    BY <1>14, <2>1 DEF RustInv
  <2>2. CASE /\ priceRust'[w] \in Range(recentRust) /\ InGrace(w, priceRust'[w])
             /\ \A t \in Range(recentRust) : InGrace(w, t) => priceRust'[w] =< t
    BY <1>14, <2>2 DEF RustInv, FirstOrLate
  <2> QED
    BY <1>11, <2>1, <2>2
<1>15. latest = NoTick => \A w \in Window : priceRust'[w] \notin Nat
  BY <1>4, <1>11
<1>16. ordered => \A t \in Range(recentRust) : t =< latest
  BY DEF RustInv
<1> QED
  BY <1>4, <1>6, <1>9, <1>13, <1>14, <1>15, <1>16 DEF RustInv

ParityIInv == CaptureIInv /\ RustInv

\* What the two do together is what the Python runtime does by itself.
LEMMA ParityStepIsStep == [ParityNext]_<<vars, rust>> => [Next]_vars
<1> SUFFICES ASSUME [ParityNext]_<<vars, rust>> PROVE [Next]_vars
  OBVIOUS
<1>1. CASE \E t \in Delivered : OnTick(t) /\ ApplyTick(t)
  BY <1>1 DEF Next
<1>2. CASE \E found \in SUBSET asked : \E priced \in SUBSET (found \cap Begun) :
               Discovered(found, priced) /\ (UpsertMarkets(found, priced) \/ DiscoveryFails)
  BY <1>2, Zenon DEF Next
<1>3. CASE (Poll \/ Pass) /\ UNCHANGED rust
  BY <1>3 DEF Next
<1>4. CASE Restart /\ RestartRust
  BY <1>4 DEF Next
<1>5. CASE UNCHANGED <<vars, rust>>
  BY <1>5
<1> QED
  BY <1>1, <1>2, <1>3, <1>4, <1>5 DEF ParityNext

LEMMA ParityStep == ParityIInv /\ [ParityNext]_<<vars, rust>> => ParityIInv'
<1> SUFFICES ASSUME ParityIInv, [ParityNext]_<<vars, rust>> PROVE ParityIInv'
  OBVIOUS
<1>1. CaptureIInv /\ RustInv
  BY DEF ParityIInv
<1>2. CaptureIInv'
  BY <1>1, ParityStepIsStep, CaptureStep
<1>3. CASE \E t \in Delivered : OnTick(t) /\ ApplyTick(t)
  BY <1>1, <1>2, <1>3, RustTickKeeps DEF ParityIInv
<1>4. CASE \E found \in SUBSET asked : \E priced \in SUBSET (found \cap Begun) :
               Discovered(found, priced) /\ (UpsertMarkets(found, priced) \/ DiscoveryFails)
  <2>1. PICK found \in SUBSET asked : \E priced \in SUBSET (found \cap Begun) :
            Discovered(found, priced) /\ (UpsertMarkets(found, priced) \/ DiscoveryFails)
    BY <1>4
  <2>2. PICK priced \in SUBSET (found \cap Begun) :
            Discovered(found, priced) /\ (UpsertMarkets(found, priced) \/ DiscoveryFails)
    BY <2>1
  <2> QED
    BY <1>1, <1>2, <2>2, RustDiscoveryKeeps DEF ParityIInv
<1>5. CASE ((Poll \/ Pass) /\ UNCHANGED rust) \/ UNCHANGED <<vars, rust>>
  <2>1. UNCHANGED <<ordered, recent, latest, price, recentRust, priceRust>>
    BY <1>5 DEF Poll, Pass, vars, rust
  <2> QED
    BY <1>1, <1>2, <2>1 DEF ParityIInv, RustInv, RingsMeet
<1>6. CASE Restart /\ RestartRust
  <2>1. TypeOK' /\ recentRust' = <<>> /\ recent' = <<>> /\ priceRust' = Forgotten
        /\ price' = Forgotten
    BY <1>2, <1>6 DEF Restart, RestartRust, CaptureIInv
  <2>2. recentRust' \in Seq(Ticks) /\ Len(recentRust') = 0 /\ Range(recentRust') = {}
        /\ 0 =< RingMax
    BY <2>1, PricesAssumption DEF Range
  <2>3. \A w \in Window : priceRust'[w] = Unknown /\ price'[w] = Unknown
    BY <2>1 DEF Forgotten
  <2>4. PriceType(priceRust') /\ recent' = recentRust'
    BY <2>1 DEF Forgotten, PriceType
  <2>5. RustInv'
    BY <2>2, <2>3, <2>4, MarksDiffer DEF RustInv, RingsMeet, NotMissed, Price
  <2> QED
    BY <1>2, <2>5 DEF ParityIInv
<1> QED
  BY <1>3, <1>4, <1>5, <1>6 DEF ParityNext

LEMMA ParityInvariant == ParitySpec => []ParityIInv
<1>1. ParityInit => ParityIInv
  <2> SUFFICES ASSUME ParityInit PROVE ParityIInv
    OBVIOUS
  <2>1. CaptureIInv
    BY CaptureStarts DEF ParityInit
  <2>2. RustInv
    BY <2>1, RustStarts DEF ParityInit, Init, CaptureIInv
  <2> QED
    BY <2>1, <2>2 DEF ParityIInv
<1> QED
  BY <1>1, ParityStep, PTL DEF ParitySpec

\* The two runtimes have the same opening prices as long as no ring has overflowed, but
\* for a window that Rust arms in the second after the grace.
THEOREM PricesAgree == ParitySpec => []SamePrices
<1>1. ParityIInv => SamePrices
  <2> SUFFICES ASSUME ParityIInv, ordered, Len(recentRust) < RingMax, NEW w \in Window,
                      Known(price, w), Known(priceRust, w),
                      Official \notin {price[w], priceRust[w]}
               PROVE  \/ price[w] = priceRust[w]
                      \/ /\ price[w] = Unarmed
                         /\ priceRust[w] \div Milli = w + Grace /\ ~InGrace(w, priceRust[w])
    BY Zenon DEF SamePrices
  <2>1. /\ TypeOK /\ OpeningNotMissed /\ InOrder(price, recent)
        /\ NotMissed(priceRust, recentRust) /\ RingsMeet /\ PriceType(priceRust)
        /\ priceRust[w] \in Nat => FirstOrLate(priceRust[w], recentRust, w)
    BY DEF ParityIInv, CaptureIInv, RustInv
  <2>2. price[w] \in Nat \cup {Unarmed} /\ priceRust[w] \in Nat \cup {Unarmed}
    BY <2>1, CaptureType DEF PriceType, Price, Known
  <2>3. /\ recent = recentRust
        /\ price[w] \in Nat => price[w] \in Range(recent)
        /\ priceRust[w] \in Nat => priceRust[w] \in Range(recentRust)
    BY <2>1 DEF RingsMeet
  <2>4. price[w] \in Nat => /\ InGrace(w, price[w])
                            /\ \A t \in Range(recent) : InGrace(w, t) => price[w] =< t
    BY <2>1 DEF InOrder
  <2>5. price[w] = Unarmed => \A t \in Range(recent) : ~InGrace(w, t)
    BY <2>1 DEF OpeningNotMissed
  <2>6. CASE priceRust[w] = Unarmed
    <3>1. \A t \in Range(recentRust) : ~InGrace(w, t)
      BY <2>1, <2>6 DEF NotMissed
    <3> QED
      BY <2>2, <2>3, <2>4, <2>6, <3>1
  <2>7. CASE priceRust[w] \in Nat /\ InGrace(w, priceRust[w])
             /\ \A t \in Range(recentRust) : InGrace(w, t) => priceRust[w] =< t
    <3>1. price[w] \in Nat
      BY <2>2, <2>3, <2>5, <2>7
    <3>2. price[w] =< priceRust[w] /\ priceRust[w] =< price[w]
      BY <2>3, <2>4, <2>7, <3>1
    <3> QED
      BY <2>7, <3>1, <3>2
  <2>8. CASE /\ priceRust[w] \in Nat
             /\ priceRust[w] \div Milli = w + Grace /\ ~InGrace(w, priceRust[w])
             /\ \A t \in Range(recentRust) : ~InGrace(w, t)
    BY <2>2, <2>3, <2>4, <2>8
  <2> QED
    BY <2>1, <2>2, <2>6, <2>7, <2>8 DEF FirstOrLate
<1> QED
  BY <1>1, ParityInvariant, PTL

=============================================================================
