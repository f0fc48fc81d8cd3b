-------------------------- MODULE SettlementProofs --------------------------
(***************************************************************************)
(* Theorems about the settlement passes, for every set of positions, live  *)
(* or not, and every choice of the lookups that never work.                *)
(***************************************************************************)
EXTENDS Settlement, TLAPS

-----------------------------------------------------------------------------
(***************************************************************************)
(* What gamma_winning_outcome makes of an answer                           *)
(***************************************************************************)

\* The indices of a pair
LEMMA OneOrTwo == 1 \in 1..2 /\ 2 \in 1..2 /\ \A i \in 1..2 : i = 1 \/ i = 2
  OBVIOUS

\* The least of the indices that pay is one of them.
LEMMA LeastPaid ==
    ASSUME NEW paid \in SUBSET (1..2), paid # {}
    PROVE  (CHOOSE i \in paid : \A j \in paid : i =< j) \in paid
<1>1. CASE 1 \in paid
  <2>1. \A j \in paid : 1 =< j
    BY OneOrTwo
  <2> QED
    BY <1>1, <2>1
<1>2. CASE 1 \notin paid
  <2>1. PICK i \in paid : i \in 1..2
    OBVIOUS
  <2>2. \A j \in paid : j = 2
    BY <1>2, OneOrTwo
  <2>3. i \in paid /\ \A j \in paid : i =< j
    BY <2>1, <2>2
  <2> QED
    BY <2>3
<1> QED
  BY <1>1, <1>2

\* What a market pays is a pair of prices.
LEMMA PayingIs ==
    ASSUME NEW winning, NEW outcomes
    PROVE  /\ Paying(winning, outcomes) \in [1..2 -> Nat]
           /\ \A i \in 1..2 :
                  Paying(winning, outcomes)[i] = IF outcomes[i] = winning THEN 1000 ELSE 0
  BY DEF Paying

\* A market that is resolved gives its official outcome, in whatever order it lists the
\* two, with a status or without.
LEMMA OfficialAnswer ==
    ASSUME NEW p, official[p] \in Outcome, NEW event \in ResolvedEvents(p)
    PROVE  GammaWinningOutcome(event) = official[p]
<1> DEFINE paid == {i \in DOMAIN event.prices : event.prices[i] >= 999}
<1>1. /\ event.outcomes \in [1..2 -> Outcome] /\ event.outcomes[1] # event.outcomes[2]
      /\ event.status \in {"", "resolved"}
      /\ event.prices = Paying(official[p], event.outcomes)
  BY DEF ResolvedEvents, Events, Listings
<1>2. /\ DOMAIN event.prices = 1..2 /\ Len(event.prices) = 2 /\ Len(event.outcomes) = 2
      /\ \A i \in 1..2 : event.prices[i] = IF event.outcomes[i] = official[p] THEN 1000 ELSE 0
  <2>1. /\ event.prices \in [1..2 -> Nat]
        /\ \A i \in 1..2 : event.prices[i] = IF event.outcomes[i] = official[p] THEN 1000 ELSE 0
    <3> DEFINE pays == Paying(official[p], event.outcomes)
    <3>1. /\ pays \in [1..2 -> Nat]
          /\ \A i \in 1..2 : pays[i] = IF event.outcomes[i] = official[p] THEN 1000 ELSE 0
      BY PayingIs
    <3>2. event.prices = pays
      BY <1>1
    <3> HIDE DEF pays
    <3> QED
      BY <3>1, <3>2
  <2>2. \A f : \A S : f \in [1..2 -> S] => Len(f) = 2
    OBVIOUS
  <2> QED
    BY <1>1, <2>1, <2>2
<1>3. PICK k \in 1..2 : /\ event.outcomes[k] = official[p]
                        /\ \A i \in 1..2 : i # k => event.outcomes[i] # official[p]
  BY <1>1, OneOrTwo DEF Outcome
<1>4. k \in paid /\ \A i \in paid : i = k
  BY <1>2, <1>3
<1> HIDE DEF paid
<1>5. (CHOOSE i \in paid : \A j \in paid : i =< j) = k
  <2>1. k =< k
    BY <1>3
  <2>2. \A i \in paid : (\A j \in paid : i =< j) => i = k
    BY <1>4
  <2>3. \A j \in paid : k =< j
    BY <1>4, <2>1
  <2> QED
    BY <1>4, <2>2, <2>3
<1>6. GammaWinningOutcome(event) = event.outcomes[CHOOSE i \in paid : \A j \in paid : i =< j]
  <2>1. /\ paid # {} /\ ~(event.status \notin {"", "resolved"})
        /\ ~(Len(event.outcomes) # Len(event.prices))
    BY <1>1, <1>2, <1>4
  <2> QED
    BY <2>1, Zenon DEF GammaWinningOutcome, paid
<1> QED
  BY <1>3, <1>5, <1>6

\* A market that is not gives an outcome or none.
LEMMA UnresolvedAnswer ==
    ASSUME NEW event \in UnresolvedEvents
    PROVE  GammaWinningOutcome(event) \in Outcome \cup {None}
<1> DEFINE paid == {i \in DOMAIN event.prices : event.prices[i] >= 999}
<1>1. CASE Len(event.outcomes) # Len(event.prices) \/ paid = {}
  BY <1>1 DEF GammaWinningOutcome
<1>2. CASE Len(event.outcomes) = Len(event.prices) /\ paid # {}
  <2>1. event.outcomes \in [1..2 -> Outcome]
    BY DEF UnresolvedEvents, Events, Listings
  <2>2. event.prices = <<>> \/ event.prices \in [1..2 -> Prices]
    BY DEF UnresolvedEvents, Events
  <2>3. event.prices # <<>>
    BY <1>2, <2>1
  <2>4. DOMAIN event.prices = 1..2
    BY <2>2, <2>3
  <2>5. paid \subseteq 1..2
    BY <2>4
  <2> HIDE DEF paid
  <2>6. (CHOOSE i \in paid : \A j \in paid : i =< j) \in 1..2
    BY <1>2, <2>5, LeastPaid
  <2>7. event.outcomes[CHOOSE i \in paid : \A j \in paid : i =< j] \in Outcome
    BY <2>1, <2>6
  <2> QED
    BY <2>7, Zenon DEF GammaWinningOutcome, paid
<1> QED
  BY <1>1, <1>2

\* What a lookup may find is an outcome or none; when the market was resolved before it
\* was asked, it is the official outcome.
LEMMA AnswerIs ==
    ASSUME TypeOK, NEW p \in Position, NEW winning \in Answers(p)
    PROVE  /\ winning \in Outcome \cup {None}
           /\ pass.asked => winning = official[p] /\ winning \in Outcome
<1>1. official[p] \in Outcome \cup {None}
  BY DEF TypeOK
<1>2. CASE winning \in {GammaWinningOutcome(e) : e \in ResolvedEvents(p)} /\ official[p] # None
  BY <1>1, <1>2, OfficialAnswer
<1>3. CASE ~pass.asked /\ winning \in {None} \cup {GammaWinningOutcome(e) : e \in UnresolvedEvents}
  BY <1>3, UnresolvedAnswer
<1> QED
  BY <1>2, <1>3 DEF Answers

-----------------------------------------------------------------------------
(***************************************************************************)
(* The dict of positions and the list a pass makes of it                   *)
(***************************************************************************)

Distinct(s) == \A i, j \in DOMAIN s : s[i] = s[j] => i = j

Holds(s, p) == \E i \in DOMAIN s : s[i] = p

\* Appending what is not there keeps a list distinct.
LEMMA AppendNew ==
    ASSUME NEW s \in Seq(Position), Distinct(s), NEW p \in Position, ~Holds(s, p)
    PROVE  /\ Append(s, p) \in Seq(Position) /\ Distinct(Append(s, p))
           /\ \A q : Holds(Append(s, p), q) <=> Holds(s, q) \/ q = p
<1> DEFINE t == Append(s, p)
<1>1. /\ t \in Seq(Position) /\ Len(s) \in Nat /\ Len(t) = Len(s) + 1
      /\ DOMAIN s = 1..Len(s) /\ DOMAIN t = 1..(Len(s) + 1)
      /\ \A i \in 1..Len(s) : t[i] = s[i]
      /\ t[Len(s) + 1] = p
  OBVIOUS
<1> HIDE DEF t
<1>2. Distinct(t)
  BY <1>1 DEF Distinct, Holds
<1>3. \A q : Holds(t, q) <=> Holds(s, q) \/ q = p
  BY <1>1 DEF Holds
<1> QED
  BY <1>1, <1>2, <1>3 DEF t

\* Removing an entry removes that one.
LEMMA RemoveOne ==
    ASSUME NEW s \in Seq(Position), Distinct(s), NEW i \in DOMAIN s
    PROVE  /\ RemoveAt(s, i) \in Seq(Position) /\ Distinct(RemoveAt(s, i))
           /\ \A q : Holds(RemoveAt(s, i), q) <=> Holds(s, q) /\ q # s[i]
<1> DEFINE before == SubSeq(s, 1, i - 1)
           after == SubSeq(s, i + 1, Len(s))
           t == before \o after
           at(j) == IF j < i THEN j ELSE j + 1
<1>1. Len(s) \in Nat /\ DOMAIN s = 1..Len(s) /\ i \in 1..Len(s)
  OBVIOUS
<1>2. /\ before \in Seq(Position) /\ Len(before) = i - 1
      /\ \A j \in 1..(i - 1) : before[j] = s[j]
      /\ after \in Seq(Position) /\ Len(after) = Len(s) - i
      /\ \A j \in 1..(Len(s) - i) : after[j] = s[i + j]
  BY <1>1, SMTT(30)
<1> HIDE DEF before, after
<1>3. /\ t \in Seq(Position) /\ Len(t) = Len(s) - 1 /\ DOMAIN t = 1..(Len(s) - 1)
      /\ \A j \in 1..(Len(s) - 1) : t[j] = IF j < i THEN before[j] ELSE after[j - (i - 1)]
  <2>1. /\ t \in Seq(Position) /\ Len(t) = Len(before) + Len(after) /\ DOMAIN t = 1..Len(t)
        /\ \A j \in 1..Len(t) :
               t[j] = IF j =< Len(before) THEN before[j] ELSE after[j - Len(before)]
    <3>1. before \in Seq(Position) /\ after \in Seq(Position)
      BY <1>2
    <3> QED
      BY <3>1
  <2>2. Len(t) = Len(s) - 1
    BY <1>1, <1>2, <2>1
  <2> HIDE DEF t
  <2>3. \A j \in 1..(Len(s) - 1) : t[j] = IF j < i THEN before[j] ELSE after[j - (i - 1)]
    BY <1>1, <1>2, <2>1, <2>2, SMTT(30)
  <2> QED
    BY <2>1, <2>2, <2>3
<1> HIDE DEF t
<1>4. \A j \in 1..(Len(s) - 1) : at(j) \in 1..Len(s) /\ at(j) # i /\ t[j] = s[at(j)]
  <2> SUFFICES ASSUME NEW j \in 1..(Len(s) - 1)
               PROVE  at(j) \in 1..Len(s) /\ at(j) # i /\ t[j] = s[at(j)]
    OBVIOUS
  <2>1. CASE j < i
    BY <1>1, <1>2, <1>3, <2>1
  <2>2. CASE ~(j < i)
    <3> DEFINE k == j - (i - 1)
    <3>1. k \in 1..(Len(s) - i) /\ i + k = j + 1
      BY <1>1, <2>2
    <3>2. t[j] = after[k]
      BY <1>3, <2>2
    <3> HIDE DEF k
    <3>3. after[k] = s[j + 1]
      BY <1>2, <3>1
    <3>4. at(j) = j + 1 /\ j + 1 \in 1..Len(s) /\ j + 1 # i
      BY <1>1, <2>2
    <3> QED
      BY <3>2, <3>3, <3>4
  <2> QED
    BY <2>1, <2>2
<1>5. \A j, k \in 1..(Len(s) - 1) : at(j) = at(k) => j = k
  BY <1>1
<1>6. Distinct(t)
  <2> SUFFICES ASSUME NEW j \in 1..(Len(s) - 1), NEW k \in 1..(Len(s) - 1), t[j] = t[k]
               PROVE  j = k
    BY <1>3 DEF Distinct
  <2>1. at(j) \in 1..Len(s) /\ at(k) \in 1..Len(s) /\ s[at(j)] = s[at(k)]
    BY <1>4
  <2> HIDE DEF at
  <2>2. at(j) = at(k)
    BY <1>1, <2>1 DEF Distinct
  <2> QED
    BY <1>5, <2>2
<1>7. ASSUME NEW q PROVE Holds(t, q) <=> Holds(s, q) /\ q # s[i]
  <2>1. ASSUME Holds(t, q) PROVE Holds(s, q) /\ q # s[i]
    <3>1. PICK j \in 1..(Len(s) - 1) : t[j] = q
      BY <1>3, <2>1 DEF Holds
    <3>2. at(j) \in 1..Len(s) /\ s[at(j)] = q /\ at(j) # i
      BY <1>4, <3>1
    <3> HIDE DEF at
    <3> QED
      BY <1>1, <3>2 DEF Holds, Distinct
  <2>2. ASSUME Holds(s, q), q # s[i] PROVE Holds(t, q)
    <3>1. PICK k \in 1..Len(s) : s[k] = q
      BY <1>1, <2>2 DEF Holds
    <3> DEFINE j == IF k < i THEN k ELSE k - 1
    <3>2. k # i
      BY <2>2, <3>1
    <3>3. j \in 1..(Len(s) - 1) /\ at(j) = k
      BY <1>1, <3>1, <3>2
    <3> HIDE DEF j, at
    <3>4. t[j] = q
      BY <1>4, <3>1, <3>3
    <3> QED
      BY <1>3, <3>3, <3>4 DEF Holds
  <2> QED
    BY <2>1, <2>2
<1> QED
  BY <1>3, <1>6, <1>7 DEF RemoveAt, t, before, after

\* The rest of a distinct list does not hold its head.
LEMMA RestOfList ==
    ASSUME NEW s \in Seq(Position), Distinct(s), s # <<>>
    PROVE  /\ Head(s) \in Position /\ Tail(s) \in Seq(Position) /\ Distinct(Tail(s))
           /\ Holds(s, Head(s)) /\ ~Holds(Tail(s), Head(s))
           /\ \A q : Holds(Tail(s), q) => Holds(s, q)
<1> DEFINE t == Tail(s)
<1>1. /\ Len(s) \in Nat \ {0} /\ DOMAIN s = 1..Len(s) /\ Head(s) = s[1] /\ Head(s) \in Position
      /\ t \in Seq(Position) /\ DOMAIN t = 1..(Len(s) - 1)
      /\ \A i \in 1..(Len(s) - 1) : t[i] = s[i + 1]
  OBVIOUS
<1> HIDE DEF t
<1>0. \A i \in 1..(Len(s) - 1) : i + 1 \in 1..Len(s) /\ i + 1 # 1
  BY <1>1
<1>2. Distinct(t)
  <2> SUFFICES ASSUME NEW i \in 1..(Len(s) - 1), NEW j \in 1..(Len(s) - 1), t[i] = t[j]
               PROVE  i = j
    BY <1>1 DEF Distinct
  <2>1. i + 1 = j + 1
    BY <1>0, <1>1 DEF Distinct
  <2> QED
    BY <2>1
<1>3. Holds(s, Head(s)) /\ ~Holds(t, Head(s))
  BY <1>0, <1>1 DEF Distinct, Holds
<1>4. \A q : Holds(t, q) => Holds(s, q)
  BY <1>0, <1>1 DEF Holds
<1> QED
  BY <1>1, <1>2, <1>3, <1>4 DEF t

-----------------------------------------------------------------------------
(***************************************************************************)
(* The passes                                                              *)
(***************************************************************************)

\* What holds between the awaits: the positions a pass has left are open and were not
\* closed; what was closed was due and had its tick, which no later step takes back;
\* the position a lookup is about is due, has its tick and is live.
PassInv ==
    /\ \A p \in Position : InBook(p) => closed[p] = NotClosed
    /\ \A p \in Position : closed[p] # NotClosed => p \in due \cap Ticked
    /\ pass.due \subseteq due
    /\ Distinct(pass.todo)
    /\ \A p \in Position : Holds(pass.todo, p) => InBook(p)
    /\ pass.pc = "fetch" => pass.todo # <<>> /\ First \in pass.due \cap Ticked \cap Live
    /\ pass.asked => pass.pc = "fetch" /\ First \in Resolved

SettlementIInv == TypeOK /\ PassInv

\* Type correctness, with the fields of the pass by name.
LEMMA PassType ==
    ASSUME TypeOK
    PROVE  /\ pass.pc \in {"sleep", "scan", "fetch", "notify"}
           /\ pass.todo \in Seq(Position) /\ pass.due \subseteq Position /\ pass.asked \in BOOLEAN
           /\ pass = [pc |-> pass.pc, todo |-> pass.todo, due |-> pass.due, asked |-> pass.asked]
           /\ book \in Seq(Position) /\ Distinct(book)
           /\ \A p : InBook(p) <=> Holds(book, p)
  BY DEF TypeOK, Distinct, InBook, Holds

\* It holds at the start.
LEMMA SettlementStarts == Init => SettlementIInv
<1> SUFFICES ASSUME Init PROVE SettlementIInv
  OBVIOUS
<1>1. TypeOK
  BY DEF Init, TypeOK, Sleeping, Outcome
<1>2. PassInv
  BY DEF Init, PassInv, Sleeping, Distinct, Holds, InBook
<1> QED
  BY <1>1, <1>2 DEF SettlementIInv

\* A pass that is broken off, or ends, leaves no position behind.
LEMMA SleepKeeps ==
    ASSUME SettlementIInv, pass' = Sleeping, UNCHANGED <<book, due, tick, official, closed>>
    PROVE  SettlementIInv'
<1>1. /\ pass'.pc = "sleep" /\ pass'.todo = <<>> /\ pass'.due = {} /\ pass'.asked = FALSE
      /\ pass' \in [pc : {"sleep", "scan", "fetch", "notify"}, todo : Seq(Position),
                    due : SUBSET Position, asked : BOOLEAN]
  BY DEF Sleeping
<1>2. TypeOK'
  BY <1>1 DEF SettlementIInv, TypeOK
<1>3. PassInv'
  BY <1>1 DEF SettlementIInv, PassInv, Distinct, Holds, InBook, Ticked
<1> QED
  BY <1>2, <1>3 DEF SettlementIInv

\* close_trade and the pop take the position out of the dict for good.
LEMMA CloseKeepsInv ==
    ASSUME SettlementIInv, pass.pc \in {"scan", "fetch"}, pass.todo # <<>>,
           First \in pass.due \cap Ticked, UNCHANGED <<due, tick, official>>,
           NEW winning \in Outcome, NEW source \in {"gamma", "local_chainlink"},
           Close(winning, source)
    PROVE  SettlementIInv'
<1>1. TypeOK /\ PassInv
  BY DEF SettlementIInv
<1>2. /\ pass.todo \in Seq(Position) /\ pass.due \subseteq Position
      /\ book \in Seq(Position) /\ Distinct(book) /\ \A p : InBook(p) <=> Holds(book, p)
  BY <1>1, PassType
<1>3. /\ First \in Position /\ Tail(pass.todo) \in Seq(Position) /\ Distinct(Tail(pass.todo))
      /\ Holds(pass.todo, First) /\ ~Holds(Tail(pass.todo), First)
      /\ \A q : Holds(Tail(pass.todo), q) => Holds(pass.todo, q)
  BY <1>1, <1>2, RestOfList DEF First, PassInv
<1>4. PICK i \in DOMAIN book : book[i] = First /\ book' = RemoveAt(book, i)
  BY DEF Close
<1>5. /\ book' \in Seq(Position) /\ Distinct(book')
      /\ \A q : Holds(book', q) <=> Holds(book, q) /\ q # First
  BY <1>2, <1>4, RemoveOne
<1>6. /\ pass'.pc = "notify" /\ pass'.todo = Tail(pass.todo) /\ pass'.due = pass.due
      /\ pass'.asked = FALSE
      /\ pass' \in [pc : {"sleep", "scan", "fetch", "notify"}, todo : Seq(Position),
                    due : SUBSET Position, asked : BOOLEAN]
  <2>1. pass' = [pass EXCEPT !.pc = "notify", !.todo = Tail(pass.todo), !.asked = FALSE]
    BY DEF Close
  <2> QED
    BY <1>1, <1>2, <1>3, <2>1 DEF TypeOK
<1>7. /\ closed' = [closed EXCEPT ![First] = [winning |-> winning, source |-> source]]
      /\ closed \in [Position -> [winning : Outcome, source : {"gamma", "local_chainlink"}]
                                 \cup {NotClosed}]
  BY <1>1 DEF Close, TypeOK
<1>8. closed' \in [Position -> [winning : Outcome, source : {"gamma", "local_chainlink"}]
                                 \cup {NotClosed}]
  BY <1>3, <1>7
<1>9. TypeOK'
  BY <1>1, <1>5, <1>6, <1>8 DEF TypeOK, Distinct
<1>10. PassInv'
  <2>1. \A p \in Position : p # First => closed'[p] = closed[p]
    BY <1>7
  <2>2. \A p : InBook(p)' <=> InBook(p) /\ p # First
    BY <1>2, <1>5 DEF InBook, Holds
  <2>3. Ticked' = Ticked /\ due' = due
    BY DEF Ticked
  <2>4. (\A p \in Position : InBook(p) => closed[p] = NotClosed)'
    BY <1>1, <2>1, <2>2 DEF PassInv
  <2>5. (\A p \in Position : closed[p] # NotClosed => p \in due \cap Ticked)'
    BY <1>1, <2>1, <2>3 DEF PassInv
  <2>6. (\A p \in Position : Holds(pass.todo, p) => InBook(p))'
    <3>1. \A p \in Position : Holds(Tail(pass.todo), p) => InBook(p) /\ p # First
      BY <1>1, <1>3 DEF PassInv
    <3>2. \A p : Holds(pass.todo, p)' <=> Holds(Tail(pass.todo), p)
      BY <1>6 DEF Holds
    <3> QED
      BY <2>2, <3>1, <3>2
  <2>7. Distinct(pass.todo)' /\ (pass.due \subseteq due)' /\ pass'.pc # "fetch" /\ ~pass'.asked
    BY <1>1, <1>3, <1>6, <2>3 DEF Distinct, PassInv
  <2> QED
    BY <2>4, <2>5, <2>6, <2>7 DEF PassInv
<1> QED
  BY <1>9, <1>10 DEF SettlementIInv

\* A step of the loop keeps it.
LEMMA LoopKeeps == SettlementIInv /\ Loop => SettlementIInv'
<1> SUFFICES ASSUME SettlementIInv, Loop PROVE SettlementIInv'
  OBVIOUS
<1>1. TypeOK /\ PassInv
  BY DEF SettlementIInv
<1>2. /\ pass.todo \in Seq(Position) /\ pass.due \subseteq Position
      /\ book \in Seq(Position) /\ Distinct(book) /\ \A p : InBook(p) <=> Holds(book, p)
      /\ due \subseteq Position
      /\ tick \in [Position -> Outcome \cup {None}]
  BY <1>1, PassType DEF TypeOK
<1>3. CASE PassBegins
  <2>1. /\ pass'.pc = "scan" /\ pass'.todo = book /\ pass'.due = due /\ pass'.asked = FALSE
        /\ pass' \in [pc : {"sleep", "scan", "fetch", "notify"}, todo : Seq(Position),
                      due : SUBSET Position, asked : BOOLEAN]
        /\ UNCHANGED <<book, due, tick, official, closed>>
    BY <1>2, <1>3 DEF PassBegins
  <2>2. TypeOK'
    BY <1>1, <2>1 DEF TypeOK
  <2>3. (\A p \in Position : Holds(pass.todo, p) => InBook(p))'
    BY <1>2, <2>1 DEF Holds, InBook
  <2>4. PassInv'
    BY <1>1, <1>2, <2>1, <2>3 DEF PassInv, Distinct, InBook, Ticked
  <2> QED
    BY <2>2, <2>4 DEF SettlementIInv
<1>4. CASE PassEnds \/ LookupRaises
  BY <1>4, SleepKeeps DEF PassEnds, LookupRaises
<1>5. CASE Skip
  <2>1. /\ pass.todo # <<>> /\ pass.pc = "scan"
        /\ pass' = [pass EXCEPT !.todo = Tail(pass.todo)]
        /\ UNCHANGED <<book, due, tick, official, closed>>
    BY <1>5 DEF Skip
  <2>2. /\ Tail(pass.todo) \in Seq(Position) /\ Distinct(Tail(pass.todo))
        /\ \A q : Holds(Tail(pass.todo), q) => Holds(pass.todo, q)
    BY <1>1, <1>2, <2>1, RestOfList DEF PassInv
  <2>3. /\ pass'.pc = "scan" /\ pass'.todo = Tail(pass.todo) /\ pass'.due = pass.due
        /\ pass'.asked = pass.asked
        /\ pass' \in [pc : {"sleep", "scan", "fetch", "notify"}, todo : Seq(Position),
                      due : SUBSET Position, asked : BOOLEAN]
    BY <1>1, <2>1, <2>2 DEF TypeOK
  <2>4. TypeOK'
    BY <1>1, <2>1, <2>3 DEF TypeOK
  <2>5. (\A p \in Position : Holds(pass.todo, p) => InBook(p))'
    BY <1>1, <2>1, <2>2, <2>3 DEF PassInv, Holds, InBook
  <2>6. PassInv'
    BY <1>1, <2>1, <2>2, <2>3, <2>5 DEF PassInv, Distinct, InBook, Ticked
  <2> QED
    BY <2>4, <2>6 DEF SettlementIInv
<1>6. CASE ClosePaper
  <2>1. /\ pass.pc = "scan" /\ pass.todo # <<>> /\ First \in pass.due \cap Ticked
        /\ Close(tick[First], "local_chainlink") /\ UNCHANGED <<due, tick, official>>
    BY <1>6 DEF ClosePaper
  <2>2. tick[First] \in Outcome
    BY <1>2, <2>1 DEF Ticked
  <2> QED
    BY <2>1, <2>2, CloseKeepsInv
<1>7. CASE Lookup
  <2>1. /\ pass.todo # <<>> /\ First \in pass.due \cap Ticked \cap Live
        /\ pass' = [pass EXCEPT !.pc = "fetch", !.asked = First \in Resolved]
        /\ UNCHANGED <<book, due, tick, official, closed>>
    BY <1>7 DEF Lookup
  <2>2. (First \in Resolved) \in BOOLEAN
    OBVIOUS
  <2>3. /\ pass'.pc = "fetch" /\ pass'.todo = pass.todo /\ pass'.due = pass.due
        /\ pass'.asked <=> First \in Resolved
        /\ pass' \in [pc : {"sleep", "scan", "fetch", "notify"}, todo : Seq(Position),
                      due : SUBSET Position, asked : BOOLEAN]
    BY <1>1, <2>1, <2>2 DEF TypeOK
  <2>4. First' = First /\ Ticked' = Ticked /\ Resolved' = Resolved
    BY <2>1, <2>3 DEF First, Ticked, Resolved
  <2>5. TypeOK'
    BY <1>1, <2>1, <2>3 DEF TypeOK
  <2>6. PassInv'
    BY <1>1, <2>1, <2>3, <2>4 DEF PassInv, Distinct, Holds, InBook
  <2> QED
    BY <2>5, <2>6 DEF SettlementIInv
<1>8. CASE \E p \in Position : Answered(p)
  <2>1. PICK p \in Position : Answered(p)
    BY <1>8
  <2>2. /\ pass.pc = "fetch" /\ p = First /\ UNCHANGED <<due, tick, official>>
        /\ pass.todo # <<>> /\ First \in pass.due \cap Ticked
    BY <1>1, <2>1 DEF Answered, PassInv
  <2>3. PICK winning \in Answers(p) :
            IF winning = None THEN Close(tick[p], "local_chainlink") ELSE Close(winning, "gamma")
    BY <2>1 DEF Answered
  <2>4. winning \in Outcome \cup {None} /\ tick[p] \in Outcome
    BY <1>1, <1>2, <2>2, AnswerIs DEF Ticked
  <2> QED
    BY <2>2, <2>3, <2>4, CloseKeepsInv
<1>9. CASE Notified
  <2>1. CASE pass' = Sleeping
    BY <1>9, <2>1, SleepKeeps DEF Notified
  <2>2. CASE pass' = [pass EXCEPT !.pc = "scan"]
    <3>1. /\ pass'.pc = "scan" /\ pass'.todo = pass.todo /\ pass'.due = pass.due
          /\ pass'.asked = pass.asked
          /\ pass' \in [pc : {"sleep", "scan", "fetch", "notify"}, todo : Seq(Position),
                        due : SUBSET Position, asked : BOOLEAN]
          /\ pass.pc = "notify" /\ UNCHANGED <<book, due, tick, official, closed>>
      BY <1>1, <1>9, <2>2 DEF TypeOK, Notified
    <3>2. TypeOK'
      BY <1>1, <3>1 DEF TypeOK
    <3>3. PassInv'
      BY <1>1, <3>1 DEF PassInv, Distinct, Holds, InBook, Ticked
    <3> QED
      BY <3>2, <3>3 DEF SettlementIInv
  <2> QED
    BY <1>9, <2>1, <2>2 DEF Notified
<1> QED
  BY <1>3, <1>4, <1>5, <1>6, <1>7, <1>8, <1>9 DEF Loop

\* What happens around the loop keeps it: ticks, ends and resolutions only come.
LEMMA WorldKeeps == SettlementIInv /\ (Open \/ Ends \/ TickComes \/ Resolve) => SettlementIInv'
<1> SUFFICES ASSUME SettlementIInv, Open \/ Ends \/ TickComes \/ Resolve PROVE SettlementIInv'
  OBVIOUS
<1>1. TypeOK /\ PassInv
  BY DEF SettlementIInv
<1>2. /\ book \in Seq(Position) /\ Distinct(book) /\ \A p : InBook(p) <=> Holds(book, p)
      /\ due \subseteq Position
      /\ tick \in [Position -> Outcome \cup {None}] /\ official \in [Position -> Outcome \cup {None}]
  BY <1>1, PassType DEF TypeOK
<1>3. CASE Open
  <2>1. PICK p \in Position \ (due \cup Ticked) : ~InBook(p) /\ book' = Append(book, p)
    BY <1>3 DEF Open
  <2>2. UNCHANGED <<due, tick, official, closed, pass>>
    BY <1>3 DEF Open
  <2>3. /\ book' \in Seq(Position) /\ Distinct(book')
        /\ \A q : Holds(book', q) <=> Holds(book, q) \/ q = p
    BY <1>2, <2>1, AppendNew
  <2>4. \A q : InBook(q)' <=> InBook(q) \/ q = p
    BY <1>2, <2>3 DEF InBook, Holds
  <2>5. TypeOK'
    BY <1>1, <2>2, <2>3 DEF TypeOK, Distinct
  <2>6. closed[p] = NotClosed
    BY <1>1, <2>1 DEF PassInv
  <2>7. PassInv'
    BY <1>1, <2>2, <2>4, <2>6 DEF PassInv, Distinct, Holds, Ticked, First, Resolved
  <2> QED
    BY <2>5, <2>7 DEF SettlementIInv
<1>4. CASE Ends
  <2>1. /\ due' \subseteq Position /\ due \subseteq due'
        /\ UNCHANGED <<book, tick, official, closed, pass>>
    BY <1>2, <1>4 DEF Ends
  <2>2. TypeOK'
    BY <1>1, <2>1 DEF TypeOK
  <2>3. PassInv'
    BY <1>1, <2>1 DEF PassInv, Distinct, Holds, InBook, Ticked, First, Resolved
  <2> QED
    BY <2>2, <2>3 DEF SettlementIInv
<1>5. CASE TickComes
  <2>1. PICK p \in Position \ Ticked, winning \in Outcome :
            InBook(p) /\ tick' = [tick EXCEPT ![p] = winning]
    BY <1>5 DEF TickComes
  <2>2. UNCHANGED <<book, due, official, closed, pass>>
    BY <1>5 DEF TickComes
  <2>3. tick' \in [Position -> Outcome \cup {None}]
    BY <1>2, <2>1
  <2>4. winning # None
    BY <2>1 DEF Outcome, None
  <2>5. \A q \in Ticked : q \in Ticked'
    BY <1>2, <2>1, <2>4 DEF Ticked
  <2>6. TypeOK'
    BY <1>1, <2>2, <2>3 DEF TypeOK
  <2>7. PassInv'
    BY <1>1, <2>2, <2>5 DEF PassInv, Distinct, Holds, InBook, First, Resolved
  <2> QED
    BY <2>6, <2>7 DEF SettlementIInv
<1>6. CASE Resolve
  <2>1. PICK p \in (Live \cap due) \ Resolved, winning \in Outcome :
            official' = [official EXCEPT ![p] = winning]
    BY <1>6 DEF Resolve
  <2>2. UNCHANGED <<book, due, tick, closed, pass>>
    BY <1>6 DEF Resolve
  <2>3. official' \in [Position -> Outcome \cup {None}] /\ winning # None
    BY <1>2, <2>1 DEF Outcome, None
  <2>4. \A q \in Resolved : q \in Resolved'
    BY <1>2, <2>1, <2>3 DEF Resolved
  <2>5. TypeOK'
    BY <1>1, <2>2, <2>3 DEF TypeOK
  <2>6. PassInv'
    BY <1>1, <2>2, <2>4 DEF PassInv, Distinct, Holds, InBook, First, Ticked
  <2> QED
    BY <2>5, <2>6 DEF SettlementIInv
<1> QED
  BY <1>3, <1>4, <1>5, <1>6

LEMMA SettlementStep == SettlementIInv /\ [Next]_vars => SettlementIInv'
<1>1. SettlementIInv /\ UNCHANGED vars => SettlementIInv'
  BY DEF vars, SettlementIInv, TypeOK, PassInv, Distinct, Holds, InBook, First, Ticked, Resolved
<1> QED
  BY <1>1, LoopKeeps, WorldKeeps DEF Next

LEMMA SettlementInvariant == Spec => []SettlementIInv
<1> QED
  BY SettlementStarts, SettlementStep, PTL DEF Spec

\* Type correctness.
THEOREM SettlementTypeCorrect == Spec => []TypeOK
<1>1. SettlementIInv => TypeOK
  BY DEF SettlementIInv
<1> QED
  BY <1>1, SettlementInvariant, PTL

\* No position is open and closed, and a pass, whatever broke off the one before, has
\* only open positions left to settle.
THEOREM SettledOnce == Spec => []ClosedOnce
<1>1. SettlementIInv => ClosedOnce
  <2> SUFFICES ASSUME SettlementIInv PROVE ClosedOnce
    OBVIOUS
  <2>1. pass.todo \in Seq(Position)
    BY PassType DEF SettlementIInv
  <2>2. \A i \in DOMAIN pass.todo : pass.todo[i] \in Position /\ Holds(pass.todo, pass.todo[i])
    BY <2>1 DEF Holds
  <2> QED
    BY <2>2 DEF SettlementIInv, PassInv, ClosedOnce
<1> QED
  BY <1>1, SettlementInvariant, PTL

-----------------------------------------------------------------------------
(***************************************************************************)
(* What a step may do to a close                                           *)
(***************************************************************************)

\* A step that changes a close is the close of the position the pass is at: by its
\* tick without a lookup, or by an answer to the lookup of a live one.
LEMMA OnlyFirstCloses ==
    ASSUME SettlementIInv, [Next]_vars, NEW p \in Position, closed'[p] # closed[p]
    PROVE  /\ p = First /\ pass.todo # <<>> /\ InBook(p)
           /\ \/ ClosePaper
              \/ \E winning \in Answers(p) :
                     IF winning = None THEN Close(tick[p], "local_chainlink")
                                       ELSE Close(winning, "gamma")
<1>1. TypeOK /\ PassInv /\ pass.todo \in Seq(Position)
  BY PassType DEF SettlementIInv
<1>2. closed' # closed
  OBVIOUS
<1>3. closed \in [Position -> [winning : Outcome, source : {"gamma", "local_chainlink"}]
                              \cup {NotClosed}]
  BY <1>1 DEF TypeOK
<1>4. CASE ClosePaper
  <2>1. pass.todo # <<>> /\ Close(tick[First], "local_chainlink")
    BY <1>4 DEF ClosePaper
  <2>2. p = First
    BY <1>3, <2>1 DEF Close
  <2>3. Holds(pass.todo, First)
    BY <1>1, <2>1, RestOfList DEF First, PassInv
  <2> QED
    BY <1>1, <1>4, <2>1, <2>2, <2>3 DEF PassInv
<1>5. CASE \E q \in Position : Answered(q)
  <2>1. PICK q \in Position : Answered(q)
    BY <1>5
  <2>2. q = First /\ pass.todo # <<>>
    BY <1>1, <2>1 DEF Answered, PassInv
  <2>3. PICK winning \in Answers(q) :
            IF winning = None THEN Close(tick[q], "local_chainlink") ELSE Close(winning, "gamma")
    BY <2>1 DEF Answered
  <2>4. p = First
    BY <1>3, <2>3 DEF Close
  <2>5. Holds(pass.todo, First)
    BY <1>1, <2>2, RestOfList DEF First, PassInv
  <2> QED
    BY <1>1, <2>2, <2>3, <2>4, <2>5 DEF PassInv
<1>6. ClosePaper \/ \E q \in Position : Answered(q)
  BY <1>2 DEF Next, Loop, vars, PassBegins, PassEnds, Skip, Lookup, LookupRaises, Notified,
              Open, Ends, TickComes, Resolve
<1> QED
  BY <1>4, <1>5, <1>6

\* A live position whose market was resolved when it was asked is closed by the official
\* outcome, whatever order the outcomes are listed in and whatever the tick says.
THEOREM OfficialOutcomeWins == Spec => OfficialWhenResolved
<1>1. SettlementIInv /\ [Next]_vars =>
          [\A p \in Position :
               (closed'[p] # closed[p] /\ p \in Live /\ pass.asked)
                   => closed'[p] = [winning |-> official[p], source |-> "gamma"]]_vars
  <2> SUFFICES ASSUME SettlementIInv, [Next]_vars, NEW p \in Position,
                      closed'[p] # closed[p], p \in Live, pass.asked
               PROVE  closed'[p] = [winning |-> official[p], source |-> "gamma"]
    BY Zenon
  <2>1. TypeOK /\ PassInv
    BY DEF SettlementIInv
  <2>2. p = First
    BY OnlyFirstCloses
  <2>3. ~ClosePaper
    BY <2>1 DEF ClosePaper, PassInv
  <2>4. PICK winning \in Answers(p) :
            IF winning = None THEN Close(tick[p], "local_chainlink") ELSE Close(winning, "gamma")
    BY <2>3, OnlyFirstCloses
  <2>5. winning = official[p] /\ winning # None
    BY <2>1, <2>4, AnswerIs DEF Outcome, None
  <2>6. closed' = [closed EXCEPT ![First] = [winning |-> winning, source |-> "gamma"]]
    BY <2>4, <2>5 DEF Close
  <2>7. p \in DOMAIN closed
    BY <2>1 DEF TypeOK
  <2> QED
    BY <2>2, <2>5, <2>6, <2>7
<1> QED
  BY <1>1, SettlementInvariant, PTL DEF Spec, OfficialWhenResolved

\* A close is final: no later pass, however many were broken off, and no later resolution
\* changes the outcome or the source a position was closed with.
THEOREM CloseIsFinal ==
    Spec => [][\A p \in Position : closed[p] # NotClosed => closed'[p] = closed[p]]_vars
<1>1. SettlementIInv /\ [Next]_vars =>
          [\A p \in Position : closed[p] # NotClosed => closed'[p] = closed[p]]_vars
  <2> SUFFICES ASSUME SettlementIInv, [Next]_vars, NEW p \in Position,
                      closed[p] # NotClosed, closed'[p] # closed[p]
               PROVE  FALSE
    BY Zenon
  <2>1. InBook(p)
    BY OnlyFirstCloses
  <2> QED
    BY <2>1 DEF SettlementIInv, PassInv
<1> QED
  BY <1>1, SettlementInvariant, PTL DEF Spec

=============================================================================
