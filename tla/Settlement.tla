----------------------------- MODULE Settlement -----------------------------
(***************************************************************************)
(* The settlement loop of bot.py with what it asks of Gamma: the positions *)
(* of a pass in the order of the dict, the lookups that answer, find       *)
(* nothing, or raise and end the pass, and the outcome by the local tick   *)
(* when Gamma has none.  Bot has the amounts, this module the outcomes.    *)
(*                                                                         *)
(* The official outcome of a window and the one its local tick says need   *)
(* not agree.                                                              *)
(***************************************************************************)
EXTENDS Naturals, SequencesExt

CONSTANTS
    Position,   \* the positions that are opened, each of its own window
    Live,       \* those of mode "live"
    Broken      \* live ones whose lookup raises every time

ASSUME SettlementAssumption ==
    IsFiniteSet(Position) /\ Live \subseteq Position /\ Broken \subseteq Live

Outcome == {"Up", "Down"}
None == "none"

VARIABLES
    book,       \* Bot.positions, in the order of the dict
    due,        \* positions whose window has ended settlement_grace_seconds ago
    tick,       \* the outcome by the tick to settle by (local_winning_outcome), if there is one
    official,   \* the outcome Gamma shows as resolved, if it does
    closed,     \* the close_trade of a position: its outcome and source
    pass        \* the pass: pc, positions left, those due when it began, whether resolved when asked

vars == <<book, due, tick, official, closed, pass>>

Sleeping == [pc |-> "sleep", todo |-> <<>>, due |-> {}, asked |-> FALSE]
NotClosed == [winning |-> None, source |-> None]

TypeOK ==
    /\ book \in Seq(Position)
    /\ \A i, j \in DOMAIN book : book[i] = book[j] => i = j
    /\ due \subseteq Position
    /\ {tick, official} \subseteq [Position -> Outcome \cup {None}]
    /\ closed \in [Position -> [winning : Outcome, source : {"gamma", "local_chainlink"}]
                               \cup {NotClosed}]
    /\ pass \in [pc : {"sleep", "scan", "fetch", "notify"}, todo : Seq(Position),
                 due : SUBSET Position, asked : BOOLEAN]

Init ==
    /\ book = <<>>
    /\ due = {}
    /\ tick = [p \in Position |-> None] /\ official = [p \in Position |-> None]
    /\ closed = [p \in Position |-> NotClosed]
    /\ pass = Sleeping

-----------------------------------------------------------------------------
(***************************************************************************)
(* What Gamma answers.  Prices are in thousandths.                         *)
(***************************************************************************)

Listings == {outcomes \in [1..2 -> Outcome] : outcomes[1] # outcomes[2]}

Prices == {0, 500, 998, 1000}

Events == [status : {"", "proposed", "resolved"}, outcomes : Listings,
           prices : {<<>>} \cup [1..2 -> Prices]]

Paying(winning, outcomes) == [i \in 1..2 |-> IF outcomes[i] = winning THEN 1000 ELSE 0]

\* A market that is resolved pays the official outcome, with or without a status.
ResolvedEvents(p) ==
    {event \in Events : /\ event.status # "proposed"
                        /\ event.prices = Paying(official[p], event.outcomes)}

\* Before, its prices are what it trades at, if they are listed at all.
UnresolvedEvents == {event \in Events : event.status # "resolved"}

\* bug: the outcomes are taken to be listed Up first
WinningUpFirst(event) ==
    IF event.status \notin {"", "resolved"} \/ Len(event.prices) # 2 THEN None
    ELSE IF event.prices[1] >= 999 THEN "Up"
    ELSE IF event.prices[2] >= 999 THEN "Down"
    ELSE None

\* gamma_winning_outcome
GammaWinningOutcome(event) ==
    LET paid == {i \in DOMAIN event.prices : event.prices[i] >= 999}
    IN  IF \/ event.status \notin {"", "resolved"}
           \/ Len(event.outcomes) # Len(event.prices)
           \/ paid = {}
        THEN None
        ELSE event.outcomes[CHOOSE i \in paid : \A j \in paid : i =< j]

\* What a lookup that was asked before or after the resolution may find: 404 is no
\* outcome, like an event without one.
Answers(p) ==
    (IF official[p] # None THEN {GammaWinningOutcome(e) : e \in ResolvedEvents(p)} ELSE {})
      \cup (IF pass.asked THEN {}
            ELSE {None} \cup {GammaWinningOutcome(e) : e \in UnresolvedEvents})

-----------------------------------------------------------------------------
(***************************************************************************)
(* The loop                                                                *)
(***************************************************************************)

InBook(p) == \E i \in DOMAIN book : book[i] = p

First == Head(pass.todo)

Resolved == {p \in Position : official[p] # None}
Ticked == {p \in Position : tick[p] # None}

\* _settle_once up to its loop: a list of the positions, and now_ts
PassBegins ==
    /\ pass.pc = "sleep"
    /\ pass' = [pc |-> "scan", todo |-> book, due |-> due, asked |-> FALSE]
    /\ UNCHANGED <<book, due, tick, official, closed>>

PassEnds ==
    /\ pass.pc = "scan" /\ pass.todo = <<>>
    /\ pass' = Sleeping
    /\ UNCHANGED <<book, due, tick, official, closed>>

\* bug: break for continue
SkipAll ==
    /\ pass.pc = "scan" /\ pass.todo # <<>>
    /\ First \notin pass.due \cap Ticked
    /\ pass' = Sleeping
    /\ UNCHANGED <<book, due, tick, official, closed>>

\* Not due at now_ts, or no tick: continue
Skip ==
    /\ pass.pc = "scan" /\ pass.todo # <<>>
    /\ First \notin pass.due \cap Ticked
    /\ pass' = [pass EXCEPT !.todo = Tail(@)]
    /\ UNCHANGED <<book, due, tick, official, closed>>

\* bug: the position is not popped
CloseKeeps(winning, source) ==
    /\ closed' = [closed EXCEPT ![First] = [winning |-> winning, source |-> source]]
    /\ book' = book
    /\ pass' = [pass EXCEPT !.pc = "notify", !.todo = Tail(@), !.asked = FALSE]

\* close_trade, positions.pop, then the notification
Close(winning, source) ==
    /\ closed' = [closed EXCEPT ![First] = [winning |-> winning, source |-> source]]
    /\ \E i \in DOMAIN book : book[i] = First /\ book' = RemoveAt(book, i)
    /\ pass' = [pass EXCEPT !.pc = "notify", !.todo = Tail(@), !.asked = FALSE]

\* A paper position is closed by the tick, without a lookup.
ClosePaper ==
    /\ pass.pc = "scan" /\ pass.todo # <<>>
    /\ First \in (pass.due \cap Ticked) \ Live
    /\ Close(tick[First], "local_chainlink")
    /\ UNCHANGED <<due, tick, official>>

\* await gamma.fetch_event_by_slug
Lookup ==
    /\ pass.pc = "scan" /\ pass.todo # <<>>
    /\ First \in pass.due \cap Ticked \cap Live
    /\ pass' = [pass EXCEPT !.pc = "fetch", !.asked = First \in Resolved]
    /\ UNCHANGED <<book, due, tick, official, closed>>

\* The answer: Gamma's outcome, or without one that of the tick
Answered(p) ==
    /\ pass.pc = "fetch" /\ p = First /\ p \notin Broken
    /\ \E winning \in Answers(p) :
           IF winning = None THEN Close(tick[p], "local_chainlink")
                             ELSE Close(winning, "gamma")
    /\ UNCHANGED <<due, tick, official>>

\* An error status, a timeout, an answer that is no JSON: settlement_loop logs it, and
\* the pass is over.
LookupRaises ==
    /\ pass.pc = "fetch"
    /\ pass' = Sleeping
    /\ UNCHANGED <<book, due, tick, official, closed>>

\* telegram.send returns, or raises and ends the pass.
Notified ==
    /\ pass.pc = "notify"
    /\ pass' \in {[pass EXCEPT !.pc = "scan"], Sleeping}
    /\ UNCHANGED <<book, due, tick, official, closed>>

\* bug: a window with a position is not passed over
OpenAgain ==
    /\ \E p \in Position \ (due \cup Ticked) : book' = Append(book, p)
    /\ UNCHANGED <<due, tick, official, closed, pass>>

\* The signal loop opens a position.
Open ==
    /\ \E p \in Position \ (due \cup Ticked) : ~InBook(p) /\ book' = Append(book, p)
    /\ UNCHANGED <<due, tick, official, closed, pass>>

\* The window of an open position has ended, settlement_grace_seconds ago.
Ends ==
    /\ \E p \in Position : InBook(p) /\ due' = due \cup {p}
    /\ UNCHANGED <<book, tick, official, closed, pass>>

\* A tick with a timestamp after the end of a position's window arrives.
TickComes ==
    /\ \E p \in Position \ Ticked, winning \in Outcome :
           InBook(p) /\ tick' = [tick EXCEPT ![p] = winning]
    /\ UNCHANGED <<book, due, official, closed, pass>>

\* Gamma shows a market as resolved, whether or not its position is still open.
Resolve ==
    /\ \E p \in (Live \cap due) \ Resolved, winning \in Outcome :
           official' = [official EXCEPT ![p] = winning]
    /\ UNCHANGED <<book, due, tick, closed, pass>>

Loop ==
    \/ PassBegins \/ PassEnds \/ Skip \/ ClosePaper \/ Lookup \/ Notified
    \/ LookupRaises \/ \E p \in Position : Answered(p)

Next == Loop \/ Open \/ Ends \/ TickComes \/ Resolve

\* The loop is run, and a request ends within its timeout of 5 s, one way or the other.
\* A lookup that is repeated for ever is answered at some time, unless it is broken.
\* Nothing says that positions are opened, expire or are resolved.
Fairness ==
    /\ WF_vars(Loop)
    /\ \A p \in Position : SF_vars(Answered(p))

Spec == Init /\ [][Next]_vars /\ Fairness

-----------------------------------------------------------------------------
(***************************************************************************)
(* Properties                                                              *)
(***************************************************************************)

Ready(p) == InBook(p) /\ p \in due \cap Ticked

\* A lookup that is broken for good ends each pass at its position: those behind it in
\* the dict are never reached.
Shadowed(p) ==
    \E i, j \in DOMAIN book :
        i =< j /\ book[j] = p /\ book[i] \in Broken /\ Ready(book[i])

\* Every position that can be settled is, whatever raises in between, except behind a
\* broken lookup: passes that are broken off start again from the first position.
EverySettled ==
    \A p \in Position : Ready(p) ~> ~InBook(p) \/ Shadowed(p)

\* A live position whose market Gamma shows as resolved when it is asked is closed by
\* the official outcome, in whatever order the outcomes are listed.
OfficialWhenResolved ==
    [][\A p \in Position :
           (closed'[p] # closed[p] /\ p \in Live /\ pass.asked)
               => closed'[p] = [winning |-> official[p], source |-> "gamma"]]_vars

\* A close is final: no pass, however it is broken off, settles a position again,
\* and an open position has not been closed.
ClosedOnce ==
    /\ \A p \in Position : InBook(p) => closed[p] = NotClosed
    /\ pass.pc \in {"scan", "fetch"} => \A i \in DOMAIN pass.todo : InBook(pass.todo[i])
=============================================================================
