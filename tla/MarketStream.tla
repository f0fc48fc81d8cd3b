---------------------------- MODULE MarketStream ----------------------------
(***************************************************************************)
(* PolymarketMarketStream of feeds.py: the market poll says which tokens   *)
(* are wanted, the stream keeps one connection to the exchange and         *)
(* subscribes to them, all at once when it connects and then as they come. *)
(*                                                                         *)
(* The exchange forgets a connection's subscriptions when it closes, and a *)
(* token that is not subscribed has no quote and so no signal.             *)
(***************************************************************************)
EXTENDS Sequences, FiniteSets, Naturals

CONSTANTS
    Token,          \* the outcome tokens of the windows
    MaxUpdates      \* bound of the model: updates waiting in the queue

ASSUME MarketStreamAssumption == IsFiniteSet(Token) /\ MaxUpdates \in Nat \ {0}

VARIABLES
    wanted,     \* _asset_ids
    updates,    \* _updates, which outlives a connection
    conn,       \* down | opening (the first message is being sent) | live
    sending,    \* the tokens of the message that ws.send is awaiting
    subscribed, \* the tokens the bot takes to be subscribed
    server,     \* the tokens the exchange has been asked for
    late        \* tokens wanted only since the first message was made (history)

vars == <<wanted, updates, conn, sending, subscribed, server, late>>

TypeOK ==
    /\ {wanted, sending, subscribed, server, late} \subseteq SUBSET Token
    /\ updates \in Seq(SUBSET Token) /\ Len(updates) =< MaxUpdates
    /\ conn \in {"down", "opening", "live"}
    /\ conn = "down" => sending \cup subscribed \cup server \cup late = {}

Init ==
    /\ wanted = {} /\ updates = <<>>
    /\ conn = "down"
    /\ sending = {} /\ subscribed = {} /\ server = {} /\ late = {}

\* set_asset_ids: tokens come with new windows and go with closed ones.
SetAssetIds(tokens) ==
    /\ Len(updates) < MaxUpdates
    /\ wanted' = tokens
    /\ updates' = Append(updates, tokens)
    /\ late' = IF conn = "opening" THEN late \cup (tokens \ sending) ELSE late
    /\ UNCHANGED <<conn, sending, subscribed, server>>

\* The connection opens and the first message, if there is one, is given to ws.send.
Connect ==
    /\ conn = "down"
    /\ conn' = IF wanted = {} THEN "live" ELSE "opening"
    /\ sending' = wanted
    /\ UNCHANGED <<wanted, updates, subscribed, server, late>>

\* ws.send returns: subscribed = set(self._asset_ids), which may have changed since.
Subscribed ==
    /\ conn = "opening"
    /\ server' = sending
    /\ subscribed' = wanted
    /\ sending' = {}
    /\ conn' = "live"
    /\ UNCHANGED <<wanted, updates, late>>

\* bug: what waits behind the update taken is dropped
TakeAll ==
    /\ conn = "live" /\ sending = {} /\ updates # <<>>
    /\ sending' = Head(updates) \ subscribed
    /\ updates' = <<>>
    /\ UNCHANGED <<wanted, conn, subscribed, server, late>>

\* bug: what is new is told from the tokens wanted, not from those subscribed
TakeUnwanted ==
    /\ conn = "live" /\ sending = {} /\ updates # <<>>
    /\ sending' = Head(updates) \ wanted
    /\ updates' = Tail(updates)
    /\ UNCHANGED <<wanted, conn, subscribed, server, late>>

\* _subscription_loop takes an update and sends what is new in it.
Take ==
    /\ conn = "live" /\ sending = {} /\ updates # <<>>
    /\ sending' = Head(updates) \ subscribed
    /\ updates' = Tail(updates)
    /\ UNCHANGED <<wanted, conn, subscribed, server, late>>

\* ws.send returns: subscribed |= new_ids
Sent ==
    /\ conn = "live" /\ sending # {}
    /\ server' = server \cup sending
    /\ subscribed' = subscribed \cup sending
    /\ sending' = {}
    /\ UNCHANGED <<wanted, updates, conn, late>>

\* bug: subscribed outlives the connection
DisconnectKeeps ==
    /\ conn # "down"
    /\ conn' = "down"
    /\ sending' = {} /\ server' = {} /\ late' = {}
    /\ UNCHANGED <<wanted, updates, subscribed>>

\* The connection ends, with an error or without. An update that was being sent is
\* not put back.
Disconnect ==
    /\ conn # "down"
    /\ conn' = "down"
    /\ sending' = {} /\ subscribed' = {} /\ server' = {} /\ late' = {}
    /\ UNCHANGED <<wanted, updates>>

Working == Connect \/ Subscribed \/ Take \/ Sent

Stream == Working \/ Disconnect

Next == (\E tokens \in SUBSET Token : SetAssetIds(tokens)) \/ Stream

\* The event loop runs every task that can go on, a connection is tried again after
\* its backoff, and a send ends. Polls and lost connections are left to chance.
Spec == Init /\ [][Next]_vars /\ WF_vars(Working)

-----------------------------------------------------------------------------
\* Once the stream has worked off its queue the exchange has been asked for every
\* wanted token, whatever was lost with earlier connections, except for tokens that
\* came while the first message of this connection was being sent.
CaughtUp ==
    (conn = "live" /\ sending = {} /\ updates = <<>>) => wanted \ server \subseteq late

\* A wanted token is asked for in the end, or is late, no longer wanted, or the
\* connection is lost.
EveryTokenSubscribed ==
    \A token \in Token :
        token \in wanted ~> token \in server \cup late \/ token \notin wanted \/ conn = "down"
=============================================================================
