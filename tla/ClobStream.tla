----------------------------- MODULE ClobStream -----------------------------
(***************************************************************************)
(* run_clob_market_ws of the Rust clob_ws.rs: what MarketStream is for the *)
(* Python runtime, with a watch channel in place of the queue. The channel *)
(* holds the last value sent and whether the receiver has been told of it; *)
(* the sender runs on another thread.                                      *)
(***************************************************************************)
CONSTANT Token

VARIABLES
    wanted,     \* the value of the watch channel
    told,       \* whether changed() has returned for it
    conn,       \* down | opening | live | telling (between changed() and borrow())
    sending,    \* the tokens of the message that ws.send is awaiting
    subscribed, \* the tokens the service takes to be subscribed
    server      \* the tokens the exchange has been asked for

vars == <<wanted, told, conn, sending, subscribed, server>>

TypeOK ==
    /\ {wanted, sending, subscribed, server} \subseteq SUBSET Token
    /\ told \in BOOLEAN
    /\ conn \in {"down", "opening", "live", "telling"}
    /\ conn = "down" => sending \cup subscribed \cup server = {}

Init ==
    /\ wanted = {} /\ told = TRUE
    /\ conn = "down"
    /\ sending = {} /\ subscribed = {} /\ server = {}

\* sub_tx.send after a poll of the markets
SendTokens(tokens) ==
    /\ wanted' = tokens
    /\ told' = FALSE
    /\ UNCHANGED <<conn, sending, subscribed, server>>

\* initial = sub_rx.borrow().clone(), given to ws.send
Connect ==
    /\ conn = "down"
    /\ conn' = IF wanted = {} THEN "live" ELSE "opening"
    /\ sending' = wanted
    /\ UNCHANGED <<wanted, told, subscribed, server>>

\* bug: what is wanted now is taken for what was sent
SubscribedNow ==
    /\ conn = "opening"
    /\ server' = sending
    /\ subscribed' = wanted
    /\ sending' = {}
    /\ conn' = "live"
    /\ UNCHANGED <<wanted, told>>

\* subscribed = initial
Subscribed ==
    /\ conn = "opening"
    /\ server' = sending
    /\ subscribed' = sending
    /\ sending' = {}
    /\ conn' = "live"
    /\ UNCHANGED <<wanted, told>>

\* sub_rx.changed() returns...
Changed ==
    /\ conn = "live" /\ sending = {} /\ ~told
    /\ told' = TRUE
    /\ conn' = "telling"
    /\ UNCHANGED <<wanted, sending, subscribed, server>>

\* bug: the difference is taken the wrong way round
BorrowSwapped ==
    /\ conn = "telling"
    /\ sending' = subscribed \ wanted
    /\ conn' = "live"
    /\ UNCHANGED <<wanted, told, subscribed, server>>

\* ... and the value is read, which may be a newer one that changed() returns for again.
Borrow ==
    /\ conn = "telling"
    /\ sending' = wanted \ subscribed
    /\ conn' = "live"
    /\ UNCHANGED <<wanted, told, subscribed, server>>

\* ws.send returns: subscribed.extend(new_ids)
Sent ==
    /\ conn = "live" /\ sending # {}
    /\ server' = server \cup sending
    /\ subscribed' = subscribed \cup sending
    /\ sending' = {}
    /\ UNCHANGED <<wanted, told, conn>>

\* bug: the subscriptions are not asked for again
DisconnectKeeps ==
    /\ conn # "down"
    /\ conn' = "down"
    /\ sending' = {} /\ server' = {}
    /\ UNCHANGED <<wanted, told, subscribed>>

\* run_once returns: its locals are gone.
Disconnect ==
    /\ conn # "down"
    /\ conn' = "down"
    /\ sending' = {} /\ subscribed' = {} /\ server' = {}
    /\ UNCHANGED <<wanted, told>>

Working == Connect \/ Subscribed \/ Changed \/ Borrow \/ Sent

Stream == Working \/ Disconnect

Next == (\E tokens \in SUBSET Token : SendTokens(tokens)) \/ Stream

\* tokio runs every task that can go on, and a connection is tried again after its
\* backoff.
Spec == Init /\ [][Next]_vars /\ WF_vars(Working)

-----------------------------------------------------------------------------
\* A connection that has been told of the last value and has nothing left to send
\* is subscribed to every wanted token.
AllSubscribed ==
    (conn = "live" /\ sending = {} /\ told) => wanted \subseteq server

\* A wanted token is asked for in the end, or is no longer wanted, or the
\* connection is lost.
EveryTokenSubscribed ==
    \A token \in Token :
        token \in wanted ~> token \in server \/ token \notin wanted \/ conn = "down"
=============================================================================
