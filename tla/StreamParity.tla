---------------------------- MODULE StreamParity ----------------------------
(***************************************************************************)
(* MarketStream with the Rust stream beside it, on the same polls of the   *)
(* markets: each runtime has its own connection, loses it when it does,    *)
(* and works off what it was told in its own way.                          *)
(***************************************************************************)
EXTENDS MarketStream

VARIABLES rust_told, rust_conn, rust_sending, rust_subscribed, rust_server

Rust == INSTANCE ClobStream WITH
    told <- rust_told, conn <- rust_conn, sending <- rust_sending,
    subscribed <- rust_subscribed, server <- rust_server

rust == <<rust_told, rust_conn, rust_sending, rust_subscribed, rust_server>>
parityVars == <<vars, rust>>

ParityTypeOK == TypeOK /\ Rust!TypeOK

ParityInit == Init /\ Rust!Init

\* One poll, with the same answers for both
PollBoth ==
    \E tokens \in SUBSET Token : SetAssetIds(tokens) /\ Rust!SendTokens(tokens)

PythonStream == Stream /\ UNCHANGED rust
RustStream == Rust!Stream /\ UNCHANGED vars

ParityNext == PollBoth \/ PythonStream \/ RustStream

\* Two processes: neither keeps the other from going on.
ParityFairness ==
    /\ WF_parityVars(Working /\ UNCHANGED rust)
    /\ WF_parityVars(Rust!Working /\ UNCHANGED vars)

ParitySpec == ParityInit /\ [][ParityNext]_parityVars /\ ParityFairness

-----------------------------------------------------------------------------
\* The Rust stream, once it has worked off what it was told, has asked the exchange
\* for every wanted token: it has no late tokens to except.
RustAllSubscribed == Rust!AllSubscribed

\* It asks for a wanted token in the end, unless the connection is lost, whatever the
\* other runtime's connection does.
RustEveryTokenSubscribed == Rust!EveryTokenSubscribed
=============================================================================
