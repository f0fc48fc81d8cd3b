---------------------------- MODULE StreamProofs ----------------------------
(***************************************************************************)
(* Theorems about the two market streams, each by itself and both on the   *)
(* same polls, for every set of tokens and every bound of the queue.       *)
(***************************************************************************)
EXTENDS StreamParity, TLAPS

-----------------------------------------------------------------------------
(***************************************************************************)
(* The queue of updates                                                    *)
(***************************************************************************)

Last(s) == s[Len(s)]

\* What is put at the end of the queue is its last update.
LEMMA AppendLast ==
    ASSUME NEW s \in Seq(SUBSET Token), NEW tokens \in SUBSET Token
    PROVE  /\ Append(s, tokens) \in Seq(SUBSET Token) /\ Append(s, tokens) # <<>>
           /\ Len(Append(s, tokens)) = Len(s) + 1 /\ Last(Append(s, tokens)) = tokens
  BY DEF Last

\* Taking the first leaves the last where it was, unless it was the only one.
LEMMA TakeFirst ==
    ASSUME NEW s \in Seq(SUBSET Token), s # <<>>
    PROVE  /\ Head(s) \in SUBSET Token /\ Tail(s) \in Seq(SUBSET Token)
           /\ Len(Tail(s)) = Len(s) - 1 /\ Len(s) \in Nat
           /\ Tail(s) = <<>> => Head(s) = Last(s)
           /\ Tail(s) # <<>> => Last(Tail(s)) = Last(s)
<1> DEFINE t == Tail(s)
<1>1. /\ Head(s) \in SUBSET Token /\ t \in Seq(SUBSET Token)
      /\ Len(t) = Len(s) - 1 /\ Len(s) \in Nat
      /\ Head(s) = s[1]
      /\ \A i \in 1..(Len(s) - 1) : t[i] = s[i + 1]
  OBVIOUS
<1> HIDE DEF t
<1>2. ASSUME t = <<>> PROVE Head(s) = Last(s)
  <2>1. Len(t) = 0
    BY <1>2
  <2>2. Len(s) = 1
    BY <1>1, <2>1
  <2> QED
    BY <1>1, <2>2 DEF Last
<1>3. ASSUME t # <<>> PROVE Last(t) = Last(s)
  <2>1. Len(t) \in 1..(Len(s) - 1)
    BY <1>1, <1>3
  <2> QED
    BY <1>1, <2>1 DEF Last
<1> QED
  BY <1>1, <1>2, <1>3 DEF t

-----------------------------------------------------------------------------
(***************************************************************************)
(* MarketStream                                                            *)
(***************************************************************************)

\* What connects the wanted tokens to what the exchange has been asked for: the last
\* update in the queue is the wanted set; the first message has every wanted token that
\* is not late; a token the bot takes to be subscribed has been asked for or is late;
\* and with nothing left in the queue a wanted token is asked for, late, or on its way.
StreamInv ==
    /\ updates # <<>> => Last(updates) = wanted
    /\ conn = "opening" => wanted \subseteq sending \cup late
    /\ conn = "live" => subscribed \subseteq server \cup late
    /\ (conn = "live" /\ updates = <<>>) => wanted \subseteq server \cup late \cup sending

StreamIInv == TypeOK /\ StreamInv

LEMMA StreamStarts == Init => StreamIInv
  BY MarketStreamAssumption DEF Init, StreamIInv, TypeOK, StreamInv

LEMMA StreamStep == StreamIInv /\ [Next]_vars => StreamIInv'
<1> SUFFICES ASSUME StreamIInv, [Next]_vars PROVE StreamIInv'
  OBVIOUS
<1> USE DEF StreamIInv
<1>1. ASSUME NEW tokens \in SUBSET Token, SetAssetIds(tokens) PROVE StreamIInv'
  <2>1. /\ updates' \in Seq(SUBSET Token) /\ updates' # <<>> /\ Last(updates') = tokens
        /\ Len(updates') = Len(updates) + 1 /\ Len(updates) < MaxUpdates /\ Len(updates) \in Nat
    BY <1>1, AppendLast DEF TypeOK, SetAssetIds
  <2>2. TypeOK'
    BY <1>1, <2>1, MarketStreamAssumption DEF TypeOK, SetAssetIds
  <2>3. StreamInv'
    BY <1>1, <2>1 DEF TypeOK, StreamInv, SetAssetIds, Last
  <2> QED
    BY <2>2, <2>3
<1>2. CASE Connect
  BY <1>2 DEF Connect, TypeOK, StreamInv, Last
<1>3. CASE Subscribed
  BY <1>3 DEF Subscribed, TypeOK, StreamInv, Last
<1>4. CASE Take
  <2>1. /\ updates # <<>> /\ conn = "live" /\ sending' = Head(updates) \ subscribed
        /\ updates' = Tail(updates)
        /\ UNCHANGED <<wanted, conn, subscribed, server, late>>
    BY <1>4 DEF Take
  <2>2. /\ Head(updates) \in SUBSET Token /\ Tail(updates) \in Seq(SUBSET Token)
        /\ Len(Tail(updates)) = Len(updates) - 1 /\ Len(updates) \in Nat
        /\ Tail(updates) = <<>> => Head(updates) = wanted
        /\ Tail(updates) # <<>> => Last(Tail(updates)) = wanted
    BY <2>1, TakeFirst DEF TypeOK, StreamInv
  <2>3. TypeOK'
    BY <2>1, <2>2, MarketStreamAssumption DEF TypeOK
  <2>4. StreamInv'
    BY <2>1, <2>2 DEF TypeOK, StreamInv, Last
  <2> QED
    BY <2>3, <2>4
<1>5. CASE Sent
  BY <1>5 DEF Sent, TypeOK, StreamInv, Last
<1>6. CASE Disconnect
  BY <1>6 DEF Disconnect, TypeOK, StreamInv, Last
<1>7. CASE UNCHANGED vars
  BY <1>7 DEF vars, TypeOK, StreamInv, Last
<1> QED
  BY <1>1, <1>2, <1>3, <1>4, <1>5, <1>6, <1>7 DEF Next, Stream, Working

LEMMA StreamInvariant == Init /\ [][Next]_vars => []StreamIInv
<1> QED
  BY StreamStarts, StreamStep, PTL

LEMMA StreamImplies == StreamIInv => TypeOK /\ CaughtUp
  BY DEF StreamIInv, StreamInv, CaughtUp

\* The Python stream by itself: once it has worked off its queue the exchange has been
\* asked for every wanted token that is not late, whatever earlier connections lost.
THEOREM StreamCatchesUp == Spec => []TypeOK /\ []CaughtUp
<1> QED
  BY StreamInvariant, StreamImplies, PTL DEF Spec

-----------------------------------------------------------------------------
(***************************************************************************)
(* ClobStream                                                              *)
(***************************************************************************)

\* The Rust stream takes for subscribed only what it has asked for, and a value it has
\* been told of is in the first message or in what it has asked for since.
RustInv ==
    /\ rust_subscribed \subseteq rust_server
    /\ rust_conn = "opening" /\ rust_told => wanted \subseteq rust_sending
    /\ rust_conn = "live" /\ rust_told => wanted \subseteq rust_server \cup rust_sending

RustIInv == Rust!TypeOK /\ RustInv

LEMMA RustStarts == Rust!Init => RustIInv
  BY DEF Rust!Init, RustIInv, Rust!TypeOK, RustInv

LEMMA RustStep == RustIInv /\ [Rust!Next]_(Rust!vars) => RustIInv'
<1> SUFFICES ASSUME RustIInv, [Rust!Next]_(Rust!vars) PROVE RustIInv'
  OBVIOUS
<1> USE DEF RustIInv
<1>1. ASSUME NEW tokens \in SUBSET Token, Rust!SendTokens(tokens) PROVE RustIInv'
  BY <1>1 DEF Rust!SendTokens, Rust!TypeOK, RustInv
<1>2. CASE Rust!Connect
  BY <1>2 DEF Rust!Connect, Rust!TypeOK, RustInv
<1>3. CASE Rust!Subscribed
  BY <1>3 DEF Rust!Subscribed, Rust!TypeOK, RustInv
<1>4. CASE Rust!Changed
  BY <1>4 DEF Rust!Changed, Rust!TypeOK, RustInv
<1>5. CASE Rust!Borrow
  BY <1>5 DEF Rust!Borrow, Rust!TypeOK, RustInv
<1>6. CASE Rust!Sent
  BY <1>6 DEF Rust!Sent, Rust!TypeOK, RustInv
<1>7. CASE Rust!Disconnect
  BY <1>7 DEF Rust!Disconnect, Rust!TypeOK, RustInv
<1>8. CASE UNCHANGED Rust!vars
  BY <1>8 DEF Rust!vars, Rust!TypeOK, RustInv
<1> QED
  BY <1>1, <1>2, <1>3, <1>4, <1>5, <1>6, <1>7, <1>8 DEF Rust!Next, Rust!Stream, Rust!Working

LEMMA RustInvariant == Rust!Init /\ [][Rust!Next]_(Rust!vars) => []RustIInv
<1> QED
  BY RustStarts, RustStep, PTL

LEMMA RustImplies == RustIInv => Rust!TypeOK /\ RustAllSubscribed
  BY DEF RustIInv, RustInv, RustAllSubscribed, Rust!AllSubscribed

\* The Rust stream by itself: with nothing left to send or to be told it is subscribed to
\* every wanted token, however the channel changed between changed() and borrow().
THEOREM RustStreamSubscribes == Rust!Spec => []Rust!TypeOK /\ []RustAllSubscribed
<1> QED
  BY RustInvariant, RustImplies, PTL DEF Rust!Spec

-----------------------------------------------------------------------------
(***************************************************************************)
(* Both on the same polls                                                  *)
(***************************************************************************)

\* A step of the two is a step or a stutter of each.
LEMMA BothStep == [ParityNext]_parityVars => [Next]_vars /\ [Rust!Next]_(Rust!vars)
<1> SUFFICES ASSUME [ParityNext]_parityVars PROVE [Next]_vars /\ [Rust!Next]_(Rust!vars)
  OBVIOUS
<1>1. CASE PollBoth
  <2>1. PICK tokens \in SUBSET Token : SetAssetIds(tokens) /\ Rust!SendTokens(tokens)
    BY <1>1 DEF PollBoth
  <2> QED
    BY <2>1 DEF Next, Rust!Next
<1>2. CASE PythonStream
  <2>1. UNCHANGED <<wanted, rust>>
    BY <1>2 DEF PythonStream, Stream, Working, Connect, Subscribed, Take, Sent, Disconnect
  <2> QED
    BY <1>2, <2>1 DEF PythonStream, Next, rust, Rust!vars
<1>3. CASE RustStream
  BY <1>3 DEF RustStream, Rust!Next
<1>4. CASE UNCHANGED parityVars
  BY <1>4 DEF parityVars, vars, rust, Rust!vars
<1> QED
  BY <1>1, <1>2, <1>3, <1>4 DEF ParityNext

LEMMA BothInvariant == ParitySpec => []StreamIInv /\ []RustIInv
<1>1. ParityInit => Init /\ Rust!Init
  BY DEF ParityInit
<1> QED
  BY <1>1, BothStep, StreamInvariant, RustInvariant, PTL DEF ParitySpec

\* Type correctness of the two.
THEOREM StreamsTypeCorrect == ParitySpec => []ParityTypeOK
<1> QED
  BY BothInvariant, StreamImplies, RustImplies, PTL DEF ParityTypeOK

\* On the same polls the Python stream catches up, but for its late tokens, whatever the
\* Rust connection does.
THEOREM PythonCatchesUp == ParitySpec => []CaughtUp
<1> QED
  BY BothInvariant, StreamImplies, PTL

\* And the Rust stream does, without late tokens.
THEOREM RustCatchesUp == ParitySpec => []RustAllSubscribed
<1> QED
  BY BothInvariant, RustImplies, PTL

=============================================================================
