----------------------------- MODULE BookStream -----------------------------
(***************************************************************************)
(* The order book stream: clients/kalshi_ws.py, market/ws.py and the loop  *)
(* of tools/run_live_readonly_stream.py (and, without the decisions, of    *)
(* tools/capture_market_stream.py).                                        *)
(*                                                                         *)
(* The exchange numbers the messages of a subscription; how it spreads the *)
(* markets over subscriptions is its affair.  The client keeps one book    *)
(* per market, drops it at a gap in the numbers and does not ask for       *)
(* another.                                                                *)
(***************************************************************************)
EXTENDS OrderBook, Sequences

CONSTANTS
  Markets,          \* tickers with an open market
  Sids,             \* subscription ids of the exchange
  Changes,          \* the changes of a book: [market, side, price, delta]
  MaxSize,          \* bound: contracts bid at a price
  MaxUpdates,       \* bound: changes of the true books
  MaxFaults         \* bound: messages lost or repeated

ASSUME StreamAssumption ==
  /\ Changes \subseteq [market : Markets, side : Outcomes, price : Prices, delta : Int]
  /\ MaxSize \in Nat \ {0} /\ MaxUpdates \in Nat /\ MaxFaults \in Nat

VARIABLES
  truth,            \* external: the exchange's books
  sidOf,            \* external: the subscription of each market
  past,             \* external, history: the books behind each message of a sid
  sent,             \* external: markets whose snapshot is out
  channel,          \* the websocket: messages on their way, in order
  updates, faults,
  connected,        \* the tool is in its loop
  states            \* orderbook_states: the market's book, or NoBook

streamVars == <<truth, sidOf, past, sent, channel, updates, faults, connected, states>>

NoBook == [seq |-> 0]
States == {NoBook} \union [seq : Nat \ {0}, book : Books]
NextSeq(mk) == Len(past[sidOf[mk]]) + 1

StreamInit ==
  /\ truth \in [Markets -> {[s \in Outcomes |-> [p \in Prices |-> IF p = 1 THEN 1 ELSE 0]]}]
  /\ sidOf \in [Markets -> Sids]
  /\ past = [i \in Sids |-> <<>>] /\ sent = {} /\ channel = <<>>
  /\ updates = 0 /\ faults = 0 /\ connected = FALSE
  /\ states = [mk \in Markets |-> NoBook]

\* The tool subscribes: a new connection with numbers of its own.
Connect ==
  /\ ~ connected /\ connected' = TRUE
  /\ UNCHANGED <<truth, sidOf, past, sent, channel, updates, faults, states>>

(***************************************************************************)
(* The exchange and the network.                                           *)
(***************************************************************************)
Number(mk, books) == past' = [past EXCEPT ![sidOf[mk]] = Append(@, books)]

SendSnapshot(mk) ==
  /\ connected /\ mk \notin sent /\ sent' = sent \union {mk}
  /\ channel' = Append(channel,
       [type |-> "snapshot", market |-> mk, seq |-> NextSeq(mk), book |-> truth[mk]])
  /\ Number(mk, truth)
  /\ UNCHANGED <<truth, sidOf, updates, faults, connected, states>>

BookChanges(c) == LET mk == c.market IN
  /\ updates < MaxUpdates /\ updates' = updates + 1
  /\ truth[mk][c.side][c.price] + c.delta \in 0 .. MaxSize
  /\ truth' = [truth EXCEPT ![mk] = ApplyToBook(@, c.side, c.price, c.delta)]
  /\ IF connected /\ mk \in sent
     THEN /\ channel' = Append(channel, [type |-> "delta", market |-> mk, seq |-> NextSeq(mk),
                                        side |-> c.side, price |-> c.price, delta |-> c.delta])
          /\ Number(mk, truth')
     ELSE UNCHANGED <<channel, past>>
  /\ UNCHANGED <<sidOf, sent, faults, connected, states>>

Without(s, i) == [j \in 1 .. Len(s) - 1 |-> IF j < i THEN s[j] ELSE s[j + 1]]

LoseOrRepeat(i) ==
  /\ faults < MaxFaults /\ faults' = faults + 1
  /\ channel' \in {Without(channel, i), Append(channel, channel[i])}
  /\ UNCHANGED <<truth, sidOf, past, sent, updates, connected, states>>

(***************************************************************************)
(* The loop.                                                               *)
(***************************************************************************)
\* Mutant: any later number will do.
FitsAnyLater(state, message) == message.seq > state.seq

\* apply_orderbook_delta raises OrderbookSequenceGapError unless the delta is the next.
Fits(state, message) == message.seq = state.seq + 1

\* Mutant: the number of the snapshot stays.
AppliedKeepsNumber(state, message) ==
  [seq |-> state.seq, book |-> ApplyToBook(state.book, message.side, message.price, message.delta)]

Applied(state, message) ==
  [seq |-> message.seq, book |-> ApplyToBook(state.book, message.side, message.price, message.delta)]

\* What the market's entry of orderbook_states is after the message.
NextBook(message) ==
  LET state == states[message.market] IN
    IF message.type = "snapshot" THEN [seq |-> message.seq, book |-> message.book]
    ELSE IF state # NoBook /\ Fits(state, message) THEN Applied(state, message) ELSE NoBook

Receive ==
  /\ connected /\ channel # <<>> /\ channel' = Tail(channel)
  /\ states' = [states EXCEPT ![Head(channel).market] = NextBook(Head(channel))]
  /\ UNCHANGED <<truth, sidOf, past, sent, updates, faults, connected>>

\* The time is up, nothing came for two seconds, or the connection broke: the tool
\* ends, and its books with it.
Disconnect ==
  /\ connected /\ connected' = FALSE
  /\ past' = [i \in Sids |-> <<>>] /\ sent' = {} /\ channel' = <<>>
  /\ states' = [mk \in Markets |-> NoBook]
  /\ UNCHANGED <<truth, sidOf, updates, faults>>

Exchange ==
  \/ \E mk \in Markets : SendSnapshot(mk)
  \/ \E c \in Changes : BookChanges(c)
  \/ \E i \in DOMAIN channel : LoseOrRepeat(i)

StreamNext == Connect \/ Exchange \/ Receive \/ Disconnect

StreamSpec == StreamInit /\ [][StreamNext]_streamVars

(***************************************************************************)
(*                               PROPERTIES                                *)
(***************************************************************************)
\* Whatever is lost or repeated on the way, the book the program holds is the book the
\* exchange had when it sent the message of that number: a gap never goes unnoticed.
BookIsTrue ==
  \A mk \in Markets : states[mk] # NoBook =>
    /\ states[mk].seq \in DOMAIN past[sidOf[mk]]
    /\ states[mk].book = past[sidOf[mk]][states[mk].seq][mk]

\* A book is given up only for a fault of the connection, or because its market shares
\* the subscription, and with it the numbers, with another.
SharesSid(mk) == \E other \in Markets \ {mk} : sidOf[other] = sidOf[mk]

GapMeansLoss ==
  [][\A mk \in Markets :
       connected' /\ connected /\ states[mk] # NoBook /\ states'[mk] = NoBook
         => faults > 0 \/ SharesSid(mk)]_streamVars

\* executable_wap_for_buy buys as cheaply as the ladder allows, or not at all, from every
\* book the program comes to hold.
CheapestFill ==
  [][\A mk \in Markets, side \in Outcomes :
       states'[mk] # states[mk] /\ states'[mk] # NoBook =>
         \A q \in 1 .. MaxSize + 1 : \E asks \in {ImpliedAsks(states'[mk].book, side)} :
           CostToBuy(asks, q) = LeastCost(asks, q)]_streamVars
=============================================================================
