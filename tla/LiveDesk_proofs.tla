-------------------------- MODULE LiveDesk_proofs ---------------------------
(***************************************************************************)
(* The book the program holds is the exchange's book of that number, for   *)
(* any markets, subscriptions, changes, and losses and repetitions at any  *)
(* place of the channel, also while decisions are made on it; what the     *)
(* manual order's row says of the exchange, how old its decision can be    *)
(* there, that its price was on offer and its decision the newest, for any *)
(* books, decisions, attempts, timeouts and waits.                         *)
(***************************************************************************)
EXTENDS LiveDesk, OrderBook_proofs

-----------------------------------------------------------------------------
(* The stream *)

Messages ==
  [type : {"snapshot"}, market : Markets, seq : Nat \ {0}, book : Books]
    \union [type : {"delta"}, market : Markets, seq : Nat \ {0},
            side : Outcomes, price : Prices, delta : Int]

StreamTyped ==
  /\ truth \in [Markets -> Books]
  /\ sidOf \in [Markets -> Sids]
  /\ past \in [Sids -> Seq([Markets -> Books])]
  /\ sent \subseteq Markets
  /\ channel \in Seq(Messages)
  /\ states \in [Markets -> States]

\* A message says what became of its market: the book of its number, or the step to it
\* from the book of the number before.
Genuine(m) ==
  /\ m.seq \in DOMAIN past[sidOf[m.market]]
  /\ m.type = "snapshot" => m.book = past[sidOf[m.market]][m.seq][m.market]
  /\ m.type = "delta" =>
       /\ m.seq - 1 \in DOMAIN past[sidOf[m.market]]
       /\ past[sidOf[m.market]][m.seq][m.market]
            = ApplyToBook(past[sidOf[m.market]][m.seq - 1][m.market], m.side, m.price, m.delta)

AllGenuine == \A m \in Range(channel) : Genuine(m)

\* The last number of a subscription knows the present book of each of its markets
\* whose snapshot is out; and only a connection has such markets.
SentCurrent ==
  /\ sent # {} => connected
  /\ \A mk \in sent :
       /\ past[sidOf[mk]] # <<>>
       /\ past[sidOf[mk]][Len(past[sidOf[mk]])][mk] = truth[mk]

IInv == StreamTyped /\ AllGenuine /\ SentCurrent /\ BookIsTrue

-----------------------------------------------------------------------------
\* A change of a level leaves a book a book.
LEMMA BookStaysBook ==
  ASSUME NEW book \in Books, NEW side \in Outcomes, NEW price \in Prices, NEW delta \in Int
  PROVE  ApplyToBook(book, side, price, delta) \in Books
  BY DEF ApplyToBook, ApplyDeltaToLadder, Books, Ladders

\* What a further number of a subscription leaves as it was.
LEMMA NumberKeeps ==
  ASSUME StreamTyped, NEW mk \in Markets, NEW books \in [Markets -> Books], Number(mk, books)
  PROVE  /\ past' \in [Sids -> Seq([Markets -> Books])]
         /\ \A i \in Sids, n \in Nat : n \in DOMAIN past[i] =>
              n \in DOMAIN past'[i] /\ past'[i][n] = past[i][n]
         /\ Len(past[sidOf[mk]]) + 1 \in DOMAIN past'[sidOf[mk]]
         /\ Len(past'[sidOf[mk]]) = Len(past[sidOf[mk]]) + 1
         /\ past'[sidOf[mk]][Len(past[sidOf[mk]]) + 1] = books
         /\ \A i \in Sids : i # sidOf[mk] => past'[i] = past[i]
  BY DEF StreamTyped, Number

\* The messages on their way and the held books stay right when numbers are added.
LEMMA StaysGenuine ==
  ASSUME StreamTyped, sidOf' = sidOf, NEW m \in Messages, Genuine(m),
         \A i \in Sids, n \in Nat : n \in DOMAIN past[i] =>
           n \in DOMAIN past'[i] /\ past'[i][n] = past[i][n]
  PROVE  Genuine(m)'
<1>1. sidOf[m.market] \in Sids /\ m.seq \in Nat /\ m.seq - 1 \in Int
  BY DEF StreamTyped, Messages
<1>2. CASE m.type = "snapshot"
  BY <1>1, <1>2 DEF Genuine
<1>3. CASE m.type = "delta"
  <2>1. m.seq - 1 \in Nat
    BY <1>1, <1>3 DEF Genuine, StreamTyped
  <2> QED BY <1>1, <1>3, <2>1 DEF Genuine
<1> QED BY <1>2, <1>3 DEF Messages

LEMMA StaysTrue ==
  ASSUME StreamTyped, BookIsTrue, sidOf' = sidOf, states' = states,
         \A i \in Sids, n \in Nat : n \in DOMAIN past[i] =>
           n \in DOMAIN past'[i] /\ past'[i][n] = past[i][n]
  PROVE  BookIsTrue'
  BY DEF StreamTyped, BookIsTrue, States, NoBook

-----------------------------------------------------------------------------
LEMMA InitIInv == StreamInit => IInv
<1> SUFFICES ASSUME StreamInit PROVE IInv
  OBVIOUS
<1>1. truth \in [Markets -> Books]
  <2>1. [s \in Outcomes |-> [p \in Prices |-> IF p = 1 THEN 1 ELSE 0]] \in Books
    BY DEF Books, Ladders
  <2> QED BY <2>1 DEF StreamInit
<1>2. StreamTyped
  BY <1>1 DEF StreamInit, StreamTyped, States
<1>3. AllGenuine
  BY DEF StreamInit, AllGenuine, Range
<1> QED BY <1>2, <1>3 DEF StreamInit, IInv, SentCurrent, BookIsTrue

\* A further number, and perhaps a message of that number: the others stand.
LEMMA NumberPreserves ==
  ASSUME IInv, NEW mk \in Markets, NEW books \in [Markets -> Books], Number(mk, books),
         sidOf' = sidOf, NEW m \in Messages, channel' = Append(channel, m), Genuine(m)'
  PROVE  AllGenuine'
<1>1. StreamTyped /\ AllGenuine
  BY DEF IInv
<1>2. \A i \in Sids, n \in Nat : n \in DOMAIN past[i] =>
        n \in DOMAIN past'[i] /\ past'[i][n] = past[i][n]
  BY <1>1, NumberKeeps
<1>3. SUFFICES ASSUME NEW x \in Range(channel') PROVE Genuine(x)'
  BY DEF AllGenuine
<1>4. x = m \/ x \in Range(channel)
  BY <1>1, <1>3 DEF StreamTyped, Range
<1>5. CASE x \in Range(channel)
  <2>1. x \in Messages /\ Genuine(x)
    BY <1>1, <1>5 DEF StreamTyped, AllGenuine, Range
  <2> QED BY <1>1, <1>2, <2>1, StaysGenuine
<1> QED BY <1>4, <1>5

LEMMA SnapshotIInv ==
  ASSUME IInv, NEW mk \in Markets, SendSnapshot(mk)
  PROVE  IInv'
<1> USE DEF IInv
<1> DEFINE sid == sidOf[mk]
<1>0. PICK m : m = [type |-> "snapshot", market |-> mk, seq |-> NextSeq(mk), book |-> truth[mk]]
  OBVIOUS
<1>1. /\ Number(mk, truth) /\ channel' = Append(channel, m) /\ sent' = sent \union {mk}
      /\ truth' = truth /\ sidOf' = sidOf /\ states' = states
      /\ connected /\ connected' = connected /\ truth \in [Markets -> Books] /\ sid \in Sids
  BY <1>0 DEF SendSnapshot, StreamTyped
<1>2. /\ past' \in [Sids -> Seq([Markets -> Books])]
      /\ \A i \in Sids, n \in Nat : n \in DOMAIN past[i] =>
           n \in DOMAIN past'[i] /\ past'[i][n] = past[i][n]
      /\ NextSeq(mk) \in DOMAIN past'[sid] /\ Len(past'[sid]) = NextSeq(mk)
      /\ past'[sid][NextSeq(mk)] = truth
      /\ \A i \in Sids : i # sid => past'[i] = past[i]
  BY <1>1, NumberKeeps DEF NextSeq
<1>3. /\ m \in Messages /\ m.market = mk /\ m.seq = NextSeq(mk) /\ NextSeq(mk) \in Nat \ {0}
      /\ m.type = "snapshot" /\ m.book = truth[mk]
  BY <1>0, <1>1 DEF Messages, NextSeq, StreamTyped
<1>4. StreamTyped'
  BY <1>1, <1>2, <1>3 DEF StreamTyped
<1>5. AllGenuine'
  <2>1. Genuine(m)'
    BY <1>1, <1>2, <1>3 DEF Genuine
  <2> QED BY <1>1, <1>3, <2>1, NumberPreserves
<1>6. SentCurrent'
  <2>1. ASSUME NEW other \in sent'
        PROVE  /\ past'[sidOf'[other]] # <<>>
               /\ past'[sidOf'[other]][Len(past'[sidOf'[other]])][other] = truth'[other]
    <3>1. CASE sidOf[other] = sid
      BY <1>1, <1>2, <1>3, <3>1
    <3>2. CASE sidOf[other] # sid
      BY <1>1, <1>2, <3>2, <2>1 DEF SentCurrent, StreamTyped
    <3> QED BY <3>1, <3>2
  <2> QED BY <1>1, <2>1 DEF SentCurrent
<1>7. BookIsTrue'
  BY <1>1, <1>2, StaysTrue
<1> QED BY <1>4, <1>5, <1>6, <1>7

LEMMA ChangeIInv ==
  ASSUME IInv, NEW c \in Changes, BookChanges(c)
  PROVE  IInv'
<1> USE DEF IInv
<1> DEFINE mk == c.market
           sid == sidOf[mk]
<1>1. /\ mk \in Markets /\ c.side \in Outcomes /\ c.price \in Prices /\ c.delta \in Int
      /\ sid \in Sids
  BY StreamAssumption DEF StreamTyped
<1>2. /\ truth' = [truth EXCEPT ![mk] = ApplyToBook(@, c.side, c.price, c.delta)]
      /\ sidOf' = sidOf /\ sent' = sent /\ states' = states /\ connected' = connected
  BY DEF BookChanges
<1>3. /\ truth' \in [Markets -> Books]
      /\ truth'[mk] = ApplyToBook(truth[mk], c.side, c.price, c.delta)
      /\ \A other \in Markets : other # mk => truth'[other] = truth[other]
  BY <1>1, <1>2, BookStaysBook DEF StreamTyped
<1>4. CASE connected /\ mk \in sent
  <2>0. PICK m : m = [type |-> "delta", market |-> mk, seq |-> NextSeq(mk),
                      side |-> c.side, price |-> c.price, delta |-> c.delta]
    OBVIOUS
  <2>1. Number(mk, truth') /\ channel' = Append(channel, m)
    BY <1>4, <2>0 DEF BookChanges
  <2>2. /\ past' \in [Sids -> Seq([Markets -> Books])]
        /\ \A i \in Sids, n \in Nat : n \in DOMAIN past[i] =>
             n \in DOMAIN past'[i] /\ past'[i][n] = past[i][n]
        /\ NextSeq(mk) \in DOMAIN past'[sid] /\ Len(past'[sid]) = NextSeq(mk)
        /\ past'[sid][NextSeq(mk)] = truth'
        /\ \A i \in Sids : i # sid => past'[i] = past[i]
    BY <1>1, <1>3, <2>1, NumberKeeps DEF NextSeq
  <2>3. /\ m \in Messages /\ m.market = mk /\ m.seq = NextSeq(mk)
        /\ NextSeq(mk) \in Nat \ {0} /\ NextSeq(mk) = Len(past[sid]) + 1
        /\ m.type = "delta" /\ m.side = c.side /\ m.price = c.price /\ m.delta = c.delta
    BY <1>1, <2>0 DEF Messages, NextSeq, StreamTyped
  <2>4. StreamTyped'
    BY <1>2, <1>3, <2>1, <2>2, <2>3 DEF StreamTyped
  <2>5. Genuine(m)'
    <3>1. Len(past[sid]) \in DOMAIN past[sid] /\ past[sid][Len(past[sid])][mk] = truth[mk]
      BY <1>1, <1>4 DEF SentCurrent, StreamTyped
    <3>2. /\ Len(past[sid]) \in DOMAIN past'[sid]
          /\ past'[sid][Len(past[sid])] = past[sid][Len(past[sid])]
      <4>1. Len(past[sid]) \in Nat
        BY <1>1 DEF StreamTyped
      <4>2. \A n \in Nat : n \in DOMAIN past[sid] =>
              n \in DOMAIN past'[sid] /\ past'[sid][n] = past[sid][n]
        BY <1>1, <2>2
      <4> QED BY <3>1, <4>1, <4>2
    <3>3. m.seq - 1 = Len(past[sid]) /\ m.type = "delta"
      BY <1>1, <2>3 DEF StreamTyped
    <3>4. past'[sid][m.seq][mk] = ApplyToBook(past'[sid][m.seq - 1][mk], m.side, m.price, m.delta)
      BY <1>3, <2>2, <2>3, <3>1, <3>2, <3>3
    <3> QED BY <1>2, <2>2, <2>3, <3>2, <3>3, <3>4 DEF Genuine
  <2>6. AllGenuine'
    BY <1>1, <1>2, <1>3, <2>1, <2>3, <2>5, NumberPreserves
  <2>7. SentCurrent'
    <3>1. ASSUME NEW other \in sent'
          PROVE  /\ past'[sidOf'[other]] # <<>>
                 /\ past'[sidOf'[other]][Len(past'[sidOf'[other]])][other] = truth'[other]
      <4>1. CASE sidOf[other] = sid
        <5>1. sidOf'[other] = sid /\ Len(past'[sid]) = NextSeq(mk) /\ past'[sid][NextSeq(mk)] = truth'
          BY <1>2, <2>2, <4>1
        <5>2. past'[sid] # <<>>
          BY <1>1, <2>2, <2>3
        <5> QED BY <5>1, <5>2
      <4>2. CASE sidOf[other] # sid
        BY <1>2, <1>3, <2>2, <4>2, <3>1 DEF SentCurrent, StreamTyped
      <4> QED BY <4>1, <4>2
    <3> QED BY <1>2, <3>1 DEF SentCurrent
  <2>8. BookIsTrue'
    BY <1>2, <2>2, StaysTrue
  <2> QED BY <2>4, <2>6, <2>7, <2>8
<1>5. CASE ~ (connected /\ mk \in sent)
  <2>1. channel' = channel /\ past' = past
    BY <1>5 DEF BookChanges
  <2>2. mk \notin sent
    BY <1>5 DEF SentCurrent
  <2>3. StreamTyped'
    BY <1>2, <1>3, <2>1 DEF StreamTyped
  <2>4. AllGenuine' /\ BookIsTrue'
    BY <1>2, <2>1 DEF AllGenuine, Genuine, BookIsTrue
  <2>5. SentCurrent'
    BY <1>2, <1>3, <2>1, <2>2 DEF SentCurrent, StreamTyped
  <2> QED BY <2>3, <2>4, <2>5
<1> QED BY <1>4, <1>5

\* The network loses and repeats what is on its way.
LEMMA FaultIInv ==
  ASSUME IInv, NEW i \in DOMAIN channel, LoseOrRepeat(i)
  PROVE  IInv'
<1> USE DEF IInv
<1>1. /\ truth' = truth /\ sidOf' = sidOf /\ past' = past /\ sent' = sent
      /\ connected' = connected /\ states' = states
  BY DEF LoseOrRepeat
<1>2. channel \in Seq(Messages) /\ i \in 1 .. Len(channel) /\ Len(channel) \in Nat
  BY DEF StreamTyped
<1>3. channel' \in Seq(Messages) /\ Range(channel') \subseteq Range(channel)
  <2>1. CASE channel' = Without(channel, i)
    BY <1>2, <2>1 DEF Without, Range
  <2>2. CASE channel' = Append(channel, channel[i])
    BY <1>2, <2>2 DEF Range
  <2> QED BY <2>1, <2>2 DEF LoseOrRepeat
<1>4. AllGenuine'
  BY <1>1, <1>3 DEF AllGenuine, Genuine
<1> QED BY <1>1, <1>3, <1>4 DEF StreamTyped, SentCurrent, BookIsTrue

\* The client's step: a snapshot is true by itself, a delta if it is the next number.
LEMMA ReceiveIInv ==
  ASSUME IInv, Receive
  PROVE  IInv'
<1> USE DEF IInv
<1>1. /\ truth' = truth /\ sidOf' = sidOf /\ past' = past /\ sent' = sent
      /\ connected' = connected /\ channel' = Tail(channel) /\ channel # <<>>
  BY DEF Receive
<1>2. channel' \in Seq(Messages) /\ Range(channel') \subseteq Range(channel)
  BY <1>1 DEF StreamTyped, Range
<1>3. PICK m \in Messages : m = Head(channel) /\ Genuine(m)
  <2>1. Head(channel) \in Messages /\ Head(channel) \in Range(channel)
    BY <1>1 DEF StreamTyped, Range
  <2> QED BY <2>1 DEF AllGenuine
<1> DEFINE mk == m.market
           before == past[sidOf[mk]]
<1>4. /\ mk \in Markets /\ m.seq \in Nat \ {0} /\ before \in Seq([Markets -> Books])
      /\ states[mk] \in States
  BY <1>3 DEF Messages, StreamTyped
<1>5. states' = [states EXCEPT ![mk] = NextBook(m)]
  BY <1>3 DEF Receive
<1>6. NextBook(m) \in States /\ (NextBook(m) # NoBook =>
        NextBook(m).seq \in DOMAIN before /\ NextBook(m).book = before[NextBook(m).seq][mk])
  <2>1. CASE m.type = "snapshot"
    <3>1. NextBook(m) = [seq |-> m.seq, book |-> m.book] /\ m.book \in Books
      BY <1>3, <2>1 DEF NextBook, Messages
    <3> QED BY <1>3, <1>4, <2>1, <3>1 DEF Genuine, States
  <2>2. CASE m.type = "delta" /\ states[mk] # NoBook /\ Fits(states[mk], m)
    <3>1. NextBook(m) = [seq |-> m.seq,
             book |-> ApplyToBook(states[mk].book, m.side, m.price, m.delta)]
      BY <2>2 DEF NextBook, Applied
    <3>2. /\ states[mk].seq \in Nat /\ states[mk].book \in Books
          /\ states[mk].seq = m.seq - 1
          /\ states[mk].book = before[m.seq - 1][mk]
      BY <1>4, <2>2 DEF BookIsTrue, States, Fits
    <3>3. m.side \in Outcomes /\ m.price \in Prices /\ m.delta \in Int
      BY <1>3, <2>2 DEF Messages
    <3>4. NextBook(m).book \in Books
      BY <3>1, <3>2, <3>3, BookStaysBook
    <3>5. /\ m.seq \in DOMAIN before
          /\ before[m.seq][mk] = ApplyToBook(before[m.seq - 1][mk], m.side, m.price, m.delta)
      BY <1>3, <2>2 DEF Genuine
    <3> QED BY <1>4, <3>1, <3>2, <3>4, <3>5 DEF States
  <2>3. CASE m.type = "delta" /\ ~ (states[mk] # NoBook /\ Fits(states[mk], m))
    BY <2>3 DEF NextBook, States
  <2> QED BY <1>3, <2>1, <2>2, <2>3 DEF Messages
<1>7. StreamTyped'
  BY <1>1, <1>2, <1>5, <1>6 DEF StreamTyped
<1>8. AllGenuine'
  BY <1>1, <1>2 DEF AllGenuine, Genuine
<1>9. BookIsTrue'
  <2>1. ASSUME NEW other \in Markets, states'[other] # NoBook
        PROVE  /\ states'[other].seq \in DOMAIN past[sidOf[other]]
               /\ states'[other].book = past[sidOf[other]][states'[other].seq][other]
    <3>1. CASE other = mk
      BY <1>4, <1>5, <1>6, <2>1, <3>1 DEF StreamTyped
    <3>2. CASE other # mk
      BY <1>5, <2>1, <3>2 DEF StreamTyped, BookIsTrue
    <3> QED BY <3>1, <3>2
  <2> QED BY <1>1, <2>1 DEF BookIsTrue
<1> QED BY <1>1, <1>7, <1>8, <1>9 DEF SentCurrent

-----------------------------------------------------------------------------
LEMMA NextIInv == IInv /\ [StreamNext]_streamVars => IInv'
<1> SUFFICES ASSUME IInv, [StreamNext]_streamVars PROVE IInv'
  OBVIOUS
<1>1. CASE Connect
  BY <1>1 DEF Connect, IInv, StreamTyped, AllGenuine, Genuine, SentCurrent, BookIsTrue
<1>2. CASE \E mk \in Markets : SendSnapshot(mk)
  BY <1>2, SnapshotIInv
<1>3. CASE \E c \in Changes : BookChanges(c)
  BY <1>3, ChangeIInv
<1>4. CASE \E i \in DOMAIN channel : LoseOrRepeat(i)
  BY <1>4, FaultIInv
<1>5. CASE Receive
  BY <1>5, ReceiveIInv
<1>6. CASE Disconnect
  <2>1. StreamTyped'
    BY <1>6 DEF Disconnect, IInv, StreamTyped, States
  <2>2. AllGenuine'
    BY <1>6 DEF Disconnect, AllGenuine, Range
  <2> QED BY <1>6, <2>1, <2>2 DEF Disconnect, IInv, SentCurrent, BookIsTrue
<1>7. CASE UNCHANGED streamVars
  BY <1>7 DEF streamVars, IInv, StreamTyped, AllGenuine, Genuine, SentCurrent, BookIsTrue
<1> QED BY <1>1, <1>2, <1>3, <1>4, <1>5, <1>6, <1>7 DEF StreamNext, Exchange

\* The client's books are the exchange's, of the number they bear: whatever the exchange
\* does and whichever messages are lost or repeated, however often.
THEOREM BooksAreTrue == StreamSpec => []BookIsTrue
<1>1. IInv => BookIsTrue
  BY DEF IInv
<1> QED BY InitIInv, NextIInv, <1>1, PTL DEF StreamSpec

-----------------------------------------------------------------------------
(* Gaps *)

\* Where the messages of a market stand in a channel, and whether what follows the number
\* s of a subscription that has come to n is on its way.
Places(ch, mk) == {i \in DOMAIN ch : ch[i].market = mk}
Followed(ch, n, s, mk) == s = n \/ \E j \in Places(ch, mk) : ch[j].seq = s + 1

\* A market that has its subscription to itself: its numbers come in order and without a
\* gap, after the number of the book that is held.
InLine(ch, n, state, mk) ==
  /\ \A i, j \in Places(ch, mk) : i < j => ch[i].seq < ch[j].seq
  /\ \A i \in Places(ch, mk) : Followed(ch, n, ch[i].seq, mk)
  /\ state # NoBook => /\ Followed(ch, n, state.seq, mk)
                       /\ \A i \in Places(ch, mk) : state.seq < ch[i].seq

Last(mk) == Len(past[sidOf[mk]])

LineInv ==
  /\ faults \in Nat
  /\ faults = 0 => \A mk \in Markets : ~ SharesSid(mk) => InLine(channel, Last(mk), states[mk], mk)

\* The exchange sends the next message of a subscription.
LEMMA EnqueueInLine ==
  ASSUME IInv, NEW mk \in Markets, ~ SharesSid(mk), InLine(channel, Last(mk), states[mk], mk),
         NEW mover \in Markets, NEW books \in [Markets -> Books], Number(mover, books),
         NEW m \in Messages, m.market = mover, m.seq = NextSeq(mover),
         channel' = Append(channel, m), states' = states, sidOf' = sidOf
  PROVE  InLine(channel', Last(mk)', states'[mk], mk)
<1> DEFINE n == Len(channel)
           k == Len(past[sidOf[mk]])
<1>1. /\ channel \in Seq(Messages) /\ n \in Nat /\ sidOf[mk] \in Sids /\ k \in Nat
      /\ StreamTyped /\ states[mk] \in States
  BY DEF IInv, StreamTyped
<1>2. /\ DOMAIN channel = 1 .. n /\ DOMAIN channel' = 1 .. n + 1
      /\ channel'[n + 1] = m /\ \A i \in 1 .. n : channel'[i] = channel[i]
  BY <1>1
<1>3. \A i \in Places(channel, mk) : channel[i].seq \in Nat /\ channel[i].seq <= k
  <2>1. ASSUME NEW i \in Places(channel, mk) PROVE channel[i].seq \in 1 .. k
    <3>1. channel[i] \in Range(channel) /\ channel[i].market = mk
      BY <1>1 DEF Places, Range
    <3> QED BY <1>1, <3>1 DEF IInv, AllGenuine, Genuine, StreamTyped
  <2> QED BY <1>1, <2>1
<1>4. CASE mover = mk
  <2>1. Places(channel', mk) = Places(channel, mk) \union {n + 1} /\ m.seq = k + 1
    BY <1>1, <1>2, <1>4 DEF Places, NextSeq
  <2>2. Last(mk)' = k + 1
    BY <1>1, <1>4, NumberKeeps DEF Last
  <2>3. n + 1 \in Places(channel', mk) /\ channel'[n + 1].seq = k + 1
    BY <1>2, <2>1
  <2>4. \A s \in Nat : Followed(channel, Last(mk), s, mk) => Followed(channel', Last(mk)', s, mk)
    <3>1. ASSUME NEW s \in Nat, s = k PROVE Followed(channel', Last(mk)', s, mk)
      BY <2>3, <3>1 DEF Followed
    <3>2. ASSUME NEW s \in Nat, NEW j \in Places(channel, mk), channel[j].seq = s + 1
          PROVE  Followed(channel', Last(mk)', s, mk)
      <4>1. j \in Places(channel', mk) /\ channel'[j].seq = s + 1
        BY <1>2, <2>1, <3>2 DEF Places
      <4> QED BY <4>1 DEF Followed
    <3> QED BY <3>1, <3>2 DEF Followed, Last
  <2>5. \A i \in Places(channel', mk) : Followed(channel', Last(mk)', channel'[i].seq, mk)
    <3>1. ASSUME NEW i \in Places(channel, mk)
          PROVE  Followed(channel', Last(mk)', channel'[i].seq, mk)
      <4>1. channel'[i] = channel[i]
        BY <1>2 DEF Places
      <4> QED BY <1>3, <2>4, <4>1 DEF InLine
    <3>2. Followed(channel', Last(mk)', channel'[n + 1].seq, mk)
      BY <2>2, <2>3 DEF Followed
    <3> QED BY <2>1, <3>1, <3>2
  <2>6. ASSUME NEW i \in Places(channel', mk), NEW j \in Places(channel', mk), i < j
        PROVE  channel'[i].seq < channel'[j].seq
    <3>1. i \in Places(channel, mk) /\ i \in 1 .. n
      BY <1>1, <1>2, <2>1, <2>6 DEF Places
    <3>2. CASE j = n + 1
      BY <1>1, <1>2, <1>3, <2>3, <3>1, <3>2
    <3>3. CASE j \in Places(channel, mk)
      BY <1>2, <2>6, <3>1, <3>3 DEF Places, InLine
    <3> QED BY <2>1, <3>2, <3>3
  <2>7. ASSUME states'[mk] # NoBook
        PROVE  /\ Followed(channel', Last(mk)', states'[mk].seq, mk)
               /\ \A i \in Places(channel', mk) : states'[mk].seq < channel'[i].seq
    <3>1. /\ states[mk] # NoBook /\ states[mk].seq \in Nat /\ states[mk].seq <= k
          /\ states'[mk] = states[mk]
      BY <1>1, <2>7 DEF IInv, BookIsTrue, StreamTyped
    <3>2. \A i \in Places(channel, mk) : states[mk].seq < channel'[i].seq
      BY <1>2, <3>1 DEF InLine, Places
    <3>3. states[mk].seq < channel'[n + 1].seq
      BY <1>1, <2>3, <3>1
    <3>4. \A i \in Places(channel', mk) : states[mk].seq < channel'[i].seq
      BY <2>1, <3>2, <3>3
    <3>5. Followed(channel, Last(mk), states[mk].seq, mk)
      BY <3>1 DEF InLine
    <3> QED BY <2>4, <3>1, <3>4, <3>5
  <2> QED BY <2>5, <2>6, <2>7 DEF InLine
<1>5. CASE mover # mk
  <2>1. sidOf[mover] # sidOf[mk]
    BY <1>5 DEF SharesSid
  <2>2. Last(mk)' = Last(mk) /\ states' = states
    BY <1>1, <2>1, NumberKeeps DEF Last
  <2>3. /\ Places(channel', mk) = Places(channel, mk)
        /\ \A i \in Places(channel, mk) : channel'[i] = channel[i]
    BY <1>1, <1>2, <1>5 DEF Places
  <2>4. \A s : Followed(channel, Last(mk), s, mk) => Followed(channel', Last(mk)', s, mk)
    BY <2>2, <2>3 DEF Followed
  <2>5. \A i \in Places(channel', mk) : Followed(channel', Last(mk)', channel'[i].seq, mk)
    BY <2>3, <2>4 DEF InLine
  <2>6. \A i, j \in Places(channel', mk) : i < j => channel'[i].seq < channel'[j].seq
    BY ZenonT(30), <2>3 DEF InLine
  <2> QED BY <2>2, <2>3, <2>4, <2>5, <2>6 DEF InLine
<1> QED BY <1>4, <1>5

\* The head of a channel in line fits the book that is held, and what follows it fits
\* the book it leads to.
LEMMA ReceiveInLine ==
  ASSUME IInv, NEW mk \in Markets, InLine(channel, Last(mk), states[mk], mk), Receive
  PROVE  /\ InLine(channel', Last(mk)', states'[mk], mk)
         /\ (states[mk] # NoBook => states'[mk] # NoBook)
<1> DEFINE m == Head(channel)
           n == Len(channel)
<1>1. /\ channel' = Tail(channel) /\ channel # <<>> /\ past' = past /\ sidOf' = sidOf
      /\ states' = [states EXCEPT ![m.market] = NextBook(m)]
  BY DEF Receive
<1>2. /\ channel \in Seq(Messages) /\ n \in Nat \ {0} /\ m = channel[1] /\ m \in Messages
      /\ states \in [Markets -> States] /\ m.market \in Markets
      /\ DOMAIN channel = 1 .. n /\ DOMAIN channel' = 1 .. n - 1
      /\ \A i \in 1 .. n - 1 : channel'[i] = channel[i + 1]
  <2>1. channel \in Seq(Messages) /\ channel # <<>> /\ states \in [Markets -> States]
    BY <1>1 DEF IInv, StreamTyped
  <2>2. channel[1] \in Messages /\ n \in Nat \ {0} /\ m = channel[1]
    BY <2>1
  <2> QED BY <1>1, <2>1, <2>2 DEF Messages
<1>3. \A i \in DOMAIN channel : channel[i].seq \in Nat \ {0}
  BY <1>2 DEF Messages
<1>4. /\ \A i \in Places(channel', mk) :
           i + 1 \in Places(channel, mk) /\ channel'[i] = channel[i + 1]
      /\ \A j \in Places(channel, mk) :
           j # 1 => j - 1 \in Places(channel', mk) /\ channel'[j - 1] = channel[j]
  <2>1. ASSUME NEW i \in Places(channel', mk)
        PROVE  i + 1 \in Places(channel, mk) /\ channel'[i] = channel[i + 1]
    BY <1>2, <2>1 DEF Places
  <2>2. ASSUME NEW j \in Places(channel, mk), j # 1
        PROVE  j - 1 \in Places(channel', mk) /\ channel'[j - 1] = channel[j]
    <3>1. j \in 1 .. n /\ j - 1 \in 1 .. n - 1 /\ (j - 1) + 1 = j
      BY <1>2, <2>2 DEF Places
    <3>2. channel'[j - 1] = channel[j]
      BY <1>2, <3>1
    <3> QED BY <1>2, <3>1, <3>2 DEF Places
  <2> QED BY <2>1, <2>2
<1>5. ASSUME NEW i \in Places(channel', mk), NEW j \in Places(channel', mk), i < j
      PROVE  channel'[i].seq < channel'[j].seq
  <2>1. i + 1 < j + 1
    BY <1>2, <1>5 DEF Places
  <2> QED BY <1>4, <2>1 DEF InLine
\* Only the number the head bears can be missed.
<1>6. ASSUME NEW s \in Nat, Followed(channel, Last(mk), s, mk), m.market = mk => m.seq # s + 1
      PROVE  Followed(channel', Last(mk)', s, mk)
  <2>1. CASE s = Last(mk)
    BY <1>1, <2>1 DEF Followed, Last
  <2>2. CASE \E j \in Places(channel, mk) : channel[j].seq = s + 1
    <3>1. PICK j \in Places(channel, mk) : channel[j].seq = s + 1
      BY <2>2
    <3>2. j # 1
      BY <1>2, <1>6, <3>1 DEF Places
    <3>3. j - 1 \in Places(channel', mk) /\ channel'[j - 1].seq = s + 1
      BY <1>4, <3>1, <3>2
    <3> QED BY <3>3 DEF Followed
  <2> QED BY <1>6, <2>1, <2>2 DEF Followed
<1>7. ASSUME NEW i \in Places(channel', mk) PROVE Followed(channel', Last(mk)', channel'[i].seq, mk)
  <2>1. i + 1 \in Places(channel, mk) /\ channel'[i] = channel[i + 1] /\ i \in Nat \ {0}
    BY <1>2, <1>4 DEF Places
  <2>2. m.market = mk => 1 \in Places(channel, mk)
    BY <1>2 DEF Places
  <2>3. m.market = mk => m.seq < channel[i + 1].seq
    <3>1. 1 < i + 1
      BY <2>1
    <3> QED BY <1>2, <2>1, <2>2, <3>1 DEF InLine
  <2>4. /\ channel[i + 1].seq \in Nat /\ m.seq \in Nat
        /\ Followed(channel, Last(mk), channel[i + 1].seq, mk)
    BY <1>2, <1>3, <2>1 DEF InLine, Places
  <2> QED BY <1>6, <2>1, <2>3, <2>4
<1>8. CASE m.market # mk
  <2>1. states'[mk] = states[mk]
    BY <1>1, <1>2, <1>8
  <2>2. states[mk] # NoBook => states[mk].seq \in Nat
    BY <1>2 DEF States
  <2>3. states[mk] # NoBook =>
          /\ Followed(channel', Last(mk)', states[mk].seq, mk)
          /\ \A i \in Places(channel', mk) : states[mk].seq < channel'[i].seq
    BY <1>4, <1>6, <1>8, <2>2 DEF InLine
  <2> QED BY <1>5, <1>7, <2>1, <2>3 DEF InLine
<1>9. CASE m.market = mk
  <2>1. 1 \in Places(channel, mk) /\ m.seq \in Nat \ {0} /\ Followed(channel, Last(mk), m.seq, mk)
    BY <1>2, <1>3, <1>9 DEF Places, InLine
  <2>2. \A i \in Places(channel', mk) : m.seq < channel'[i].seq
    <3>1. ASSUME NEW i \in Places(channel', mk) PROVE m.seq < channel'[i].seq
      <4>1. i + 1 \in Places(channel, mk) /\ channel'[i] = channel[i + 1] /\ 1 < i + 1
        BY <1>2, <1>4 DEF Places
      <4> QED BY <1>2, <2>1, <4>1 DEF InLine
    <3> QED BY <3>1
  <2>3. Followed(channel', Last(mk)', m.seq, mk)
    BY <1>6, <2>1
  <2>4. states'[mk] = NextBook(m)
    BY <1>1, <1>2, <1>9
  <2>5. NextBook(m) # NoBook => NextBook(m).seq = m.seq
    BY DEF NextBook, Applied
  <2>6. InLine(channel', Last(mk)', states'[mk], mk)
    BY <1>5, <1>7, <2>2, <2>3, <2>4, <2>5 DEF InLine
  <2>7. ASSUME states[mk] # NoBook PROVE Fits(states[mk], m)
    <3> DEFINE s == states[mk].seq
    <3>1. s \in Nat /\ Followed(channel, Last(mk), s, mk) /\ s < m.seq
      BY <1>2, <2>1, <2>7 DEF InLine, States
    <3>2. m.seq \in 1 .. Last(mk) /\ Last(mk) \in Nat
      <4>1. m \in Range(channel)
        BY <1>2 DEF Range
      <4> QED BY <1>9, <4>1 DEF IInv, AllGenuine, Genuine, StreamTyped, Last
    <3>3. PICK j \in Places(channel, mk) : channel[j].seq = s + 1
      BY <3>1, <3>2 DEF Followed
    <3>4. j = 1
      <4>1. SUFFICES ASSUME j # 1 PROVE FALSE
        OBVIOUS
      <4>2. 1 < j
        BY <1>2, <4>1 DEF Places
      <4>3. m.seq < s + 1
        BY <1>2, <2>1, <3>3, <4>2 DEF InLine
      <4> QED BY <2>1, <3>1, <4>3
    <3> QED BY <1>2, <3>3, <3>4 DEF Fits
  <2>8. states[mk] # NoBook => NextBook(m) # NoBook
    <3>1. ASSUME states[mk] # NoBook PROVE NextBook(m) # NoBook
      <4>1. NextBook(m) = [seq |-> m.seq, book |-> m.book] \/ NextBook(m) = Applied(states[mk], m)
        BY <1>2, <1>9, <2>7, <3>1 DEF NextBook, Messages
      <4> QED BY <4>1 DEF NoBook, Applied
    <3> QED BY <3>1
  <2> QED BY <2>4, <2>6, <2>8
<1> QED BY <1>8, <1>9

LEMMA NextLineInv == IInv /\ LineInv /\ [StreamNext]_streamVars => LineInv'
<1> SUFFICES ASSUME IInv, LineInv, [StreamNext]_streamVars PROVE LineInv'
  OBVIOUS
<1>0. sidOf' = sidOf
  BY DEF StreamNext, Connect, Exchange, SendSnapshot, BookChanges, LoseOrRepeat, Receive,
         Disconnect, streamVars
<1>1. SUFFICES ASSUME ~ \E i \in DOMAIN channel : LoseOrRepeat(i)
      PROVE  LineInv'
  <2>1. ASSUME NEW i \in DOMAIN channel, LoseOrRepeat(i) PROVE LineInv'
    <3>1. faults' = faults + 1 /\ faults \in Nat
      BY <2>1 DEF LoseOrRepeat, LineInv
    <3>2. faults' \in Nat /\ faults' # 0
      BY <3>1
    <3> QED BY <3>2 DEF LineInv
  <2> QED BY <2>1
<1>2. faults' = faults
  BY <1>1 DEF StreamNext, Connect, Exchange, SendSnapshot, BookChanges, Receive,
              Disconnect, streamVars
<1>3. SUFFICES ASSUME NEW mk \in Markets, ~ SharesSid(mk),
                      InLine(channel, Last(mk), states[mk], mk)
      PROVE  InLine(channel', Last(mk)', states'[mk], mk)
  BY <1>0, <1>2 DEF LineInv, SharesSid
<1>4. ASSUME UNCHANGED <<past, channel, states>> PROVE InLine(channel', Last(mk)', states'[mk], mk)
  BY <1>0, <1>3, <1>4 DEF Last
<1>5. ASSUME NEW mover \in Markets, SendSnapshot(mover)
      PROVE  InLine(channel', Last(mk)', states'[mk], mk)
  <2>1. PICK m : m = [type |-> "snapshot", market |-> mover, seq |-> NextSeq(mover),
                      book |-> truth[mover]]
    OBVIOUS
  <2>2. truth \in [Markets -> Books] /\ NextSeq(mover) \in Nat \ {0}
    BY DEF IInv, StreamTyped, NextSeq
  <2>3. m \in Messages /\ m.market = mover /\ m.seq = NextSeq(mover)
    BY <2>1, <2>2 DEF Messages
  <2>4. Number(mover, truth) /\ channel' = Append(channel, m) /\ states' = states
    BY <1>5, <2>1 DEF SendSnapshot
  <2> QED BY <1>0, <1>3, <2>2, <2>3, <2>4, EnqueueInLine
<1>6. ASSUME NEW c \in Changes, BookChanges(c) PROVE InLine(channel', Last(mk)', states'[mk], mk)
  <2>1. CASE connected /\ c.market \in sent
    <3>1. PICK m : m = [type |-> "delta", market |-> c.market, seq |-> NextSeq(c.market),
                        side |-> c.side, price |-> c.price, delta |-> c.delta]
      OBVIOUS
    <3>2. /\ c.market \in Markets /\ c.side \in Outcomes /\ c.price \in Prices /\ c.delta \in Int
          /\ NextSeq(c.market) \in Nat \ {0}
      BY StreamAssumption DEF IInv, StreamTyped, NextSeq
    <3>3. m \in Messages /\ m.market = c.market /\ m.seq = NextSeq(c.market)
      BY <3>1, <3>2 DEF Messages
    <3>4. truth' \in [Markets -> Books]
      BY <1>6, ChangeIInv DEF IInv, StreamTyped
    <3>5. Number(c.market, truth') /\ channel' = Append(channel, m) /\ states' = states
      BY <1>6, <2>1, <3>1 DEF BookChanges
    <3> QED BY <1>0, <1>3, <3>2, <3>3, <3>4, <3>5, EnqueueInLine
  <2>2. CASE ~ (connected /\ c.market \in sent)
    BY <1>4, <1>6, <2>2 DEF BookChanges
  <2> QED BY <2>1, <2>2
<1>7. CASE Receive
  BY <1>3, <1>7, ReceiveInLine
<1>8. CASE Disconnect
  <2>1. channel' = <<>> /\ states'[mk] = NoBook
    BY <1>8 DEF Disconnect
  <2> QED BY <2>1 DEF InLine, Places
<1>9. CASE Connect \/ UNCHANGED streamVars
  BY <1>4, <1>9 DEF Connect, streamVars
<1> QED BY <1>1, <1>5, <1>6, <1>7, <1>8, <1>9 DEF StreamNext, Exchange

\* While the tool stays connected only the receipt of a message gives up a book, and one in
\* line never does.
LEMMA GapStep ==
  ASSUME IInv, LineInv, StreamNext, NEW mk \in Markets,
         connected', connected, states[mk] # NoBook, states'[mk] = NoBook
  PROVE  faults > 0 \/ SharesSid(mk)
<1>1. Receive
  BY DEF StreamNext, Connect, Exchange, SendSnapshot, BookChanges, LoseOrRepeat, Disconnect
<1>2. ~ InLine(channel, Last(mk), states[mk], mk)
  BY <1>1, ReceiveInLine
<1> QED BY <1>2 DEF LineInv

-----------------------------------------------------------------------------
(* The manual order *)

\* The latest moment at which an attempt may still reach the exchange.
Due(attempt) == plan.decision.at + MaxAge + attempt * Timeout + (attempt - 1) * MaxWait

Underway == {"sent", "waiting"}

\* The values a decision can have: none of the facts here depends on what they are.
Costs == {NoPrice} \union {CostToBuy(ImpliedAsks(book, side), 1) : book \in Books, side \in Outcomes}
Evs == {0} \union {Belief(side, p) - cost : side \in Outcomes, p \in Beliefs, cost \in Costs}
Offers == {NoPrice} \union
  {BestAsk([x \in Prices |-> true[Other(side)][Dollar - x]]) : true \in Books, side \in Outcomes}

Decided == [market : Markets, at : Nat, taker : BOOLEAN, side : Outcomes, price : Costs,
            ev : Evs, offered : Offers]

Attempts == [phase : Underway \union {"ok", "raised"}, id : Nat, decision : Decided,
             attempt : 1 .. MaxAttempts, until : Nat, lost : BOOLEAN]

Rows == [id : Nat, market : Markets, status : {"SUBMITTED", "BLOCKED", "DRY_RUN"}]

PlanTyped ==
  /\ rows \in Seq(Rows)
  /\ plans \in Nat /\ clock \in Nat
  /\ decisions \in Seq(Decided)
  /\ \A o \in orders : o.id \in Nat /\ o.id <= plans
  /\ plan # NoPlan => plan.id = plans /\ plan.decision \in Decided
  /\ plan.phase \in Underway \union {"ok", "raised"} => plan \in Attempts

\* The order of the running plan, if it has one.
Ordered ==
  /\ plan.phase = "selected" => Known = {}
  /\ plan.phase \in {"sent", "waiting", "raised"} /\ ~ plan.lost => Known = {}
  /\ plan.phase = "ok" => Known # {}

InTime ==
  /\ plan.phase \in Underway => clock <= plan.until
  /\ plan.phase = "sent" => plan.until <= Due(plan.attempt)
  /\ plan.phase = "waiting" => MayRetry /\ plan.until <= Due(plan.attempt) + MaxWait

DInv == PlanTyped /\ Ordered /\ InTime /\ RowTellsTruth /\ OrderFresh

-----------------------------------------------------------------------------
\* No attempt is due later than the last.
LEMMA DueLast ==
  ASSUME NEW a \in 1 .. MaxAttempts
  PROVE  a * Timeout + (a - 1) * MaxWait <= MaxAttempts * Timeout + (MaxAttempts - 1) * MaxWait
<1>1. a \in Nat /\ MaxAttempts \in Nat /\ a <= MaxAttempts /\ Timeout \in Nat /\ MaxWait \in Nat
  BY PlanAssumption
<1>2. MaxAttempts * Timeout = a * Timeout + (MaxAttempts - a) * Timeout
  BY <1>1
<1>3. (MaxAttempts - 1) * MaxWait = (a - 1) * MaxWait + (MaxAttempts - a) * MaxWait
  BY <1>1
<1>4. (MaxAttempts - a) * Timeout \in Nat /\ (MaxAttempts - a) * MaxWait \in Nat
  <2>1. MaxAttempts - a \in Nat
    BY <1>1
  <2>2. \A x, y \in Nat : x * y \in Nat
    OBVIOUS
  <2> QED BY <1>1, <2>1, <2>2
<1> QED BY <1>1, <1>2, <1>3, <1>4

LEMMA DueNext ==
  ASSUME NEW a \in 1 .. MaxAttempts
  PROVE  /\ (a + 1) * Timeout = a * Timeout + Timeout
         /\ ((a + 1) - 1) * MaxWait = (a - 1) * MaxWait + MaxWait
         /\ {a * Timeout, (a - 1) * MaxWait} \subseteq Int
  BY PlanAssumption

\* The tool picks one of the stored decisions.
LEMMA ChosenIsStored ==
  ASSUME NEW mode \in Modes, NEW o \in BOOLEAN
  PROVE  Chosen(mode, o) \subseteq DOMAIN decisions
<1>1. LatestCycle \subseteq DOMAIN decisions
  BY DEF LatestCycle, LatestOfMarket, AtMost
<1>2. \A excluded : Scannable(mode, excluded) \subseteq DOMAIN decisions
  BY <1>1 DEF Scannable, OfMode, Modes
<1>3. \A excluded : Selected(mode, excluded) \subseteq DOMAIN decisions
  <2>1. \A S : Best(S) \subseteq S
    BY DEF Best
  <2>2. \A S : TakersOf(S) \subseteq S
    BY DEF TakersOf, AtMost
  <2> QED BY <1>2, <2>1, <2>2 DEF Selected
<1> QED BY <1>3 DEF Chosen

LEMMA DInitInv == Init => DInv
  BY DEF Init, PlanInit, DInv, PlanTyped, Ordered, InTime, RowTellsTruth, OrderFresh, Known,
         NoPlan, Underway

LEMMA PrepareKeeps ==
  ASSUME DInv, NEW mode \in Modes, NEW o \in BOOLEAN, NEW x \in BOOLEAN, Prepare(mode, o, x)
  PROVE  DInv'
<1>1. PICK i \in Chosen(mode, o) :
        plan' = [phase |-> "selected", id |-> plans + 1, index |-> i,
                 decision |-> decisions[i], execute |-> x]
  BY DEF Prepare
<1>2. decisions[i] \in Decided
  BY <1>1, ChosenIsStored DEF DInv, PlanTyped
<1>3. /\ plans' = plans + 1 /\ clock' = clock /\ decisions' = decisions
      /\ orders' = orders /\ rows' = rows
  BY DEF Prepare
<1>4. plan'.phase = "selected" /\ plan'.id = plans' /\ plan'.decision \in Decided
  BY <1>1, <1>2, <1>3
<1>5. PlanTyped'
  BY <1>3, <1>4 DEF DInv, PlanTyped, Underway
<1>6. Ordered'
  BY <1>3, <1>4 DEF DInv, PlanTyped, Ordered, Known
<1> QED BY <1>3, <1>4, <1>5, <1>6 DEF DInv, InTime, RowTellsTruth, OrderFresh, Underway

\* The tool ends; with a row SUBMITTED only after the exchange's answer.
LEMMA SaveKeeps ==
  ASSUME DInv, NEW status \in {"SUBMITTED", "BLOCKED", "DRY_RUN"}, Save(status),
         status = "SUBMITTED" => plan.phase = "ok", plan # NoPlan
  PROVE  DInv'
<1>1. /\ rows' = Append(rows, [id |-> plan.id, market |-> plan.decision.market, status |-> status])
      /\ plan' = NoPlan /\ plan'.phase = "none" /\ plans' = plans /\ clock' = clock
      /\ decisions' = decisions /\ orders' = orders
  BY DEF Save, NoPlan
<1>2. PlanTyped'
  <2>1. [id |-> plan.id, market |-> plan.decision.market, status |-> status] \in Rows
    BY DEF DInv, PlanTyped, Rows, Decided
  <2> QED BY <1>1, <2>1 DEF DInv, PlanTyped, Underway
<1>4. InTime' /\ OrderFresh' /\ Ordered'
  BY <1>1 DEF DInv, InTime, OrderFresh, Ordered, Underway
<1>3. RowTellsTruth'
  <2>1. ASSUME NEW i \in DOMAIN rows', rows'[i].status = "SUBMITTED"
        PROVE  \E o \in orders : o.id = rows'[i].id
    <3>1. CASE i \in DOMAIN rows /\ rows'[i] = rows[i]
      BY <2>1, <3>1 DEF DInv, RowTellsTruth
    <3>2. CASE rows'[i] = [id |-> plan.id, market |-> plan.decision.market, status |-> status]
      BY <2>1, <3>2 DEF DInv, Ordered, Known
    <3>3. rows \in Seq(Rows)
      BY DEF DInv, PlanTyped
    <3> QED BY <1>1, <2>1, <3>1, <3>2, <3>3
  <2> QED BY <1>1, <2>1 DEF DInv, RowTellsTruth
<1> QED BY <1>2, <1>3, <1>4 DEF DInv

\* An attempt starts in time.
LEMMA SubmitKeeps ==
  ASSUME DInv, Submit
  PROVE  DInv'
<1>1. /\ plan.phase = "selected" /\ clock - plan.decision.at <= MaxAge
      /\ plan' = [phase |-> "sent", id |-> plan.id, decision |-> plan.decision,
                  attempt |-> 1, until |-> clock + Timeout, lost |-> FALSE]
      /\ clock' = clock /\ decisions' = decisions /\ plans' = plans
      /\ orders' = orders /\ rows' = rows
  BY DEF Submit, Submittable
<1>2. /\ plan # NoPlan /\ plan.decision.at \in Nat /\ clock \in Nat /\ {Timeout, MaxAge, MaxWait} \subseteq Nat
      /\ plan.decision \in Decided /\ plan.id = plans
  BY <1>1, PlanAssumption DEF DInv, PlanTyped, Decided, NoPlan
<1>3. /\ plan'.phase = "sent" /\ plan'.id = plan.id /\ plan'.decision = plan.decision
      /\ plan'.attempt = 1 /\ plan'.until = clock + Timeout /\ ~ plan'.lost
  BY <1>1
<1>4. PlanTyped'
  <2>1. plan' \in Attempts
    BY SMTT(30), <1>1, <1>2, PlanAssumption DEF DInv, PlanTyped, Attempts, Underway
  <2> QED BY <1>1, <1>2, <1>3, <2>1 DEF DInv, PlanTyped, Underway
<1>5. Ordered' /\ RowTellsTruth' /\ OrderFresh'
  BY <1>1, <1>3 DEF DInv, Ordered, RowTellsTruth, OrderFresh, Known
<1>6. InTime'
  <2>1. Due(1) = plan.decision.at + MaxAge + Timeout
    BY <1>2 DEF Due
  <2>2. Due(1)' = Due(1)
    BY <1>3 DEF Due
  <2>3. clock + Timeout <= Due(1)
    BY <1>1, <1>2, <2>1
  <2> QED BY <1>1, <1>2, <1>3, <2>2, <2>3 DEF InTime, Underway
<1> QED BY <1>4, <1>5, <1>6 DEF DInv

\* The exchange accepts the order of an attempt that is under way: once, and in time.
LEMMA AcceptedKeeps ==
  ASSUME DInv, plan.phase = "sent", Accepted, clock' = clock
  PROVE  /\ \A o \in orders' : o.id \in Nat /\ o.id <= plans
         /\ \A o1, o2 \in orders' : o1.id = o2.id => o1 = o2
         /\ orders \subseteq orders'
         /\ \E o \in orders' : o.id = plan.id
         /\ OrderFresh'
<1>1. PICK new : /\ new.id = plan.id /\ new.decided = plan.decision.at /\ new.at = clock
                 /\ orders' = orders \union {new}
  BY DEF Accepted
<1>2. \A o \in orders : o.id # plan.id
  BY DEF Accepted, Known
<1>3. plan # NoPlan /\ plan.id = plans /\ plans \in Nat /\ plan.decision.at \in Nat
  BY DEF DInv, PlanTyped, Decided, NoPlan
<1>4. plan.attempt \in 1 .. MaxAttempts /\ plan.until \in Nat /\ clock <= plan.until
      /\ plan.until <= Due(plan.attempt) /\ clock \in Nat
  BY DEF DInv, PlanTyped, Attempts, InTime, Underway
<1>5. new.at - new.decided <= MaxAge + MaxAttempts * Timeout + (MaxAttempts - 1) * MaxWait
  <2> DEFINE last == MaxAttempts * Timeout + (MaxAttempts - 1) * MaxWait
             own == plan.attempt * Timeout + (plan.attempt - 1) * MaxWait
  <2>1. own <= last /\ own \in Int /\ last \in Int
    BY <1>4, DueLast, PlanAssumption
  <2>2. Due(plan.attempt) = plan.decision.at + MaxAge + own
    BY <1>3, <1>4, PlanAssumption DEF Due
  <2>3. MaxAge \in Nat /\ MaxAge + MaxAttempts * Timeout + (MaxAttempts - 1) * MaxWait = MaxAge + last
    BY PlanAssumption
  <2> HIDE DEF last, own
  <2> QED BY <1>1, <1>3, <1>4, <2>1, <2>2, <2>3
<1>6. OrderFresh'
  BY <1>1, <1>5 DEF DInv, OrderFresh
<1> QED BY <1>1, <1>2, <1>3, <1>6 DEF DInv, PlanTyped, RowTellsTruth

\* What a step of the running attempt has to show.
LEMMA AttemptKeeps ==
  ASSUME DInv, plan.phase \in Underway, clock' = clock, decisions' = decisions,
         plans' = plans, rows' = rows, OrderFresh',
         \A o \in orders' : o.id \in Nat /\ o.id <= plans,
         \A o1, o2 \in orders' : o1.id = o2.id => o1 = o2,
         orders \subseteq orders',
         plan' \in Attempts, plan'.id = plan.id, Ordered', InTime'
  PROVE  DInv'
<1>1. plan # NoPlan /\ plan.id = plans
  BY DEF Underway, NoPlan, DInv, PlanTyped
<1>2. plan'.decision \in Decided
  BY DEF Attempts
<1>3. PlanTyped'
  BY <1>1, <1>2 DEF DInv, PlanTyped
<1>4. RowTellsTruth'
  <2>1. \A i \in DOMAIN rows : rows[i].status = "SUBMITTED" => \E o \in orders' : o.id = rows[i].id
    BY DEF DInv, RowTellsTruth
  <2>2. plan'.phase = "raised" /\ ~ plan'.lost => Known' = {}
    BY DEF Ordered
  <2> QED BY <2>1, <2>2 DEF RowTellsTruth
<1> QED BY <1>3, <1>4 DEF DInv

LEMMA AnswerOkKeeps ==
  ASSUME DInv, AnswerOk
  PROVE  DInv'
<1>1. /\ plan.phase = "sent" /\ Accepted /\ plan' = [plan EXCEPT !.phase = "ok"]
      /\ clock' = clock /\ decisions' = decisions /\ plans' = plans /\ rows' = rows
  BY DEF AnswerOk
<1>2. plan' \in Attempts /\ plan'.phase = "ok" /\ plan'.id = plan.id
  BY <1>1 DEF DInv, PlanTyped, Attempts, Underway
<1>3. \E o \in orders' : o.id = plan'.id
  BY <1>1, <1>2, AcceptedKeeps
<1>4. Ordered' /\ InTime'
  BY <1>2, <1>3 DEF Ordered, InTime, Known, Underway
<1> QED BY <1>1, <1>2, <1>4, AcceptedKeeps, AttemptKeeps DEF Underway

LEMMA AnswerRefusedKeeps ==
  ASSUME DInv, AnswerRefused
  PROVE  DInv'
<1>1. /\ plan.phase = "sent" /\ plan' = [plan EXCEPT !.phase = "raised"] /\ orders' = orders
      /\ clock' = clock /\ decisions' = decisions /\ plans' = plans /\ rows' = rows
  BY DEF AnswerRefused
<1>2. plan' \in Attempts /\ plan'.phase = "raised" /\ plan'.id = plan.id /\ plan'.lost = plan.lost
  BY <1>1 DEF DInv, PlanTyped, Attempts, Underway
<1>3. Ordered' /\ InTime' /\ OrderFresh'
  BY <1>1, <1>2 DEF DInv, Ordered, InTime, Known, Underway, OrderFresh
<1>4. /\ \A o \in orders' : o.id \in Nat /\ o.id <= plans
      /\ \A o1, o2 \in orders' : o1.id = o2.id => o1 = o2
  BY <1>1 DEF DInv, PlanTyped, RowTellsTruth
<1> QED BY <1>1, <1>2, <1>3, <1>4, AttemptKeeps DEF Underway

\* The answer is lost: an order the exchange did take is then remembered as possible.
LEMMA AnswerLostKeeps ==
  ASSUME DInv, AnswerLost
  PROVE  DInv'
<1>1. PICK lost \in BOOLEAN :
        /\ plan' \in Retried(lost)
        /\ \/ lost /\ Accepted
           \/ lost = plan.lost /\ orders' = orders
  <2>1. plan.lost \in BOOLEAN
    BY DEF AnswerLost, DInv, PlanTyped, Attempts, Underway
  <2>2. CASE Accepted /\ plan' \in Retried(TRUE)
    BY <2>2
  <2>3. CASE orders' = orders /\ plan' \in Retried(plan.lost)
    BY <2>1, <2>3
  <2> QED BY <2>2, <2>3 DEF AnswerLost
<1>2. /\ plan.phase = "sent" /\ clock' = clock /\ decisions' = decisions
      /\ plans' = plans /\ rows' = rows /\ plan \in Attempts /\ clock \in Nat
      /\ clock <= plan.until /\ plan.until <= Due(plan.attempt)
  BY DEF AnswerLost, DInv, PlanTyped, InTime, Underway
<1>3. /\ plan' \in Attempts /\ plan'.id = plan.id /\ plan'.lost = lost
      /\ plan'.decision = plan.decision /\ plan'.attempt = plan.attempt
      /\ \/ plan'.phase = "raised"
         \/ plan'.phase = "waiting" /\ MayRetry /\ plan'.until \in clock .. clock + MaxWait
  <2>1. CASE MayRetry
    <3>1. PICK w \in 0 .. MaxWait :
            plan' = [plan EXCEPT !.phase = "waiting", !.until = clock + w, !.lost = lost]
      BY <1>1, <2>1 DEF Retried
    <3>2. clock + w \in Nat /\ clock + w \in clock .. clock + MaxWait
      BY <1>2, PlanAssumption
    <3> QED BY <1>1, <1>2, <2>1, <3>1, <3>2 DEF Attempts, Underway
  <2>2. CASE ~ MayRetry
    BY <1>1, <1>2, <2>2 DEF Retried, Attempts, Underway
  <2> QED BY <2>1, <2>2
<1>4. InTime'
  <2>1. plan.decision.at \in Nat /\ plan.attempt \in 1 .. MaxAttempts
    BY <1>2 DEF Attempts, Decided
  <2>2. Due(plan.attempt) \in Int /\ Due(plan.attempt)' = Due(plan.attempt)
    BY <1>3, <2>1, PlanAssumption DEF Due
  <2>3. CASE plan'.phase = "waiting"
    <3>1. plan.until \in Nat /\ MaxWait \in Nat
      BY <1>2, PlanAssumption DEF Attempts
    <3> HIDE DEF Due
    <3>2. plan'.until <= Due(plan.attempt) + MaxWait /\ clock <= plan'.until
      BY <1>2, <1>3, <2>2, <2>3, <3>1
    <3>3. MayRetry'
      BY <1>3, <2>3 DEF MayRetry
    <3> QED BY <1>2, <2>2, <2>3, <3>2, <3>3 DEF InTime
  <2> QED BY <1>3, <2>3 DEF InTime, Underway
<1>5. CASE lost /\ Accepted
  <2>1. Ordered'
    BY <1>3, <1>5 DEF Ordered
  <2> QED BY <1>2, <1>3, <1>4, <1>5, <2>1, AcceptedKeeps, AttemptKeeps DEF Underway
<1>6. CASE lost = plan.lost /\ orders' = orders
  <2>1. Ordered' /\ OrderFresh'
    BY <1>2, <1>3, <1>6 DEF DInv, Ordered, Known, OrderFresh
  <2>2. /\ \A o \in orders' : o.id \in Nat /\ o.id <= plans
        /\ \A o1, o2 \in orders' : o1.id = o2.id => o1 = o2
    BY <1>6 DEF DInv, PlanTyped, RowTellsTruth
  <2> QED BY <1>2, <1>3, <1>4, <1>6, <2>1, <2>2, AttemptKeeps DEF Underway
<1> QED BY <1>1, <1>5, <1>6

\* The next attempt starts when its wait is over, in its own time.
LEMMA RetryKeeps ==
  ASSUME DInv, Retry
  PROVE  DInv'
<1>1. /\ plan.phase = "waiting" /\ clock = plan.until /\ plan \in Attempts
      /\ plan' = [plan EXCEPT !.phase = "sent", !.attempt = @ + 1, !.until = clock + Timeout]
      /\ clock' = clock /\ decisions' = decisions /\ plans' = plans
      /\ orders' = orders /\ rows' = rows /\ clock \in Nat
      /\ clock <= Due(plan.attempt) + MaxWait /\ MayRetry
  BY DEF Retry, DInv, PlanTyped, InTime, Underway
<1>2. plan.attempt \in 1 .. MaxAttempts /\ plan.attempt + 1 \in 1 .. MaxAttempts
  BY <1>1, PlanAssumption DEF MayRetry, Attempts
<1>3. /\ plan' \in Attempts /\ plan'.phase = "sent" /\ plan'.id = plan.id
      /\ plan'.decision = plan.decision /\ plan'.attempt = plan.attempt + 1
      /\ plan'.until = clock + Timeout /\ plan'.lost = plan.lost
  <2>1. clock + Timeout \in Nat
    BY <1>1, PlanAssumption
  <2>2. PICK until \in Nat : until = clock + Timeout
    BY <2>1
  <2>3. plan' = [plan EXCEPT !.phase = "sent", !.attempt = plan.attempt + 1, !.until = until]
    BY <1>1, <2>2
  <2>4. plan' = [phase |-> "sent", id |-> plan.id, decision |-> plan.decision,
                 attempt |-> plan.attempt + 1, until |-> until, lost |-> plan.lost]
    BY <1>1, <2>3 DEF Attempts
  <2> QED BY <1>1, <1>2, <2>2, <2>4 DEF Attempts, Underway
<1>4. InTime'
  <2>1. plan.decision.at \in Nat
    BY <1>1 DEF Attempts, Decided
  <2>2. Due(plan.attempt)' = Due(plan.attempt + 1)
    BY <1>3 DEF Due
  <2>3. /\ Due(plan.attempt + 1) = Due(plan.attempt) + Timeout + MaxWait
        /\ Due(plan.attempt) \in Int
    <3> DEFINE x == plan.decision.at
               a == plan.attempt
               u == a * Timeout
               v == (a - 1) * MaxWait
    <3>1. u \in Int /\ v \in Int /\ (a + 1) * Timeout = u + Timeout /\ ((a + 1) - 1) * MaxWait = v + MaxWait
      BY <1>2, DueNext
    <3>2. Due(a) = x + MaxAge + u + v /\ Due(a + 1) = x + MaxAge + (a + 1) * Timeout + ((a + 1) - 1) * MaxWait
      BY DEF Due
    <3>3. x \in Nat /\ {MaxAge, Timeout, MaxWait} \subseteq Nat
      BY <2>1, PlanAssumption
    <3> HIDE DEF x, a, u, v
    <3>4. Due(a + 1) = x + MaxAge + (u + Timeout) + (v + MaxWait)
      BY <3>1, <3>2
    <3> QED BY <3>1, <3>2, <3>3, <3>4 DEF a
  <2>4. clock + Timeout <= Due(plan.attempt + 1) /\ clock <= clock + Timeout
    <3> HIDE DEF Due
    <3> QED BY <1>1, <2>3, PlanAssumption
  <2> QED BY <1>1, <1>3, <2>2, <2>4 DEF InTime
<1>5. Ordered' /\ OrderFresh'
  BY <1>1, <1>3 DEF DInv, Ordered, Known, OrderFresh
<1>6. /\ \A o \in orders' : o.id \in Nat /\ o.id <= plans
      /\ \A o1, o2 \in orders' : o1.id = o2.id => o1 = o2
  BY <1>1 DEF DInv, PlanTyped, RowTellsTruth
<1> QED BY <1>1, <1>3, <1>4, <1>5, <1>6, AttemptKeeps DEF Underway

LEMMA KillPlanKeeps ==
  ASSUME DInv, KillPlan
  PROVE  DInv'
<1>1. /\ plan' = NoPlan /\ plan'.phase = "none" /\ plans' = plans /\ clock' = clock
      /\ decisions' = decisions /\ orders' = orders /\ rows' = rows
  BY DEF KillPlan, NoPlan
<1>2. PlanTyped' /\ Ordered' /\ InTime'
  BY <1>1 DEF DInv, PlanTyped, Ordered, InTime, Underway
<1> QED BY <1>1, <1>2 DEF DInv, RowTellsTruth, OrderFresh

\* Time does not pass a pending attempt's end.
LEMMA TickKeeps ==
  ASSUME DInv, Tick
  PROVE  DInv'
<1>1. /\ clock' = clock + 1 /\ plan' = plan /\ plans' = plans /\ decisions' = decisions
      /\ orders' = orders /\ rows' = rows /\ clock \in Nat
      /\ plan.phase \in Underway => clock < plan.until /\ plan.until \in Nat
  BY DEF Tick, planVars, DInv, PlanTyped, Attempts, Underway
<1>2. PlanTyped' /\ Ordered'
  BY <1>1 DEF DInv, PlanTyped, Ordered, Known
<1>3. InTime'
  BY <1>1 DEF DInv, InTime, Due, MayRetry
<1> QED BY <1>1, <1>2, <1>3 DEF DInv, RowTellsTruth, OrderFresh, Known

\* A decision is saved, or a position opens: the manual order does not notice.
LEMMA OthersKeep ==
  ASSUME DInv, clock' = clock, plan' = plan, plans' = plans, orders' = orders, rows' = rows,
         decisions' \in Seq(Decided)
  PROVE  DInv'
<1>1. PlanTyped' /\ Ordered' /\ InTime'
  BY DEF DInv, PlanTyped, Ordered, Known, InTime, Due, MayRetry
<1> QED BY <1>1 DEF DInv, RowTellsTruth, OrderFresh, Known

\* A decision is made on a market's book, now.
LEMMA DecisionsTyped ==
  ASSUME NEW mk \in Markets, NEW book \in Books, NEW true \in Books,
         NEW d \in DecisionsOn(mk, book, true), clock \in Nat
  PROVE  d \in Decided
<1>1. CASE d = WatchOn(mk)
  BY <1>1 DEF WatchOn, Decided, Costs, Evs, Offers, Outcomes
<1>2. ASSUME NEW side \in Outcomes, NEW p \in Beliefs, d = TakerOn(mk, book, true, side, p)
      PROVE  d \in Decided
  <2>1. PICK cost : cost = CostToBuy(ImpliedAsks(book, side), 1)
    OBVIOUS
  <2>2. PICK offered : offered = BestAsk([x \in Prices |-> true[Other(side)][Dollar - x]])
    OBVIOUS
  <2>3. d = [market |-> mk, at |-> clock, taker |-> TRUE, side |-> side, price |-> cost,
             ev |-> Belief(side, p) - cost, offered |-> offered]
    BY <1>2, <2>1, <2>2 DEF TakerOn
  <2>4. cost \in Costs
    BY <2>1 DEF Costs
  <2>5. Belief(side, p) - cost \in Evs
    BY <2>4 DEF Evs
  <2>6. offered \in Offers
    BY <2>2 DEF Offers
  <2> QED BY <2>3, <2>4, <2>5, <2>6 DEF Decided
<1> QED BY <1>1, <1>2 DEF DecisionsOn

LEMMA SavedTyped ==
  ASSUME DInv, NEW mk \in Markets, NEW book \in Books, NEW true \in Books,
         SaveDecision(DecisionsOn(mk, book, true))
  PROVE  decisions' \in Seq(Decided)
<1>1. PICK d \in DecisionsOn(mk, book, true) : decisions' = Append(decisions, d)
  BY DEF SaveDecision
<1>2. d \in Decided
  BY <1>1, DecisionsTyped DEF DInv, PlanTyped
<1> QED BY <1>1, <1>2 DEF DInv, PlanTyped

-----------------------------------------------------------------------------
\* Every step of the tool keeps its invariant.
LEMMA PlanKeeps ==
  ASSUME DInv, PlanNext
  PROVE  DInv'
<1>1. CASE \E m \in Modes, o, x \in BOOLEAN : Prepare(m, o, x)
  BY <1>1, PrepareKeeps
<1>2. CASE Block
  <2>1. plan # NoPlan /\ Save("BLOCKED")
    BY <1>2 DEF Block, NoPlan
  <2> QED BY <2>1, SaveKeeps
<1>3. CASE DryRun
  <2>1. plan # NoPlan /\ Save("DRY_RUN")
    BY <1>3 DEF DryRun, NoPlan
  <2> QED BY <2>1, SaveKeeps
<1>4. CASE SaveResult
  <2>1. CASE plan.phase = "ok" /\ Save("SUBMITTED")
    BY <2>1, SaveKeeps DEF NoPlan
  <2>2. CASE plan.phase = "raised" /\ Save("BLOCKED")
    BY <2>2, SaveKeeps DEF NoPlan
  <2> QED BY <1>4, <2>1, <2>2 DEF SaveResult
<1> QED BY <1>1, <1>2, <1>3, <1>4, SubmitKeeps, AnswerOkKeeps, AnswerRefusedKeeps,
           AnswerLostKeeps, RetryKeeps, KillPlanKeeps DEF PlanNext

\* The stream's steps are the stream module's, whatever else happens in them.
LEMMA StreamStep == Next => [StreamNext]_streamVars
<1> SUFFICES ASSUME Next PROVE [StreamNext]_streamVars
  OBVIOUS
<1> QED BY DEF Next, Handle, CycleDecides, PositionOpens, StreamNext, streamVars

LEMMA NextDInv == IInv /\ DInv /\ [Next]_vars => DInv'
<1> SUFFICES ASSUME IInv, DInv, [Next]_vars PROVE DInv'
  OBVIOUS
<1>1. decisions \in Seq(Decided) /\ StreamTyped /\ StreamTyped'
  <2>1. [StreamNext]_streamVars
    BY StreamStep DEF vars, streamVars
  <2> QED BY <2>1, NextIInv DEF DInv, PlanTyped, IInv
<1>2. CASE (Connect \/ Exchange \/ Disconnect) /\ UNCHANGED <<clock, decisions, planVars>>
  BY <1>1, <1>2, OthersKeep DEF planVars
<1>3. CASE Handle
  <2> DEFINE mk == Head(channel).market
  <2>1. UNCHANGED <<clock, planVars>> /\ channel # <<>> /\ sidOf' = sidOf /\ past' = past
    BY <1>3 DEF Handle, Receive
  <2>2. CASE UNCHANGED decisions
    BY <1>1, <2>1, <2>2, OthersKeep DEF planVars
  <2>3. CASE /\ states'[mk] # NoBook
             /\ SaveDecision(DecisionsOn(mk, states'[mk].book, past[sidOf[mk]][states'[mk].seq][mk]))
    <3>1. mk \in Markets
      BY SMTT(30), <1>1, <2>1 DEF StreamTyped, Messages
    <3>2. /\ states'[mk].book \in Books
          /\ states'[mk].book = past[sidOf[mk]][states'[mk].seq][mk]
      <4>1. IInv'
        BY NextIInv, StreamStep DEF vars, streamVars
      <4> QED BY ZenonT(30), <1>1, <2>1, <2>3, <3>1, <4>1 DEF IInv, BookIsTrue, StreamTyped, States
    <3>3. decisions' \in Seq(Decided)
      BY <2>3, <3>1, <3>2, SavedTyped
    <3> QED BY <2>1, <3>3, OthersKeep DEF planVars
  <2> QED BY <1>3, <2>2, <2>3 DEF Handle
<1>4. CASE \E mk \in Markets : CycleDecides(mk)
  <2>1. PICK mk \in Markets : CycleDecides(mk)
    BY <1>4
  <2>2. truth[mk] \in Books
    BY <1>1 DEF StreamTyped
  <2>3. decisions' \in Seq(Decided)
    BY <2>1, <2>2, SavedTyped DEF CycleDecides
  <2> QED BY <2>1, <2>3, OthersKeep DEF CycleDecides, planVars
<1>5. CASE \E c \in {CityOf[mk] : mk \in Markets} : PositionOpens(c)
  BY <1>1, <1>5, OthersKeep DEF PositionOpens
<1>6. CASE (PlanNext \/ Tick) /\ UNCHANGED streamVars
  BY <1>6, PlanKeeps, TickKeeps
<1>7. CASE UNCHANGED vars
  BY <1>1, <1>7, OthersKeep DEF vars, planVars
<1> QED BY <1>2, <1>3, <1>4, <1>5, <1>6, <1>7 DEF Next

-----------------------------------------------------------------------------
\* While decisions are made and orders placed, the books the program holds are the
\* exchange's books of their numbers.
THEOREM DeskBooksAreTrue == Spec => []BookIsTrue
<1>1. Init => IInv
  BY InitIInv DEF Init
<1>2. IInv /\ [Next]_vars => IInv'
  BY NextIInv, StreamStep DEF vars, streamVars
<1>3. IInv => BookIsTrue
  BY DEF IInv
<1> QED BY <1>1, <1>2, <1>3, PTL DEF Spec

\* A book is given up only after a message was lost or repeated, or because its market
\* shares its subscription: otherwise the numbers of its messages have no gap.
THEOREM GapsAreLosses == Spec => GapMeansLoss
<1>1. Init => IInv /\ LineInv
  <2>1. Init => LineInv
    BY DEF Init, StreamInit, LineInv, InLine, Places
  <2> QED BY <2>1, InitIInv DEF Init
<1>2. IInv /\ LineInv /\ [Next]_vars => IInv' /\ LineInv'
  BY NextIInv, NextLineInv, StreamStep DEF vars, streamVars
<1>3. ASSUME IInv, LineInv, [Next]_vars
      PROVE  [\A mk \in Markets :
                connected' /\ connected /\ states[mk] # NoBook /\ states'[mk] = NoBook
                  => faults > 0 \/ SharesSid(mk)]_streamVars
  <2>1. [StreamNext]_streamVars
    BY <1>3, StreamStep DEF vars, streamVars
  <2> QED BY <1>3, <2>1, GapStep
<1> QED BY <1>1, <1>2, <1>3, PTL DEF Spec, GapMeansLoss

\* Whatever book the program comes to hold, executable_wap_for_buy buys each side of it
\* as cheaply as any way of buying does.
THEOREM FillsAreCheapest == Spec => CheapestFill
<1>1. Init => IInv
  BY InitIInv DEF Init
<1>2. IInv /\ [Next]_vars => IInv'
  BY NextIInv, StreamStep DEF vars, streamVars
<1>3. ASSUME IInv'
      PROVE  [\A mk \in Markets, side \in Outcomes :
                states'[mk] # states[mk] /\ states'[mk] # NoBook =>
                  \A q \in 1 .. MaxSize + 1 : \E asks \in {ImpliedAsks(states'[mk].book, side)} :
                    CostToBuy(asks, q) = LeastCost(asks, q)]_streamVars
  <2> SUFFICES ASSUME NEW mk \in Markets, NEW side \in Outcomes, states'[mk] # NoBook,
                      NEW q \in 1 .. MaxSize + 1
               PROVE  \E asks \in {ImpliedAsks(states'[mk].book, side)} :
                        CostToBuy(asks, q) = LeastCost(asks, q)
    OBVIOUS
  <2>1. states'[mk].book \in Books
    BY <1>3 DEF IInv, StreamTyped, States
  <2>2. PICK asks \in Ladders : asks = ImpliedAsks(states'[mk].book, side)
    BY <2>1, AsksAreLadder
  <2>3. q \in Nat \ {0}
    BY StreamAssumption
  <2> QED BY <2>2, <2>3, WalkIsCheapest
<1> QED BY <1>1, <1>2, <1>3, PTL DEF Spec, CheapestFill

LEMMA DeskInv == Spec => [](IInv /\ DInv)
<1>1. Init => IInv /\ DInv
  BY InitIInv, DInitInv DEF Init
<1>2. IInv /\ DInv /\ [Next]_vars => IInv' /\ DInv'
  <2>1. IInv /\ [Next]_vars => IInv'
    BY NextIInv, StreamStep DEF vars, streamVars
  <2> QED BY <2>1, NextDInv
<1> QED BY <1>1, <1>2, PTL DEF Spec

\* No plan is ordered twice, a SUBMITTED row stands for an order, and a failed plan whose
\* answers all came has none: however many attempts time out after the exchange acted.
THEOREM RowsTellTruth == Spec => []RowTellsTruth
<1>1. DInv => RowTellsTruth
  BY DEF DInv
<1> QED BY DeskInv, <1>1, PTL

\* No order reaches the exchange later than its decision's age, the attempts' timeouts
\* and the waits between them allow.
THEOREM OrdersAreFresh == Spec => []OrderFresh
<1>1. DInv => OrderFresh
  BY DEF DInv
<1> QED BY DeskInv, <1>1, PTL

-----------------------------------------------------------------------------
(* The decision the manual tool acts on *)

\* The store keeps the decisions in the order of their times.
TimeOrdered ==
  /\ \A i \in DOMAIN decisions : decisions[i].at <= clock
  /\ \A i, j \in DOMAIN decisions : i < j => decisions[i].at <= decisions[j].at

LEMMA StoredAt == ASSUME DInv PROVE \A i \in DOMAIN decisions : decisions[i].at \in Nat
<1>1. \A i \in DOMAIN decisions : decisions[i] \in Decided
  BY DEF DInv, PlanTyped
<1> QED BY <1>1 DEF Decided

\* Within the last minutes of a city a decision has all later ones of its market.
LEMMA ChosenIsNewest ==
  ASSUME DInv, TimeOrdered, NEW mode \in Modes, NEW o \in BOOLEAN, NEW i \in Chosen(mode, o),
         NEW j \in DOMAIN decisions, decisions[j].market = decisions[i].market
  PROVE  j <= i
<1> DEFINE Recent(c) == AtMost({k \in DOMAIN decisions : City(k) = c}, Window)
           U == UNION {Recent(c) : c \in {City(k) : k \in DOMAIN decisions}}
<1>1. i \in DOMAIN decisions /\ i \in Nat /\ j \in Nat
  BY ChosenIsStored DEF DInv, PlanTyped
<1>2. \A k \in DOMAIN decisions : decisions[k].at \in Nat
  BY StoredAt
<1>3. i \in LatestOfMarket(U)
  <2>1. \A excluded : Scannable(mode, excluded) \subseteq LatestOfMarket(U)
    BY DEF Scannable, OfMode, Modes, LatestCycle
  <2>2. \A S : Best(TakersOf(S)) \subseteq S
    BY DEF Best, TakersOf, AtMost
  <2>3. \A excluded : Selected(mode, excluded) \subseteq Scannable(mode, excluded)
    BY <2>2 DEF Selected
  <2> QED BY <2>1, <2>3 DEF Chosen
<1>4. PICK c \in {City(k) : k \in DOMAIN decisions} : i \in Recent(c)
  BY <1>3 DEF LatestOfMarket
<1>5. SUFFICES ASSUME i < j PROVE j \in U
  BY <1>1, <1>3 DEF LatestOfMarket
<1>6. City(i) = c /\ City(j) = c /\ decisions[i].at <= decisions[j].at
  BY <1>1, <1>4, <1>5 DEF AtMost, City, TimeOrdered
<1>7. ASSUME NEW k \in DOMAIN decisions, City(k) = c
      PROVE  decisions[k].at - decisions[j].at <= Window
  <2>1. decisions[k].at - decisions[i].at <= Window /\ Window \in Nat
    BY <1>4, <1>7, PlanAssumption DEF AtMost
  <2> QED BY <1>1, <1>2, <1>6, <2>1
<1>8. j \in Recent(c)
  BY <1>6, <1>7 DEF AtMost
<1> QED BY <1>4, <1>8

\* A decision bears the time at which it is saved.
LEMMA SavedInOrder ==
  ASSUME DInv, TimeOrdered, clock' = clock, NEW mk, NEW book, NEW there,
         SaveDecision(DecisionsOn(mk, book, there))
  PROVE  TimeOrdered'
<1>1. PICK d \in DecisionsOn(mk, book, there) : decisions' = Append(decisions, d)
  BY DEF SaveDecision
<1>2. d.at = clock
  <2>1. CASE d = WatchOn(mk)
    BY <2>1 DEF WatchOn
  <2>2. ASSUME NEW side \in Outcomes, NEW p \in Beliefs, d = TakerOn(mk, book, there, side, p)
        PROVE  d.at = clock
    <3>1. PICK cost : cost = CostToBuy(ImpliedAsks(book, side), 1)
      OBVIOUS
    <3>2. PICK offered : offered = BestAsk([x \in Prices |-> there[Other(side)][Dollar - x]])
      OBVIOUS
    <3>3. d = [market |-> mk, at |-> clock, taker |-> TRUE, side |-> side, price |-> cost,
               ev |-> Belief(side, p) - cost, offered |-> offered]
      BY <2>2, <3>1, <3>2 DEF TakerOn
    <3> QED BY <3>3
  <2> QED BY <1>1, <2>1, <2>2 DEF DecisionsOn
<1> DEFINE n == Len(decisions)
<1>3. /\ n \in Nat /\ DOMAIN decisions = 1 .. n /\ DOMAIN decisions' = 1 .. n + 1
      /\ decisions'[n + 1] = d /\ \A i \in 1 .. n : decisions'[i] = decisions[i]
      /\ clock \in Nat
  <2>1. decisions \in Seq(Decided \union {d}) /\ clock \in Nat
    BY DEF DInv, PlanTyped
  <2> QED BY <1>1, <2>1
<1>4. ASSUME NEW i \in DOMAIN decisions' PROVE decisions'[i].at <= clock'
  <2>1. i \in 1 .. n \/ i = n + 1
    BY <1>3
  <2> QED BY <1>2, <1>3, <2>1 DEF TimeOrdered
<1>5. ASSUME NEW i \in DOMAIN decisions', NEW j \in DOMAIN decisions', i < j
      PROVE  decisions'[i].at <= decisions'[j].at
  <2>1. i \in 1 .. n /\ (j \in 1 .. n \/ j = n + 1)
    BY <1>3, <1>5
  <2> QED BY <1>2, <1>3, <1>5, <2>1 DEF TimeOrdered
<1> QED BY <1>4, <1>5 DEF TimeOrdered

LEMMA NextTimeOrdered == DInv /\ TimeOrdered /\ [Next]_vars => TimeOrdered'
<1> SUFFICES ASSUME DInv, TimeOrdered, [Next]_vars PROVE TimeOrdered'
  OBVIOUS
<1>1. ASSUME decisions' = decisions, clock' = clock PROVE TimeOrdered'
  BY <1>1 DEF TimeOrdered
<1>2. CASE Handle
  BY <1>1, <1>2, SavedInOrder DEF Handle
<1>3. CASE \E mk \in Markets : CycleDecides(mk)
  BY <1>3, SavedInOrder DEF CycleDecides
<1>4. CASE Tick
  <2>1. decisions' = decisions /\ clock' = clock + 1 /\ clock \in Nat
    BY <1>4 DEF Tick, DInv, PlanTyped
  <2>2. \A i \in DOMAIN decisions : decisions[i].at \in Nat
    BY StoredAt
  <2> QED BY <2>1, <2>2 DEF TimeOrdered
<1>5. CASE PlanNext
  BY <1>1, <1>5 DEF PlanNext, Prepare, Block, DryRun, Submit, AnswerOk, AnswerRefused,
                    AnswerLost, Retry, SaveResult, Save, KillPlan
<1>6. CASE UNCHANGED <<clock, decisions>>
  BY <1>1, <1>6
<1> QED BY <1>2, <1>3, <1>4, <1>5, <1>6 DEF Next, PositionOpens, vars

\* The manual tool acts on the newest decision of its market, whichever city and mode it
\* selects by: a later refusal is never passed over for an earlier permission.
THEOREM NewestIsChosen == Spec => NewestDecisionDecides
<1>1. Init => TimeOrdered
  BY DEF Init, PlanInit, TimeOrdered
<1>2. ASSUME DInv, TimeOrdered, [Next]_vars
      PROVE  [plan = NoPlan /\ plan' # NoPlan =>
                \A i \in DOMAIN decisions :
                  decisions[i].market = plan'.decision.market => i <= plan'.index]_<<plan, decisions>>
  <2> SUFFICES ASSUME plan = NoPlan, plan' # NoPlan, NEW j \in DOMAIN decisions,
                      decisions[j].market = plan'.decision.market
               PROVE  j <= plan'.index
    OBVIOUS
  <2>1. PlanNext
    BY <1>2 DEF Next, Handle, CycleDecides, PositionOpens, Tick, planVars, vars
  <2>2. PICK m \in Modes, o \in BOOLEAN, x \in BOOLEAN : Prepare(m, o, x)
    BY <2>1 DEF PlanNext, Block, DryRun, Submit, AnswerOk, AnswerRefused, AnswerLost, Retry,
                SaveResult, Save, KillPlan, NoPlan
  <2>3. PICK i \in Chosen(m, o) :
          plan' = [phase |-> "selected", id |-> plans + 1, index |-> i,
                   decision |-> decisions[i], execute |-> x]
    BY <2>2 DEF Prepare
  <2>4. plan'.decision = decisions[i] /\ plan'.index = i
    BY <2>3
  <2> QED BY <1>2, <2>2, <2>3, <2>4, ChosenIsNewest
<1> QED BY <1>1, <1>2, DeskInv, NextTimeOrdered, PTL DEF Spec, NewestDecisionDecides

-----------------------------------------------------------------------------
(* The price of an order *)

\* A taker's price is the book's; and only takers are sent.
Honest(d) == d.taker => d.price = d.offered

PInv ==
  /\ \A i \in DOMAIN decisions : Honest(decisions[i])
  /\ plan # NoPlan => Honest(plan.decision)
  /\ plan.phase \in Underway \union {"ok", "raised"} => plan.decision.taker
  /\ PriceWasOffered
  /\ clock \in 0 .. MaxTime /\ openCities \subseteq {CityOf[mk] : mk \in Markets}
  /\ plan.phase \in {"none", "selected", "sent", "waiting", "ok", "raised"}

\* On a true book, the price a decision states is the price on offer.
LEMMA DecisionsHonest ==
  ASSUME NEW mk \in Markets, NEW book \in Books, NEW d \in DecisionsOn(mk, book, book)
  PROVE  Honest(d)
<1>1. CASE d = WatchOn(mk)
  BY <1>1 DEF WatchOn, Honest
<1>2. ASSUME NEW side \in Outcomes, NEW p \in Beliefs, d = TakerOn(mk, book, book, side, p)
      PROVE  Honest(d)
  <2>1. PICK asks \in Ladders : asks = ImpliedAsks(book, side)
    BY AsksAreLadder
  <2>2. CostToBuy(asks, 1) = BestAsk(asks)
    BY OneContract
  <2>3. d.price = CostToBuy(asks, 1) /\ d.offered = BestAsk(asks)
    BY <1>2, <2>1 DEF TakerOn, ImpliedAsks
  <2> QED BY <2>2, <2>3 DEF Honest
<1> QED BY <1>1, <1>2 DEF DecisionsOn

LEMMA SavedHonest ==
  ASSUME DInv, PInv, NEW mk \in Markets, NEW book \in Books,
         SaveDecision(DecisionsOn(mk, book, book))
  PROVE  \A i \in DOMAIN decisions' : Honest(decisions'[i])
<1>1. PICK d \in DecisionsOn(mk, book, book) : decisions' = Append(decisions, d)
  BY DEF SaveDecision
<1>2. Honest(d)
  BY <1>1, DecisionsHonest
<1>3. decisions \in Seq(Decided) /\ \A i \in DOMAIN decisions : Honest(decisions[i])
  BY DEF DInv, PlanTyped, PInv
<1> QED BY <1>1, <1>2, <1>3

\* An order is placed at the price of the plan's decision.
LEMMA AcceptedHonest ==
  ASSUME PInv, plan.phase = "sent", Accepted
  PROVE  PriceWasOffered'
<1>1. PICK new : /\ new.price = plan.decision.price /\ new.offered = plan.decision.offered
                 /\ orders' = orders \union {new}
  BY DEF Accepted
<1>2. plan.decision.price = plan.decision.offered
  BY DEF PInv, Honest, Underway, NoPlan
<1> QED BY <1>1, <1>2 DEF PInv, PriceWasOffered

LEMMA PlanHonest ==
  ASSUME DInv, PInv, PlanNext
  PROVE  PInv'
<1>1. decisions' = decisions /\ clock' = clock /\ openCities' = openCities
  BY DEF PlanNext, Prepare, Block, DryRun, Submit, AnswerOk, AnswerRefused, AnswerLost,
         Retry, SaveResult, Save, KillPlan
<1> DEFINE PlanKept == /\ plan' # NoPlan => Honest(plan'.decision)
                       /\ plan'.phase \in Underway \union {"ok", "raised"} => plan'.decision.taker
                       /\ plan'.phase \in {"none", "selected", "sent", "waiting", "ok", "raised"}
<1>2. PlanKept /\ PriceWasOffered' => PInv'
  BY <1>1 DEF PInv, Honest
<1>3. plan' = NoPlan => PlanKept
  BY DEF NoPlan, Underway
<1>4. ASSUME plan.phase \in Underway, plan'.decision = plan.decision,
             plan'.phase \in Underway \union {"ok", "raised"}
      PROVE  PlanKept
  BY <1>4 DEF PInv, Honest, Underway, NoPlan
<1>5. CASE \E m \in Modes, o, x \in BOOLEAN : Prepare(m, o, x)
  <2>1. PICK m \in Modes, o \in BOOLEAN, x \in BOOLEAN : Prepare(m, o, x)
    BY <1>5
  <2>2. PICK i \in Chosen(m, o) :
          plan' = [phase |-> "selected", id |-> plans + 1, index |-> i,
                   decision |-> decisions[i], execute |-> x]
    BY <2>1 DEF Prepare
  <2>3. Honest(decisions[i])
    BY <2>2, ChosenIsStored DEF PInv
  <2>4. plan'.phase = "selected" /\ plan'.decision = decisions[i]
    BY <2>2
  <2>5. PlanKept
    BY <2>3, <2>4 DEF Underway
  <2>6. PriceWasOffered'
    BY <2>1 DEF Prepare, PInv, PriceWasOffered
  <2> QED BY <1>2, <2>5, <2>6
<1>6. CASE \E status \in {"SUBMITTED", "BLOCKED", "DRY_RUN"} : Save(status)
  BY <1>2, <1>3, <1>6 DEF Save, PInv, PriceWasOffered
<1>7. CASE Submit
  <2>1. plan.phase = "selected" /\ plan.decision.taker /\ orders' = orders
        /\ plan'.phase = "sent" /\ plan'.decision = plan.decision /\ plan # NoPlan
    BY <1>7 DEF Submit, Submittable, NoPlan
  <2> QED BY <1>2, <2>1 DEF PInv, Honest, PriceWasOffered, Underway
<1>8. CASE AnswerOk
  <2>1. /\ plan.phase = "sent" /\ Accepted /\ plan \in Attempts
        /\ plan' = [plan EXCEPT !.phase = "ok"]
    BY <1>8 DEF AnswerOk, DInv, PlanTyped, Underway
  <2>2. plan'.phase = "ok" /\ plan'.decision = plan.decision
    BY <2>1 DEF Attempts
  <2> QED BY <1>2, <1>4, <2>1, <2>2, AcceptedHonest DEF Underway
<1>9. CASE AnswerRefused
  <2>1. /\ plan.phase = "sent" /\ orders' = orders /\ plan \in Attempts
        /\ plan' = [plan EXCEPT !.phase = "raised"]
    BY <1>9 DEF AnswerRefused, DInv, PlanTyped, Underway
  <2>2. plan'.phase = "raised" /\ plan'.decision = plan.decision
    BY <2>1 DEF Attempts
  <2> QED BY <1>2, <1>4, <2>1, <2>2 DEF PInv, PriceWasOffered, Underway
<1>10. CASE AnswerLost
  <2>1. plan.phase = "sent" /\ plan \in Attempts
    BY <1>10 DEF AnswerLost, DInv, PlanTyped, Underway
  <2>2. PriceWasOffered'
    BY <1>10, <2>1, AcceptedHonest DEF AnswerLost, PInv, PriceWasOffered
  <2>3. \E lost : plan' \in Retried(lost)
    BY <1>10 DEF AnswerLost
  <2>4. plan'.phase \in {"waiting", "raised"} /\ plan'.decision = plan.decision
    BY <2>1, <2>3 DEF Retried, Attempts
  <2> QED BY <1>2, <1>4, <2>1, <2>2, <2>4 DEF Underway
<1>11. CASE Retry
  <2>1. /\ plan.phase = "waiting" /\ orders' = orders /\ plan \in Attempts
        /\ plan' = [plan EXCEPT !.phase = "sent", !.attempt = @ + 1, !.until = clock + Timeout]
    BY <1>11 DEF Retry, DInv, PlanTyped, Underway
  <2>2. plan'.phase = "sent" /\ plan'.decision = plan.decision
    BY <2>1 DEF Attempts
  <2> QED BY <1>2, <1>4, <2>1, <2>2 DEF PInv, PriceWasOffered, Underway
<1>12. CASE KillPlan
  BY <1>2, <1>3, <1>12 DEF KillPlan, PInv, PriceWasOffered
<1> QED BY <1>5, <1>6, <1>7, <1>8, <1>9, <1>10, <1>11, <1>12
        DEF PlanNext, Block, DryRun, SaveResult

LEMMA NextPInv == IInv /\ DInv /\ PInv /\ [Next]_vars => PInv'
<1> SUFFICES ASSUME IInv, DInv, PInv, [Next]_vars PROVE PInv'
  OBVIOUS
<1>0. IInv' /\ StreamTyped
  <2>1. [StreamNext]_streamVars
    BY StreamStep DEF vars, streamVars
  <2> QED BY <2>1, NextIInv DEF IInv
<1>1. ASSUME plan' = plan, orders' = orders, clock' \in 0 .. MaxTime,
             openCities' \subseteq {CityOf[mk] : mk \in Markets},
             \A i \in DOMAIN decisions' : Honest(decisions'[i])
      PROVE  PInv'
  BY <1>1 DEF PInv, PriceWasOffered, Honest
<1>2. CASE (Connect \/ Exchange \/ Disconnect) /\ UNCHANGED <<clock, decisions, planVars>>
  BY <1>1, <1>2 DEF PInv, planVars
<1>3. CASE Handle
  <2> DEFINE mk == Head(channel).market
  <2>1. UNCHANGED <<clock, planVars>> /\ channel # <<>> /\ sidOf' = sidOf /\ past' = past
    BY <1>3 DEF Handle, Receive
  <2>2. CASE UNCHANGED decisions
    BY <1>1, <2>1, <2>2 DEF planVars, PInv
  <2>3. CASE /\ states'[mk] # NoBook
             /\ SaveDecision(DecisionsOn(mk, states'[mk].book, past[sidOf[mk]][states'[mk].seq][mk]))
    <3>1. mk \in Markets
      BY SMTT(30), <1>0, <2>1 DEF StreamTyped, Messages
    <3>2. PICK book \in Books : /\ book = states'[mk].book
                                /\ book = past[sidOf[mk]][states'[mk].seq][mk]
      BY ZenonT(30), <1>0, <2>1, <2>3, <3>1 DEF IInv, BookIsTrue, StreamTyped, States
    <3>3. SaveDecision(DecisionsOn(mk, book, book))
      BY <2>3, <3>2
    <3>4. \A i \in DOMAIN decisions' : Honest(decisions'[i])
      BY <3>1, <3>3, SavedHonest
    <3> QED BY <1>1, <2>1, <3>4 DEF planVars, PInv
  <2> QED BY <1>3, <2>2, <2>3 DEF Handle
<1>4. CASE \E mk \in Markets : CycleDecides(mk)
  <2>1. PICK mk \in Markets : CycleDecides(mk)
    BY <1>4
  <2>2. truth[mk] \in Books
    BY <1>0 DEF StreamTyped
  <2>3. \A i \in DOMAIN decisions' : Honest(decisions'[i])
    BY <2>1, <2>2, SavedHonest DEF CycleDecides
  <2> QED BY <1>1, <2>1, <2>3 DEF CycleDecides, planVars, PInv
<1>5. CASE \E c \in {CityOf[mk] : mk \in Markets} : PositionOpens(c)
  BY <1>1, <1>5 DEF PositionOpens, PInv
<1>6. CASE PlanNext
  BY <1>6, PlanHonest
<1>7. CASE Tick
  <2>1. clock \in 0 .. MaxTime /\ clock < MaxTime /\ clock' = clock + 1 /\ MaxTime \in Nat
    BY <1>7, PlanAssumption DEF Tick, PInv
  <2>2. clock' \in 0 .. MaxTime
    BY <2>1
  <2> QED BY <1>1, <1>7, <2>2 DEF Tick, planVars, PInv
<1>8. CASE UNCHANGED vars
  BY <1>1, <1>8 DEF vars, planVars, PInv
<1> QED BY <1>2, <1>3, <1>4, <1>5, <1>6, <1>7, <1>8 DEF Next

LEMMA DeskPInv == Spec => [](IInv /\ DInv /\ PInv)
<1>1. Init => IInv /\ DInv /\ PInv
  <2>1. Init => IInv /\ DInv
    BY InitIInv, DInitInv DEF Init
  <2>2. Init => PInv
    BY PlanAssumption
       DEF Init, PlanInit, PInv, PriceWasOffered, NoPlan, Underway
  <2> QED BY <2>1, <2>2
<1>2. IInv /\ DInv /\ PInv /\ [Next]_vars => IInv' /\ DInv' /\ PInv'
  <2>1. IInv /\ [Next]_vars => IInv'
    BY NextIInv, StreamStep DEF vars, streamVars
  <2> QED BY <2>1, NextDInv, NextPInv
<1> QED BY <1>1, <1>2, PTL DEF Spec

\* No order is placed at a price the exchange did not offer when its decision was made:
\* the book decided on is true, and one contract of it costs its best offer.
THEOREM PricesWereOffered == Spec => []PriceWasOffered
<1>1. PInv => PriceWasOffered
  BY DEF PInv
<1> QED BY DeskPInv, <1>1, PTL

\* The variables keep their types.
THEOREM TypeCorrect == Spec => []TypeOK
<1>1. IInv /\ DInv /\ PInv => TypeOK
  <2> SUFFICES ASSUME IInv, DInv, PInv PROVE TypeOK
    OBVIOUS
  <2>1. /\ truth \in [Markets -> Books] /\ states \in [Markets -> States]
        /\ past \in [Sids -> Seq([Markets -> Books])]
    BY DEF IInv, StreamTyped
  <2>2. plan.phase \in {"sent", "waiting"} => plan.attempt \in 1 .. MaxAttempts
    BY DEF DInv, PlanTyped, Underway, Attempts
  <2>3. \A i \in DOMAIN rows : rows[i].status \in {"SUBMITTED", "BLOCKED", "DRY_RUN"}
    <3>1. \A i \in DOMAIN rows : rows[i] \in Rows
      BY DEF DInv, PlanTyped
    <3> QED BY <3>1 DEF Rows
  <2> QED BY <2>1, <2>2, <2>3 DEF PInv, TypeOK
<1> QED BY DeskPInv, <1>1, PTL
=============================================================================
