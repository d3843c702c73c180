-------------------------- MODULE MarketData_proofs --------------------------
(***************************************************************************)
(* Proofs that the exchange's subscriptions follow the universe, that the  *)
(* handler's ticks are the exchange's, and that its tracker catches up     *)
(* with the exchange's books, for every set of products and quotes, every  *)
(* capacity of the queue, and every order of changes, updates of the       *)
(* universe and messages that do not parse.                                *)
(***************************************************************************)
EXTENDS MarketData, SequenceTheorems, FiniteSetTheorems, TLAPS

(* The messages of the two directions of the web socket. *)
Requests == [type : {"subscribe", "unsubscribe"}, products : SUBSET Products, whole : BOOLEAN]

Answers == [type : {"subscriptions", "error"}]
Snapshots ==
  [type : {"snapshot"}, product : Products, bid : Quotes \cup {Absent},
   ask : Quotes \cup {Absent}, parsable : BOOLEAN]
Updates ==
  [type : {"l2update"}, product : Products, side : Sides, quote : Quotes,
   parsable : BOOLEAN, book : Books]
Trades == [type : {"ticker"}, product : Products, price : Quotes, parsable : BOOLEAN]

Messages == Answers \cup Snapshots \cup Updates \cup Trades

ExchangeTypes ==
  /\ book \in [Products -> Books]
  /\ subscribed \subseteq Products
  /\ requests \in Seq(Requests)
  /\ feed \in Seq(Messages)
  /\ changes \in 0 .. MaxChanges
  /\ errors \in 0 .. MaxErrors
  /\ refused \subseteq Products

MainTypes ==
  /\ currentUniverse \subseteq Products /\ target \subseteq Products
  /\ main \in {"ready", "unsubscribed", "replaced"}
  /\ updates \in 0 .. MaxUpdates
  /\ dirty \subseteq Products

Types == HandlerTypeOK /\ ExchangeTypes /\ MainTypes

-----------------------------------------------------------------------------
(* What is appended to the feed                                            *)

(* The answer to a subscription: what was under way, then an acknowledgement *)
(* and a snapshot of each product.                                         *)
LEMMA SubscriptionAnswer ==
  ASSUME Types, NEW products \in SUBSET Products, ServeSubscribe(products)
  PROVE  /\ feed' \in Seq(Messages)
         /\ Len(feed) < Len(feed')
         /\ \A i \in 1 .. Len(feed) : feed'[i] = feed[i]
         /\ \A i \in Len(feed) + 1 .. Len(feed') :
              \/ feed'[i].type = "subscriptions"
              \/ \E p \in products, ok \in BOOLEAN : feed'[i] = Snapshot(p, ok)
         /\ \A p \in products : \E i \in Len(feed) + 1 .. Len(feed') :
              \E ok \in BOOLEAN : feed'[i] = Snapshot(p, ok)
<1> DEFINE n == Cardinality(products)
<1>1. PICK order \in [1 .. n -> products], bad \in SUBSET products :
        /\ \A i, j \in DOMAIN order : i # j => order[i] # order[j]
        /\ feed' = feed \o <<[type |-> "subscriptions"]>>
                     \o [i \in DOMAIN order |-> Snapshot(order[i], order[i] \notin bad)]
  BY DEF ServeSubscribe
<1>2. IsFiniteSet(products) /\ n \in Nat
  BY BoundsAssumption, FS_Subset, FS_CardinalityType
<1> HIDE DEF n
<1> DEFINE ack == <<[type |-> "subscriptions"]>>
           snapshots == [i \in 1 .. n |-> Snapshot(order[i], order[i] \notin bad)]
<1>3. ack \in Seq(Messages) /\ Len(ack) = 1 /\ ack[1] = [type |-> "subscriptions"]
  BY DEF Messages, Answers
<1>4. \A p \in Products, ok \in BOOLEAN : Snapshot(p, ok) \in Messages
  BY DEF Snapshot, Messages, Snapshots, Types, ExchangeTypes, Books
<1>5. snapshots \in [1 .. n -> Messages]
  BY <1>1, <1>4
<1>6. /\ snapshots \in Seq(Messages) /\ Len(snapshots) = n
      /\ \A i \in 1 .. n : snapshots[i] = Snapshot(order[i], order[i] \notin bad)
  BY <1>2, <1>5
<1>7. feed' = (feed \o ack) \o snapshots
  BY <1>1
<1>8. feed \in Seq(Messages) /\ Len(feed) \in Nat
  BY LenProperties DEF Types, ExchangeTypes
<1> HIDE DEF ack, snapshots
<1>9. /\ feed \o ack \in Seq(Messages) /\ Len(feed \o ack) = Len(feed) + 1
      /\ \A i \in 1 .. Len(feed) : (feed \o ack)[i] = feed[i]
      /\ (feed \o ack)[Len(feed) + 1] = [type |-> "subscriptions"]
  <2>1. /\ feed \o ack \in Seq(Messages) /\ Len(feed \o ack) = Len(feed) + Len(ack)
        /\ \A i \in 1 .. Len(feed) + Len(ack) :
             (feed \o ack)[i] = IF i <= Len(feed) THEN feed[i] ELSE ack[i - Len(feed)]
    BY <1>3, <1>8, ConcatProperties
  <2> QED
    BY <2>1, <1>3, <1>8
<1>10. /\ feed' \in Seq(Messages) /\ Len(feed') = Len(feed) + 1 + n
       /\ \A i \in 1 .. Len(feed) + 1 : feed'[i] = (feed \o ack)[i]
       /\ \A i \in Len(feed) + 2 .. Len(feed') : feed'[i] = snapshots[i - (Len(feed) + 1)]
  <2> DEFINE front == feed \o ack
  <2>1. front \in Seq(Messages) /\ Len(front) = Len(feed) + 1
    BY <1>9
  <2> HIDE DEF front
  <2>2. /\ front \o snapshots \in Seq(Messages)
        /\ Len(front \o snapshots) = Len(front) + Len(snapshots)
        /\ \A i \in 1 .. Len(front) + Len(snapshots) :
             (front \o snapshots)[i] = IF i <= Len(front) THEN front[i]
                                                         ELSE snapshots[i - Len(front)]
    BY <1>6, <2>1, ConcatProperties
  <2>3. feed' = front \o snapshots
    BY <1>7 DEF front
  <2>4. /\ feed' \in Seq(Messages) /\ Len(feed') = Len(feed) + 1 + n
        /\ \A i \in 1 .. Len(feed) + 1 : feed'[i] = front[i]
        /\ \A i \in Len(feed) + 2 .. Len(feed') : feed'[i] = snapshots[i - (Len(feed) + 1)]
    BY <1>2, <1>6, <1>8, <2>1, <2>2, <2>3
  <2> QED
    BY <2>4 DEF front
<1>11. ASSUME NEW i \in Len(feed) + 2 .. Len(feed')
       PROVE  /\ i - (Len(feed) + 1) \in 1 .. n
              /\ feed'[i] = Snapshot(order[i - (Len(feed) + 1)],
                                     order[i - (Len(feed) + 1)] \notin bad)
  BY <1>2, <1>6, <1>8, <1>10
<1>12. ASSUME NEW i \in Len(feed) + 1 .. Len(feed')
       PROVE  \/ feed'[i].type = "subscriptions"
              \/ \E p \in products, ok \in BOOLEAN : feed'[i] = Snapshot(p, ok)
  <2>1. CASE i = Len(feed) + 1
    BY <2>1, <1>8, <1>9, <1>10
  <2>2. CASE i \in Len(feed) + 2 .. Len(feed')
    BY <2>2, <1>1, <1>11
  <2> QED
    BY <2>1, <2>2, <1>2, <1>8, <1>10
<1>13. order \in Surjection(1 .. n, products)
  <2>1. order \in Injection(1 .. n, products)
    BY <1>1 DEF Injection, IsInjective
  <2>2. IsFiniteSet(1 .. n) /\ Cardinality(1 .. n) = Cardinality(products)
    BY <1>2, FS_Interval DEF n
  <2> QED
    BY <2>1, <2>2, <1>2, FS_Injection
<1>14. ASSUME NEW p \in products
       PROVE  \E i \in Len(feed) + 1 .. Len(feed') :
                \E ok \in BOOLEAN : feed'[i] = Snapshot(p, ok)
  <2>1. PICK k \in 1 .. n : order[k] = p
    BY <1>13 DEF Surjection
  <2>2. k + (Len(feed) + 1) \in Len(feed) + 2 .. Len(feed')
    BY <1>2, <1>8, <1>10
  <2>3. feed'[k + (Len(feed) + 1)] = Snapshot(p, p \notin bad)
    BY <2>1, <2>2, <1>8, <1>11
  <2> QED
    <3>1. k + (Len(feed) + 1) \in Len(feed) + 1 .. Len(feed')
      BY <2>2, <1>2, <1>8, <1>10
    <3> QED
      BY <2>3, <3>1
<1> QED
  BY <1>2, <1>8, <1>9, <1>10, <1>12, <1>14

-----------------------------------------------------------------------------
(* Types                                                                   *)

(* Everything starts empty. *)
LEMMA InitTypes == Init => Types
<1> SUFFICES ASSUME Init
             PROVE  Types
  OBVIOUS
<1> USE DEF Init
<1>1. HandlerTypeOK
  BY HandlerAssumption DEF HandlerInit, HandlerTypeOK
<1>2. book \in [Products -> Books]
  BY BoundsAssumption
<1>3. ExchangeTypes
  BY <1>2, BoundsAssumption DEF ExchangeTypes
<1>4. MainTypes
  BY BoundsAssumption DEF MainTypes
<1> QED
  BY <1>1, <1>3, <1>4 DEF Types

(* An event goes to the end of the queue if there is room. *)
LEMMA EnqueueTypes ==
  ASSUME HandlerTypeOK, NEW e \in Events, Enqueue(e)
  PROVE  eventQueue' \in Seq(Events) /\ Len(eventQueue') <= Capacity
BY HandlerAssumption DEF HandlerTypeOK, Enqueue

(* The messages of the feed are of market data. *)
LEMMA HeadIsMessage ==
  ASSUME Types, feed # <<>>
  PROVE  /\ Head(feed) \in Messages /\ Head(feed) = feed[1]
         /\ Tail(feed) \in Seq(Messages) /\ Len(Tail(feed)) = Len(feed) - 1
         /\ \A i \in 1 .. Len(Tail(feed)) : Tail(feed)[i] = feed[i + 1]
         /\ Len(feed) \in Nat /\ Len(feed) > 0
         /\ Tail(feed) # feed
<1>1. feed \in Seq(Messages)
  BY DEF Types, ExchangeTypes
<1>2. Len(Tail(feed)) = Len(feed) - 1 /\ Len(feed) \in Nat
  BY <1>1, HeadTailProperties
<1>3. Len(Tail(feed)) # Len(feed)
  <2> DEFINE n == Len(Tail(feed))
             k == Len(feed)
  <2>1. n = k - 1 /\ k \in Nat
    BY <1>2
  <2> HIDE DEF n, k
  <2>2. n # k
    BY <2>1
  <2> QED
    BY <2>2 DEF n, k
<1>4. Tail(feed) # feed
  BY <1>3, Zenon
<1> QED
  BY <1>1, <1>4, HeadTailProperties, EmptySeq

(* A message leaves the handler in order, and is one of three. *)
LEMMA HandlerCases ==
  ASSUME Types, NEW m \in Messages, OnMessage(m)
  PROVE  \/ m \in Snapshots /\ HandleSnapshot(m)
         \/ m \in Updates /\ HandleTick(m)
         \/ m \in Trades /\ HandleTrade(m)
         \/ UNCHANGED handlerVars /\ m \in Answers
BY DEF OnMessage, Messages, Answers, Snapshots, Updates, Trades, Drop

(* The tick after an update is a tick. *)
LEMMA NextTickType ==
  ASSUME NEW t \in Ticks, NEW m \in Updates
  PROVE  NextTick(t, m) \in Ticks
BY DEF Ticks, Updates, NextTick

(* Every handler keeps the types of the handler's state. *)
LEMMA MessageTypes ==
  ASSUME Types, NEW m \in Messages, OnMessage(m)
  PROVE  HandlerTypeOK'
<1>1. HandlerTypeOK
  BY DEF Types
<1>2. CASE m \in Snapshots /\ HandleSnapshot(m)
  <2>1. Absent \notin {m.bid, m.ask} =>
          /\ m.product \in Products
          /\ [bid |-> m.bid, ask |-> m.ask, isBuySide |-> TRUE] \in Ticks
    BY <1>2 DEF Snapshots, Ticks
  <2> QED
    BY <1>1, <1>2, <2>1 DEF HandlerTypeOK, HandleSnapshot, Drop, Abort, handlerVars
<1>3. CASE m \in Updates /\ HandleTick(m)
  <2>1. m.product \in Products
    BY <1>3 DEF Updates
  <2>2. CASE Drop
    BY <1>1, <2>2 DEF HandlerTypeOK, Drop, handlerVars
  <2>3. CASE ~Drop
    <3>1. /\ tickTracker[m.product] # NoTick
          /\ tickTracker' = [tickTracker EXCEPT ![m.product] =
                               NextTick(tickTracker[m.product], m)]
          /\ Enqueue([kind |-> "tick", product |-> m.product,
                      tick |-> tickTracker'[m.product]])
          /\ UNCHANGED <<myOrderIds, stream>>
      BY <1>3, <2>3 DEF HandleTick
    <3>2. NextTick(tickTracker[m.product], m) \in Ticks
      BY <1>1, <1>3, <2>1, <3>1, NextTickType DEF HandlerTypeOK
    <3>3. /\ tickTracker' \in [Products -> Ticks \cup {NoTick}]
          /\ tickTracker'[m.product] \in Ticks
      BY <1>1, <2>1, <3>1, <3>2 DEF HandlerTypeOK
    <3>4. [kind |-> "tick", product |-> m.product, tick |-> tickTracker'[m.product]] \in Events
      BY <2>1, <3>3 DEF Events, TickEvents
    <3> QED
      BY <1>1, <3>1, <3>3, <3>4, EnqueueTypes DEF HandlerTypeOK
  <2> QED
    BY <2>2, <2>3
<1>4. CASE m \in Trades /\ HandleTrade(m)
  <2>1. [kind |-> "trade", product |-> m.product, price |-> m.price] \in Events
    BY <1>4 DEF Trades, Events, TradeEvents
  <2>2. CASE Drop
    BY <1>1, <2>2 DEF HandlerTypeOK, Drop, handlerVars
  <2>3. CASE ~Drop
    <3>1. /\ Enqueue([kind |-> "trade", product |-> m.product, price |-> m.price])
          /\ UNCHANGED <<tickTracker, myOrderIds, stream>>
      BY <1>4, <2>3 DEF HandleTrade
    <3> QED
      BY <1>1, <2>1, <3>1, EnqueueTypes DEF HandlerTypeOK
  <2> QED
    BY <2>2, <2>3
<1>5. CASE UNCHANGED handlerVars
  BY <1>1, <1>5 DEF HandlerTypeOK, handlerVars
<1> QED
  BY <1>2, <1>3, <1>4, <1>5, HandlerCases

(* A request goes to the exchange, signed whole or not. *)
LEMMA RequestType ==
  ASSUME Types, NEW type \in {"subscribe", "unsubscribe"}, NEW products \in SUBSET Products,
         Request(type, products)
  PROVE  requests' \in Seq(Requests) /\ errors' \in 0 .. MaxErrors
<1>1. requests \in Seq(Requests) /\ errors \in 0 .. MaxErrors
  BY DEF Types, ExchangeTypes
<1>2. CASE products = {}
  BY <1>1, <1>2 DEF Request
<1>3. CASE products # {}
  <2>1. PICK whole \in BOOLEAN :
          /\ Allowed(whole)
          /\ requests' = Append(requests, [type |-> type, products |-> products,
                                           whole |-> whole])
          /\ errors' = IF whole THEN errors ELSE errors + 1
    BY <1>3 DEF Request
  <2>2. [type |-> type, products |-> products, whole |-> whole] \in Requests
    BY DEF Requests
  <2>3. requests' \in Seq(Requests)
    BY <1>1, <2>1, <2>2
  <2>4. errors' \in 0 .. MaxErrors
    BY <1>1, <2>1, BoundsAssumption DEF Allowed
  <2> QED
    BY <2>3, <2>4
<1> QED
  BY <1>2, <1>3

(* Types are kept by every step.                                           *)
LEMMA NextTypes == Types /\ [Next]_vars => Types'
<1> SUFFICES ASSUME Types, [Next]_vars
             PROVE  Types'
  OBVIOUS
<1>0. HandlerTypeOK /\ ExchangeTypes /\ MainTypes
  BY DEF Types
<1>1. ASSUME UNCHANGED handlerVars
      PROVE  HandlerTypeOK'
  BY <1>0, <1>1 DEF HandlerTypeOK, handlerVars
<1>2. ASSUME NEW p \in Products, NEW quote \in Quotes, NEW ok \in BOOLEAN, NEW side \in Sides,
             ChangeQuote(p, side, quote, ok)
      PROVE  Types'
  <2>1. book[p] \in Books
    BY <1>0 DEF ExchangeTypes
  <2>2. /\ book' \in [Products -> Books] /\ book'[p] \in Books
    BY <1>0, <1>2, <2>1 DEF ExchangeTypes, ChangeQuote, Books
  <2>3. Update(p, side, quote, ok) \in Messages
    BY <2>2 DEF Update, Messages, Updates
  <2>4. ExchangeTypes'
    <3>1. /\ feed' = feed \/ feed' = Append(feed, Update(p, side, quote, ok))
          /\ ok \/ errors < MaxErrors
          /\ errors' = errors \/ (~ok /\ errors' = errors + 1)
          /\ changes < MaxChanges /\ changes' = changes + 1
      BY <1>2, Zenon DEF ChangeQuote, Allowed
    <3>2. feed' \in Seq(Messages)
      BY <1>0, <2>3, <3>1 DEF ExchangeTypes
    <3>3. errors' \in 0 .. MaxErrors /\ changes' \in 0 .. MaxChanges
      BY <1>0, <3>1, BoundsAssumption DEF ExchangeTypes
    <3>4. UNCHANGED <<subscribed, refused, requests>>
      BY <1>2 DEF ChangeQuote
    <3> QED
      BY <1>0, <2>2, <3>2, <3>3, <3>4 DEF ExchangeTypes
  <2>5. MainTypes'
    BY <1>0, <1>2 DEF MainTypes, ChangeQuote, mainVars
  <2> QED
    BY <1>1, <1>2, <2>4, <2>5 DEF ChangeQuote, Types
<1>3. ASSUME NEW p \in Products, NEW quote \in Quotes, NEW ok \in BOOLEAN,
             MarketTrade(p, quote, ok)
      PROVE  Types'
  <2>1. [type |-> "ticker", product |-> p, price |-> quote, parsable |-> ok] \in Messages
    BY DEF Messages, Trades
  <2>2. ExchangeTypes'
    BY <1>0, <1>3, <2>1, BoundsAssumption DEF ExchangeTypes, MarketTrade, Allowed
  <2>3. MainTypes'
    BY <1>0, <1>3 DEF MainTypes, MarketTrade, mainVars
  <2> QED
    BY <1>1, <1>3, <2>2, <2>3 DEF MarketTrade, Types
<1>4. CASE ServeRequest
  <2>1. /\ Head(requests) \in Requests /\ requests' \in Seq(Requests)
    BY <1>0, <1>4, HeadTailProperties DEF ServeRequest, ExchangeTypes
  <2>2. Head(requests).products \in SUBSET Products
    BY <2>1 DEF Requests
  <2>3. /\ feed' \in Seq(Messages) /\ subscribed' \subseteq Products
        /\ errors' \in 0 .. MaxErrors
    <3>1. CASE ServeSubscribe(Head(requests).products)
      <4>1. feed' \in Seq(Messages)
        BY <2>2, <3>1, SubscriptionAnswer
      <4>2. PICK bad \in SUBSET Head(requests).products :
              errors' = errors + Cardinality(bad) /\ errors' <= MaxErrors
        BY <3>1 DEF ServeSubscribe
      <4>3. Cardinality(bad) \in Nat
        BY <2>2, BoundsAssumption, FS_Subset, FS_CardinalityType
      <4>4. errors' \in 0 .. MaxErrors
        BY <1>0, <4>2, <4>3, BoundsAssumption DEF ExchangeTypes
      <4>5. subscribed' = subscribed \cup Head(requests).products
        BY <3>1 DEF ServeSubscribe
      <4> QED
        BY <1>0, <2>2, <4>1, <4>4, <4>5 DEF ExchangeTypes
    <3>2. CASE ServeUnsubscribe(Head(requests).products)
      <4>1. [type |-> "subscriptions"] \in Messages
        BY DEF Messages, Answers
      <4> QED
        BY <1>0, <3>2, <4>1 DEF ServeUnsubscribe, ExchangeTypes
    <3>3. CASE Refuse
      <4>1. [type |-> "error"] \in Messages
        BY DEF Messages, Answers
      <4> QED
        BY <1>0, <3>3, <4>1 DEF Refuse, ExchangeTypes
    <3> QED
      BY <1>4, <3>1, <3>2, <3>3 DEF ServeRequest, Serve
  <2>6. refused' \subseteq Products
    BY <1>0, <1>4, <2>2 DEF ServeRequest, Serve, ExchangeTypes
  <2>4. ExchangeTypes'
    BY <1>0, <1>4, <2>1, <2>3, <2>6 DEF ServeRequest, ExchangeTypes
  <2>5. MainTypes'
    BY <1>0, <1>4 DEF MainTypes, ServeRequest, mainVars
  <2> QED
    BY <1>1, <1>4, <2>4, <2>5 DEF ServeRequest, Types
<1>5. ASSUME NEW universe \in SUBSET Products, UpdateUniverse(universe)
      PROVE  Types'
  <2>1. requests' \in Seq(Requests) /\ errors' \in 0 .. MaxErrors
    BY <1>0, <1>5, RequestType DEF UpdateUniverse, MainTypes
  <2>2. ExchangeTypes'
    BY <1>0, <1>5, <2>1 DEF UpdateUniverse, ExchangeTypes, exchangeVars
  <2>3. MainTypes'
    BY <1>0, <1>5, BoundsAssumption DEF UpdateUniverse, MainTypes
  <2> QED
    BY <1>1, <1>5, <2>2, <2>3 DEF UpdateUniverse, Types
<1>6. CASE ReplaceUniverse
  <2>1. ExchangeTypes'
    BY <1>0, <1>6 DEF ReplaceUniverse, ExchangeTypes, exchangeVars
  <2>2. MainTypes'
    BY <1>0, <1>6 DEF ReplaceUniverse, MainTypes
  <2> QED
    BY <1>1, <1>6, <2>1, <2>2 DEF ReplaceUniverse, Types
<1>7. CASE Subscribe
  <2>1. requests' \in Seq(Requests) /\ errors' \in 0 .. MaxErrors
    BY <1>0, <1>7, RequestType DEF Subscribe, MainTypes
  <2>2. ExchangeTypes'
    BY <1>0, <1>7, <2>1 DEF Subscribe, ExchangeTypes, exchangeVars
  <2>3. MainTypes'
    BY <1>0, <1>7 DEF Subscribe, MainTypes
  <2> QED
    BY <1>1, <1>7, <2>2, <2>3 DEF Subscribe, Types
<1>8. CASE StartStreaming \/ FeedStrategy
  <2>1. HandlerTypeOK'
    <3>1. CASE StartStreaming
      BY <1>0, <3>1 DEF StartStreaming, HandlerTypeOK
    <3>2. CASE FeedStrategy
      <4>1. Tail(eventQueue) \in Seq(Events) /\ Len(Tail(eventQueue)) = Len(eventQueue) - 1
        BY <1>0, <3>2, HeadTailProperties DEF FeedStrategy, HandlerTypeOK
      <4>2. Len(eventQueue) \in Nat
        BY <1>0 DEF HandlerTypeOK
      <4> QED
        BY <1>0, <3>2, <4>1, <4>2, HandlerAssumption DEF FeedStrategy, HandlerTypeOK
    <3> QED
      BY <1>8, <3>1, <3>2
  <2>2. ExchangeTypes'
    BY <1>0, <1>8 DEF StartStreaming, FeedStrategy, ExchangeTypes, exchangeVars
  <2>3. MainTypes'
    BY <1>0, <1>8 DEF StartStreaming, FeedStrategy, MainTypes, mainVars
  <2> QED
    BY <2>1, <2>2, <2>3 DEF Types
<1>9. CASE ReadMessage
  <2>1. Head(feed) \in Messages /\ Tail(feed) \in Seq(Messages)
    BY <1>9, HeadIsMessage DEF ReadMessage
  <2>2. HandlerTypeOK'
    BY <1>9, <2>1, MessageTypes DEF ReadMessage
  <2>3. ExchangeTypes'
    BY <1>0, <1>9, <2>1 DEF ReadMessage, ExchangeTypes, exchangeVars
  <2>4. dirty' \subseteq Products
    BY <1>0, <1>9, <2>1
    DEF ReadMessage, Dirty, MainTypes, Messages, Answers, Snapshots, Updates, Trades
  <2>5. MainTypes'
    BY <1>0, <1>9, <2>4 DEF ReadMessage, MainTypes, mainVars
  <2> QED
    BY <2>2, <2>3, <2>5 DEF Types
<1>10. CASE UNCHANGED vars
  <2>1. ExchangeTypes'
    BY <1>0, <1>10 DEF vars, ExchangeTypes, exchangeVars
  <2>2. MainTypes'
    BY <1>0, <1>10 DEF vars, MainTypes, mainVars
  <2> QED
    BY <1>1, <1>10, <2>1, <2>2 DEF vars, Types
<1> QED
  BY <1>2, <1>3, <1>4, <1>5, <1>6, <1>7, <1>8, <1>9, <1>10 DEF Next, MainStep
-----------------------------------------------------------------------------
(* The requests under way                                                  *)

(* The last call has product p subscribed to: updateUniverse first has     *)
(* every product unsubscribed from.                                        *)
Wanted(p) == main = "ready" /\ p \in currentUniverse

(* No request from the i-th on names p. *)
Unnamed(p, i) == \A j \in i .. Len(requests) : p \notin requests[j].products

(***************************************************************************)
(* The last request under way that names p asks for what is wanted, and    *)
(* when there is none the exchange has p as wanted or has refused it.      *)
(***************************************************************************)
Follows(p) ==
  /\ Unnamed(p, 1) /\ p \notin refused => (p \in subscribed <=> Wanted(p))
  /\ \A i \in 1 .. Len(requests) :
       p \in requests[i].products /\ Unnamed(p, i + 1)
         => (requests[i].type = "subscribe" <=> Wanted(p))

Protocol == \A p \in Products : Follows(p)

(* A request that asks of p what is wanted keeps the protocol, and so does *)
(* one that does not name p and wants nothing new of it.                   *)
LEMMA RequestFollows ==
  ASSUME Types, NEW p \in Products, Follows(p), UNCHANGED <<subscribed, refused>>,
         NEW type \in {"subscribe", "unsubscribe"}, NEW products \in SUBSET Products,
         Request(type, products),
         p \in products => (type = "subscribe" <=> Wanted(p)'),
         p \notin products => (Wanted(p)' <=> Wanted(p))
  PROVE  Follows(p)'
<1>1. requests \in Seq(Requests) /\ Len(requests) \in Nat
  BY LenProperties DEF Types, ExchangeTypes
<1>2. CASE products = {}
  BY <1>2 DEF Request, Follows, Unnamed
<1>3. CASE products # {}
  <2> DEFINE n == Len(requests)
  <2>1. PICK r \in Requests :
          r.type = type /\ r.products = products /\ requests' = Append(requests, r)
    <3>1. PICK whole \in BOOLEAN :
            requests' = Append(requests, [type |-> type, products |-> products,
                                          whole |-> whole])
      BY <1>3 DEF Request
    <3>2. [type |-> type, products |-> products, whole |-> whole] \in Requests
      BY DEF Requests
    <3> QED
      BY <3>1, <3>2
  <2>2. /\ Len(requests') = n + 1 /\ requests'[n + 1] = r
        /\ \A i \in 1 .. n : requests'[i] = requests[i]
    BY <1>1, <2>1
  <2>3. CASE p \in products
    BY <1>1, <2>1, <2>2, <2>3 DEF Follows, Unnamed
  <2>4. CASE p \notin products
    <3>1. \A i \in 1 .. n + 1 : Unnamed(p, i)' => Unnamed(p, i)
      BY <1>1, <2>2 DEF Unnamed
    <3> QED
      BY <1>1, <2>1, <2>2, <2>4, <3>1 DEF Follows
  <2> QED
    BY <2>3, <2>4
<1> QED
  BY <1>2, <1>3

(* The exchange serves or refuses the first request. *)
LEMMA ServeFollows ==
  ASSUME Types, ServeRequest, NEW p \in Products, Follows(p)
  PROVE  Follows(p)'
<1> DEFINE n == Len(requests)
<1>1. requests \in Seq(Requests) /\ n \in Nat
  BY LenProperties DEF Types, ExchangeTypes
<1>2. /\ requests # <<>> /\ n > 0 /\ Head(requests) = requests[1]
      /\ Len(requests') = n - 1
      /\ \A i \in 1 .. n - 1 : requests'[i] = requests[i + 1]
  BY <1>1, HeadTailProperties, EmptySeq DEF ServeRequest
<1>3. requests[1].type \in {"subscribe", "unsubscribe"} /\ requests[1].whole \in BOOLEAN
  <2>1. 1 \in 1 .. n /\ requests[1] \in Requests
    BY <1>1, <1>2
  <2> QED
    BY <2>1 DEF Requests
<1>4. Wanted(p)' <=> Wanted(p)
  BY DEF ServeRequest, mainVars, Wanted
<1>5. \A i \in 1 .. n : Unnamed(p, i)' <=> Unnamed(p, i + 1)
  <2>1. ASSUME NEW i \in 1 .. n
        PROVE  Unnamed(p, i)' => Unnamed(p, i + 1)
    <3> SUFFICES ASSUME Unnamed(p, i)', NEW j \in i + 1 .. n
                 PROVE  p \notin requests[j].products
      BY DEF Unnamed
    <3>1. j - 1 \in i .. n - 1 /\ j - 1 \in 1 .. n - 1 /\ (j - 1) + 1 = j
      BY <1>1
    <3> QED
      BY <1>2, <3>1 DEF Unnamed
  <2>2. \A i \in 1 .. n : Unnamed(p, i + 1) => Unnamed(p, i)'
    BY <1>1, <1>2 DEF Unnamed
  <2> QED
    BY <2>1, <2>2
<1>6. \A i \in 1 .. Len(requests') :
        p \in requests'[i].products /\ Unnamed(p, i + 1)'
          => (requests'[i].type = "subscribe" <=> Wanted(p)')
  <2> SUFFICES ASSUME NEW i \in 1 .. n - 1, p \in requests[i + 1].products,
                      Unnamed(p, i + 1)'
               PROVE  requests[i + 1].type = "subscribe" <=> Wanted(p)
    BY <1>2, <1>4
  <2>1. i + 1 \in 1 .. n
    BY <1>1
  <2> QED
    BY <1>5, <2>1 DEF Follows
<1>7. Unnamed(p, 1)' /\ p \notin refused' => (p \in subscribed' <=> Wanted(p)')
  <2> SUFFICES ASSUME Unnamed(p, 2), p \notin refused'
               PROVE  p \in subscribed' <=> Wanted(p)
    <3>1. Unnamed(p, 1)' => Unnamed(p, 2)
      BY <1>1, <1>2, <1>5
    <3> QED
      BY <1>4, <3>1
  <2>1. CASE p \in requests[1].products
    <3>1. requests[1].whole
      BY <1>2, <2>1 DEF ServeRequest, Serve
    <3>2. p \in subscribed' <=> requests[1].type = "subscribe"
      BY <1>2, <1>3, <2>1, <3>1 DEF ServeRequest, Serve, ServeSubscribe, ServeUnsubscribe
    <3>3. requests[1].type = "subscribe" <=> Wanted(p)
      BY <1>1, <1>2, <2>1 DEF Follows
    <3> QED
      BY <3>2, <3>3
  <2>2. CASE p \notin requests[1].products
    <3>1. p \notin refused /\ (p \in subscribed' <=> p \in subscribed)
      BY <1>2, <2>2
      DEF ServeRequest, Serve, ServeSubscribe, ServeUnsubscribe, Refuse
    <3>2. Unnamed(p, 1)
      <4>1. \A j \in 1 .. n : j = 1 \/ j \in 2 .. n
        BY <1>1
      <4> QED
        BY <2>2, <4>1 DEF Unnamed
    <3> QED
      BY <3>1, <3>2 DEF Follows
  <2> QED
    BY <2>1, <2>2
<1> QED
  BY <1>6, <1>7 DEF Follows

LEMMA InitProtocol == Init => Protocol
BY DEF Init, Protocol, Follows, Wanted

(* The protocol is kept by every step.                                     *)
LEMMA NextProtocol == Types /\ Protocol /\ [Next]_vars => Protocol'
<1> SUFFICES ASSUME Types, [Next]_vars, NEW p \in Products, Follows(p)
             PROVE  Follows(p)'
  BY DEF Protocol
<1>1. ASSUME UNCHANGED <<requests, subscribed, refused>>, Wanted(p)' <=> Wanted(p)
      PROVE  Follows(p)'
  BY <1>1 DEF Follows, Unnamed
<1>2. ASSUME NEW universe \in SUBSET Products, UpdateUniverse(universe)
      PROVE  Follows(p)'
  <2>1. /\ main = "ready" /\ main' = "unsubscribed" /\ Request("unsubscribe", currentUniverse)
        /\ UNCHANGED <<subscribed, refused>> /\ currentUniverse \in SUBSET Products
    BY <1>2 DEF UpdateUniverse, exchangeVars, Types, MainTypes
  <2>2. ~Wanted(p)' /\ (p \notin currentUniverse => ~Wanted(p))
    BY <2>1 DEF Wanted
  <2> QED
    BY <2>1, <2>2, RequestFollows
<1>3. CASE Subscribe
  <2>1. /\ main = "replaced" /\ main' = "ready" /\ Request("subscribe", currentUniverse)
        /\ UNCHANGED <<subscribed, refused, currentUniverse>>
        /\ currentUniverse \in SUBSET Products
    BY <1>3 DEF Subscribe, exchangeVars, Types, MainTypes
  <2>2. ~Wanted(p) /\ (Wanted(p)' <=> p \in currentUniverse)
    BY <2>1 DEF Wanted
  <2> QED
    BY <2>1, <2>2, RequestFollows
<1>4. CASE ReplaceUniverse
  <2>1. UNCHANGED <<requests, subscribed, refused>> /\ ~Wanted(p) /\ ~Wanted(p)'
    BY <1>4 DEF ReplaceUniverse, exchangeVars, Wanted
  <2> QED
    BY <1>1, <2>1
<1>5. CASE ServeRequest
  BY <1>5, ServeFollows
<1>6. ASSUME NEW q \in Products, NEW quote \in Quotes, NEW ok \in BOOLEAN,
             \/ \E side \in Sides : ChangeQuote(q, side, quote, ok)
             \/ MarketTrade(q, quote, ok)
      PROVE  Follows(p)'
  <2>1. UNCHANGED <<requests, subscribed, refused, main, currentUniverse>>
    BY <1>6, Zenon DEF ChangeQuote, MarketTrade, mainVars
  <2> QED
    BY <1>1, <2>1 DEF Wanted
<1>7. CASE StartStreaming \/ FeedStrategy \/ ReadMessage \/ UNCHANGED vars
  <2>1. UNCHANGED <<requests, subscribed, refused, main, currentUniverse>>
    BY <1>7 DEF StartStreaming, FeedStrategy, ReadMessage, vars, mainVars, exchangeVars
  <2> QED
    BY <1>1, <2>1 DEF Wanted
<1> QED
  BY <1>2, <1>3, <1>4, <1>5, <1>6, <1>7 DEF Next, MainStep

-----------------------------------------------------------------------------
(* The messages under way                                                  *)

(* A message that is about the book of product p, and the book it shows.   *)
About(m, p) == m.type \in {"snapshot", "l2update"} /\ m.product = p
BookOf(m) == IF m.type = "snapshot" THEN [bid |-> m.bid, ask |-> m.ask] ELSE m.book

(* Book b after the change that an update names. *)
Changed(b, m) ==
  [bid |-> IF m.side = "buy" THEN m.quote ELSE b.bid,
   ask |-> IF m.side = "buy" THEN b.ask ELSE m.quote]

View(p) == [bid |-> tickTracker[p].bid, ask |-> tickTracker[p].ask]

(* None of the messages of s from i to j is about p. *)
Silent(s, p, i, j) == \A k \in i .. j : ~About(s[k], p)

(* Every update changes the book that the message before it shows.         *)
InOrder(p) ==
  \A i, j \in 1 .. Len(feed) :
    /\ i < j /\ About(feed[i], p) /\ About(feed[j], p) /\ Silent(feed, p, i + 1, j - 1)
    /\ feed[j].type = "l2update"
    => feed[j].book = Changed(BookOf(feed[i]), feed[j])

(* The first update changes the book that the handler's tick shows.        *)
FirstFits(p) ==
  \A j \in 1 .. Len(feed) :
    /\ Running /\ p \notin dirty
    /\ About(feed[j], p) /\ Silent(feed, p, 1, j - 1) /\ feed[j].type = "l2update"
    => tickTracker[p] # NoTick /\ feed[j].book = Changed(View(p), feed[j])

(* The last message shows the exchange's book.                             *)
LastFits(p) ==
  \A i \in 1 .. Len(feed) :
    p \in subscribed /\ About(feed[i], p) /\ Silent(feed, p, i + 1, Len(feed))
      => BookOf(feed[i]) = book[p]

(* When there is none, the handler's tick does. *)
RestFits(p) ==
  Running /\ p \in subscribed \ dirty /\ Silent(feed, p, 1, Len(feed)) => InSync(p)

(***************************************************************************)
(* From the handler's tick by the messages under way to the exchange's     *)
(* book nothing is missing.                                                *)
(***************************************************************************)
Accounted(p) == InOrder(p) /\ FirstFits(p) /\ LastFits(p) /\ RestFits(p)
Account == \A p \in Products : Accounted(p)

-----------------------------------------------------------------------------
(* Silence in a sequence that grows at its end, *)
LEMMA SilentGrown ==
  ASSUME NEW p, NEW s, NEW t, NEW n \in Nat, \A k \in 1 .. n : t[k] = s[k],
         NEW i \in 1 .. n + 1, NEW j \in Int, j <= n
  PROVE  Silent(t, p, i, j) <=> Silent(s, p, i, j)
BY DEF Silent

(* and in one that loses its head. *)
LEMMA SilentShifted ==
  ASSUME NEW p, NEW s, NEW t, NEW n \in Nat, \A k \in 1 .. n : t[k] = s[k + 1],
         NEW i \in 1 .. n + 1, NEW j \in Int, j <= n
  PROVE  Silent(t, p, i, j) <=> Silent(s, p, i + 1, j + 1)
<1>1. ASSUME Silent(t, p, i, j), NEW k \in i + 1 .. j + 1
      PROVE  ~About(s[k], p)
  <2>1. k - 1 \in i .. j /\ k - 1 \in 1 .. n
    OBVIOUS
  <2>2. t[k - 1] = s[k]
    BY <2>1
  <2> QED
    BY <1>1, <2>1, <2>2 DEF Silent
<1>2. ASSUME Silent(s, p, i + 1, j + 1), NEW k \in i .. j
      PROVE  ~About(t[k], p)
  <2>1. k + 1 \in i + 1 .. j + 1 /\ k \in 1 .. n
    OBVIOUS
  <2>2. t[k] = s[k + 1]
    BY <2>1
  <2> QED
    BY <1>2, <2>1, <2>2 DEF Silent
<1> QED
  BY <1>1, <1>2 DEF Silent


-----------------------------------------------------------------------------
(* What is appended to the feed keeps the account.                         *)

(* Messages about other products, or none. *)
LEMMA OthersAppended ==
  ASSUME NEW p \in Products, Accounted(p), Len(feed) \in Nat, Len(feed') \in Nat,
         Len(feed) <= Len(feed'),
         \A i \in 1 .. Len(feed) : feed'[i] = feed[i],
         \A i \in Len(feed) + 1 .. Len(feed') : ~About(feed'[i], p),
         UNCHANGED tickTracker, UNCHANGED dirty, book'[p] = book[p],
         p \in subscribed' => p \in subscribed, Running' => Running
  PROVE  Accounted(p)'
<1> DEFINE n == Len(feed)
<1>1. \A i \in 1 .. n + 1, j \in Int : j <= n => (Silent(feed', p, i, j) <=> Silent(feed, p, i, j))
  BY SilentGrown
<1>2. \A i \in 1 .. n + 1 : Silent(feed', p, i, Len(feed')) => Silent(feed, p, i, n)
  <2>1. \A i \in 1 .. n + 1 : Silent(feed', p, i, Len(feed')) => Silent(feed', p, i, n)
    BY DEF Silent
  <2> QED
    BY <1>1, <2>1
<1>3. InOrder(p)'
  <2> SUFFICES ASSUME NEW i \in 1 .. Len(feed'), NEW j \in 1 .. Len(feed'),
                      i < j, About(feed'[i], p), About(feed'[j], p),
                      Silent(feed', p, i + 1, j - 1), feed'[j].type = "l2update"
               PROVE  feed'[j].book = Changed(BookOf(feed'[i]), feed'[j])
    BY DEF InOrder
  <2>1. i \in 1 .. n /\ j \in 1 .. n /\ feed'[i] = feed[i] /\ feed'[j] = feed[j]
    OBVIOUS
  <2>2. Silent(feed, p, i + 1, j - 1)
    BY <1>1, <2>1
  <2> QED
    BY <2>1, <2>2 DEF Accounted, InOrder
<1>4. FirstFits(p)'
  <2> SUFFICES ASSUME NEW j \in 1 .. Len(feed'), Running, p \notin dirty, About(feed'[j], p),
                      Silent(feed', p, 1, j - 1), feed'[j].type = "l2update"
               PROVE  tickTracker[p] # NoTick /\ feed'[j].book = Changed(View(p), feed'[j])
    BY DEF FirstFits, View
  <2>1. j \in 1 .. n
    OBVIOUS
  <2> QED
    BY <1>1, <2>1 DEF Accounted, FirstFits
<1>5. LastFits(p)'
  <2> SUFFICES ASSUME NEW i \in 1 .. Len(feed'), p \in subscribed', About(feed'[i], p),
                      Silent(feed', p, i + 1, Len(feed'))
               PROVE  BookOf(feed'[i]) = book'[p]
    BY DEF LastFits
  <2>1. i \in 1 .. n
    OBVIOUS
  <2> QED
    BY <1>2, <2>1 DEF Accounted, LastFits
<1>6. RestFits(p)'
  BY <1>2 DEF Accounted, RestFits, InSync
<1> QED
  BY <1>3, <1>4, <1>5, <1>6 DEF Accounted

(* An update of a product that is subscribed to. *)
LEMMA UpdateAppended ==
  ASSUME NEW p \in Products, Accounted(p), p \in subscribed,
         Len(feed) \in Nat, Len(feed') = Len(feed) + 1,
         \A i \in 1 .. Len(feed) : feed'[i] = feed[i],
         NEW m, feed'[Len(feed) + 1] = m, About(m, p), m.type = "l2update",
         m.book = book'[p], m.book = Changed(book[p], m), book[p] \in Books,
         UNCHANGED tickTracker, UNCHANGED dirty, Running' => Running
  PROVE  Accounted(p)'
<1> DEFINE n == Len(feed)
<1>1. \A i \in 1 .. n + 1, j \in Int : j <= n => (Silent(feed', p, i, j) <=> Silent(feed, p, i, j))
  BY SilentGrown
<1>2. InOrder(p)'
  <2> SUFFICES ASSUME NEW i \in 1 .. n + 1, NEW j \in 1 .. n + 1,
                      i < j, About(feed'[i], p), About(feed'[j], p),
                      Silent(feed', p, i + 1, j - 1), feed'[j].type = "l2update"
               PROVE  feed'[j].book = Changed(BookOf(feed'[i]), feed'[j])
    BY DEF InOrder
  <2>1. i \in 1 .. n /\ Silent(feed, p, i + 1, j - 1) /\ feed'[i] = feed[i]
    BY <1>1
  <2>2. CASE j \in 1 .. n
    BY <2>1, <2>2 DEF Accounted, InOrder
  <2>3. CASE j = n + 1
    <3>1. BookOf(feed[i]) = book[p]
      BY <2>1, <2>3 DEF Accounted, LastFits
    <3> QED
      BY <2>1, <2>3, <3>1
  <2> QED
    BY <2>2, <2>3
<1>3. FirstFits(p)'
  <2> SUFFICES ASSUME NEW j \in 1 .. n + 1, Running, p \notin dirty, About(feed'[j], p),
                      Silent(feed', p, 1, j - 1), feed'[j].type = "l2update"
               PROVE  tickTracker[p] # NoTick /\ feed'[j].book = Changed(View(p), feed'[j])
    BY DEF FirstFits, View
  <2>1. Silent(feed, p, 1, j - 1)
    BY <1>1
  <2>2. CASE j \in 1 .. n
    BY <2>1, <2>2 DEF Accounted, FirstFits
  <2>3. CASE j = n + 1
    <3>1. tickTracker[p] # NoTick /\ View(p) = book[p]
      BY <2>1, <2>3 DEF Accounted, RestFits, InSync, View
    <3> QED
      BY <2>3, <3>1
  <2> QED
    BY <2>2, <2>3
<1>4. LastFits(p)'
  <2> SUFFICES ASSUME NEW i \in 1 .. n + 1, About(feed'[i], p), Silent(feed', p, i + 1, Len(feed'))
               PROVE  BookOf(feed'[i]) = book'[p]
    BY DEF LastFits
  <2>1. i = n + 1
    BY DEF Silent
  <2> QED
    BY <2>1 DEF BookOf
<1>5. RestFits(p)'
  BY DEF RestFits, Silent
<1> QED
  BY <1>2, <1>3, <1>4, <1>5 DEF Accounted

(* An acknowledgement and snapshots, one of them of this product. *)
LEMMA SnapshotsAppended ==
  ASSUME NEW p \in Products, Accounted(p), Len(feed) \in Nat, Len(feed') \in Nat,
         Len(feed) < Len(feed'),
         \A i \in 1 .. Len(feed) : feed'[i] = feed[i],
         \A i \in Len(feed) + 1 .. Len(feed') : About(feed'[i], p) =>
             feed'[i].type = "snapshot" /\ BookOf(feed'[i]) = book[p],
         NEW s \in Len(feed) + 1 .. Len(feed'), About(feed'[s], p),
         UNCHANGED tickTracker, UNCHANGED dirty, book'[p] = book[p], Running' => Running
  PROVE  Accounted(p)'
<1> DEFINE n == Len(feed)
<1>1. \A i \in 1 .. n + 1, j \in Int : j <= n => (Silent(feed', p, i, j) <=> Silent(feed, p, i, j))
  BY SilentGrown
<1>2. InOrder(p)'
  <2> SUFFICES ASSUME NEW i \in 1 .. Len(feed'), NEW j \in 1 .. Len(feed'),
                      i < j, About(feed'[i], p), About(feed'[j], p),
                      Silent(feed', p, i + 1, j - 1), feed'[j].type = "l2update"
               PROVE  feed'[j].book = Changed(BookOf(feed'[i]), feed'[j])
    BY DEF InOrder
  <2>1. i \in 1 .. n /\ j \in 1 .. n
    OBVIOUS
  <2> QED
    BY <1>1, <2>1 DEF Accounted, InOrder
<1>3. FirstFits(p)'
  <2> SUFFICES ASSUME NEW j \in 1 .. Len(feed'), Running, p \notin dirty, About(feed'[j], p),
                      Silent(feed', p, 1, j - 1), feed'[j].type = "l2update"
               PROVE  tickTracker[p] # NoTick /\ feed'[j].book = Changed(View(p), feed'[j])
    BY DEF FirstFits, View
  <2>1. j \in 1 .. n
    OBVIOUS
  <2> QED
    BY <1>1, <2>1 DEF Accounted, FirstFits
<1>4. LastFits(p)'
  <2> SUFFICES ASSUME NEW i \in 1 .. Len(feed'), About(feed'[i], p),
                      Silent(feed', p, i + 1, Len(feed'))
               PROVE  BookOf(feed'[i]) = book'[p]
    BY DEF LastFits
  <2>1. i \in n + 1 .. Len(feed')
    BY DEF Silent
  <2> QED
    BY <2>1
<1>5. RestFits(p)'
  BY DEF RestFits, Silent
<1> QED
  BY <1>2, <1>3, <1>4, <1>5 DEF Accounted

-----------------------------------------------------------------------------
(* A message leaves the feed.                                              *)

(* It is not about this product. *)
LEMMA OtherRead ==
  ASSUME NEW p \in Products, Accounted(p),
         Len(feed) \in Nat, Len(feed) > 0, Len(feed') = Len(feed) - 1,
         \A i \in 1 .. Len(feed') : feed'[i] = feed[i + 1],
         ~About(feed[1], p), tickTracker'[p] = tickTracker[p], p \in dirty' <=> p \in dirty,
         UNCHANGED subscribed, book'[p] = book[p], Running' => Running
  PROVE  Accounted(p)'
<1>1. \A i \in 1 .. Len(feed') + 1, j \in Int : j <= Len(feed') =>
        (Silent(feed', p, i, j) <=> Silent(feed, p, i + 1, j + 1))
  <2>1. Len(feed') \in Nat
    OBVIOUS
  <2> QED
    BY <2>1, SilentShifted
<1>2. \A j \in Nat : Silent(feed, p, 2, j) => Silent(feed, p, 1, j)
  BY DEF Silent
<1>3. InOrder(p)'
  <2> SUFFICES ASSUME NEW i \in 1 .. Len(feed'), NEW j \in 1 .. Len(feed'),
                      i < j, About(feed'[i], p), About(feed'[j], p),
                      Silent(feed', p, i + 1, j - 1), feed'[j].type = "l2update"
               PROVE  feed'[j].book = Changed(BookOf(feed'[i]), feed'[j])
    BY DEF InOrder
  <2>1. Silent(feed, p, (i + 1) + 1, (j + 1) - 1)
    <3>1. Silent(feed, p, (i + 1) + 1, (j - 1) + 1)
      BY <1>1
    <3> QED
      BY <3>1
  <2>2. /\ i + 1 \in 1 .. Len(feed) /\ j + 1 \in 1 .. Len(feed) /\ i + 1 < j + 1
        /\ feed'[i] = feed[i + 1] /\ feed'[j] = feed[j + 1]
    OBVIOUS
  <2> QED
    BY <2>1, <2>2 DEF Accounted, InOrder
<1>4. FirstFits(p)'
  <2> SUFFICES ASSUME NEW j \in 1 .. Len(feed'), Running', p \notin dirty', About(feed'[j], p),
                      Silent(feed', p, 1, j - 1), feed'[j].type = "l2update"
               PROVE  /\ tickTracker'[p] # NoTick
                      /\ feed'[j].book = Changed(View(p), feed'[j])
    BY DEF FirstFits, View
  <2>1. Silent(feed, p, 1, (j + 1) - 1)
    <3>1. Silent(feed, p, 1 + 1, (j - 1) + 1)
      BY <1>1
    <3> QED
      BY <1>2, <3>1
  <2> QED
    BY <2>1 DEF Accounted, FirstFits
<1>5. LastFits(p)'
  <2> SUFFICES ASSUME NEW i \in 1 .. Len(feed'), p \in subscribed, About(feed'[i], p),
                      Silent(feed', p, i + 1, Len(feed'))
               PROVE  BookOf(feed'[i]) = book[p]
    BY DEF LastFits
  <2>1. Silent(feed, p, (i + 1) + 1, Len(feed))
    <3>1. Silent(feed, p, (i + 1) + 1, Len(feed') + 1)
      BY <1>1
    <3> QED
      BY <3>1
  <2> QED
    BY <2>1 DEF Accounted, LastFits
<1>6. RestFits(p)'
  <2>1. Silent(feed', p, 1, Len(feed')) => Silent(feed, p, 1, Len(feed))
    <3>1. Silent(feed', p, 1, Len(feed')) => Silent(feed, p, 1 + 1, Len(feed') + 1)
      BY <1>1
    <3> QED
      BY <1>2, <3>1
  <2> QED
    BY <2>1 DEF Accounted, RestFits, InSync
<1> QED
  BY <1>3, <1>4, <1>5, <1>6 DEF Accounted

(* It is, and the handler's tick shows what it shows. *)
LEMMA ItsOwnRead ==
  ASSUME NEW p \in Products, Accounted(p),
         Len(feed) \in Nat, Len(feed) > 0, Len(feed') = Len(feed) - 1,
         \A i \in 1 .. Len(feed') : feed'[i] = feed[i + 1],
         About(feed[1], p),
         Running' /\ p \notin dirty' =>
            tickTracker'[p] # NoTick /\ View(p)' = BookOf(feed[1]),
         UNCHANGED subscribed, book'[p] = book[p]
  PROVE  Accounted(p)'
<1>1. \A i \in 1 .. Len(feed') + 1, j \in Int : j <= Len(feed') =>
        (Silent(feed', p, i, j) <=> Silent(feed, p, i + 1, j + 1))
  <2>1. Len(feed') \in Nat
    OBVIOUS
  <2> QED
    BY <2>1, SilentShifted
<1>2. InOrder(p)'
  <2> SUFFICES ASSUME NEW i \in 1 .. Len(feed'), NEW j \in 1 .. Len(feed'),
                      i < j, About(feed'[i], p), About(feed'[j], p),
                      Silent(feed', p, i + 1, j - 1), feed'[j].type = "l2update"
               PROVE  feed'[j].book = Changed(BookOf(feed'[i]), feed'[j])
    BY DEF InOrder
  <2>1. Silent(feed, p, (i + 1) + 1, (j + 1) - 1)
    <3>1. Silent(feed, p, (i + 1) + 1, (j - 1) + 1)
      BY <1>1
    <3> QED
      BY <3>1
  <2>2. /\ i + 1 \in 1 .. Len(feed) /\ j + 1 \in 1 .. Len(feed) /\ i + 1 < j + 1
        /\ feed'[i] = feed[i + 1] /\ feed'[j] = feed[j + 1]
    OBVIOUS
  <2> QED
    BY <2>1, <2>2 DEF Accounted, InOrder
<1>3. FirstFits(p)'
  <2> SUFFICES ASSUME NEW j \in 1 .. Len(feed'), Running', p \notin dirty', About(feed'[j], p),
                      Silent(feed', p, 1, j - 1), feed'[j].type = "l2update"
               PROVE  /\ tickTracker'[p] # NoTick
                      /\ feed'[j].book = Changed(View(p)', feed'[j])
    BY DEF FirstFits
  <2>1. Silent(feed, p, 1 + 1, (j + 1) - 1)
    <3>1. Silent(feed, p, 1 + 1, (j - 1) + 1)
      BY <1>1
    <3> QED
      BY <3>1
  <2> QED
    BY <2>1 DEF Accounted, InOrder
<1>4. LastFits(p)'
  <2> SUFFICES ASSUME NEW i \in 1 .. Len(feed'), p \in subscribed, About(feed'[i], p),
                      Silent(feed', p, i + 1, Len(feed'))
               PROVE  BookOf(feed'[i]) = book[p]
    BY DEF LastFits
  <2>1. Silent(feed, p, (i + 1) + 1, Len(feed))
    <3>1. Silent(feed, p, (i + 1) + 1, Len(feed') + 1)
      BY <1>1
    <3> QED
      BY <3>1
  <2> QED
    BY <2>1 DEF Accounted, LastFits
<1>5. RestFits(p)'
  <2> SUFFICES ASSUME Running', p \in subscribed, p \notin dirty', Silent(feed', p, 1, Len(feed'))
               PROVE  InSync(p)'
    BY DEF RestFits
  <2>1. Silent(feed, p, 1 + 1, Len(feed))
    <3>1. Silent(feed, p, 1 + 1, Len(feed') + 1)
      BY <1>1
    <3> QED
      BY <3>1
  <2>2. BookOf(feed[1]) = book[p]
    BY <2>1 DEF Accounted, LastFits
  <2> QED
    BY <2>2 DEF InSync, View
<1> QED
  BY <1>2, <1>3, <1>4, <1>5 DEF Accounted
-----------------------------------------------------------------------------
(* The handler                                                             *)

(* An update makes of the tick what it makes of the book. *)
LEMMA NextTickChanges ==
  ASSUME NEW t \in Ticks, NEW m \in Updates
  PROVE  /\ NextTick(t, m) \in Ticks
         /\ [bid |-> NextTick(t, m).bid, ask |-> NextTick(t, m).ask]
              = Changed([bid |-> t.bid, ask |-> t.ask], m)
BY NextTickType DEF Ticks, Updates, NextTick, Changed

(* A message about another product leaves this one alone. *)
LEMMA HandlesOthers ==
  ASSUME Types, ReadMessage, NEW p \in Products, ~About(Head(feed), p)
  PROVE  tickTracker'[p] = tickTracker[p] /\ (p \in dirty' <=> p \in dirty)
<1> DEFINE m == Head(feed)
<1>1. m \in Messages /\ OnMessage(m) /\ dirty' = Dirty(m)
  BY HeadIsMessage DEF ReadMessage
<1>2. tickTracker \in [Products -> Ticks \cup {NoTick}]
  BY DEF Types, HandlerTypeOK
<1> HIDE DEF m
<1>3. CASE m \in Snapshots /\ HandleSnapshot(m)
  <2>1. m.type = "snapshot" /\ m.product # p /\ m.product \in Products
    BY <1>3 DEF Snapshots, About, m
  <2> QED
    BY <1>1, <1>2, <1>3, <2>1 DEF HandleSnapshot, Drop, Abort, handlerVars, Dirty
<1>4. CASE m \in Updates /\ HandleTick(m)
  <2>1. m.type = "l2update" /\ m.product # p /\ m.product \in Products
    BY <1>4 DEF Updates, About, m
  <2> QED
    BY <1>1, <1>2, <1>4, <2>1 DEF HandleTick, Drop, handlerVars, Dirty
<1>5. CASE m \in Trades /\ HandleTrade(m)
  BY <1>1, <1>5 DEF HandleTrade, Trades, Drop, handlerVars, Dirty
<1>6. CASE UNCHANGED handlerVars /\ m \in Answers
  BY <1>1, <1>6 DEF Answers, handlerVars, Dirty
<1> QED
  BY <1>1, <1>3, <1>4, <1>5, <1>6, HandlerCases

(* After one about this product the tick shows what the message shows, or  *)
(* the product is dirty.                                                   *)
LEMMA HandlesItsOwn ==
  ASSUME Types, ReadMessage, NEW p \in Products, Accounted(p), About(Head(feed), p),
         Running', p \notin dirty'
  PROVE  tickTracker'[p] # NoTick /\ View(p)' = BookOf(Head(feed))
<1> DEFINE m == Head(feed)
<1>1. /\ m \in Messages /\ OnMessage(m) /\ dirty' = Dirty(m) /\ Running
      /\ m = feed[1] /\ 1 \in 1 .. Len(feed)
  <2>1. feed # <<>> /\ OnMessage(m) /\ dirty' = Dirty(m) /\ Running
    BY DEF ReadMessage, Running
  <2>2. m \in Messages /\ m = feed[1] /\ Len(feed) \in Nat /\ Len(feed) > 0
    BY <2>1, HeadIsMessage
  <2> QED
    BY <2>1, <2>2
<1>2. tickTracker \in [Products -> Ticks \cup {NoTick}]
  BY DEF Types, HandlerTypeOK
<1>3. About(m, p)
  OBVIOUS
<1> HIDE DEF m
<1>4. CASE m \in Snapshots /\ HandleSnapshot(m)
  <2>1. m.type = "snapshot" /\ m.product = p
    BY <1>3, <1>4 DEF Snapshots, About
  <2>2. m.parsable
    BY <1>1, <2>1 DEF Dirty
  <2>3. Absent \notin {m.bid, m.ask}
    BY <1>4, <2>2 DEF HandleSnapshot, Abort, Running
  <2> DEFINE t == [bid |-> m.bid, ask |-> m.ask, isBuySide |-> TRUE]
  <2>4. t \in Ticks
    BY <1>4, <2>3 DEF Snapshots, Ticks
  <2>5. tickTracker'[p] = t
    BY <1>2, <1>4, <2>1, <2>2, <2>3 DEF HandleSnapshot, LacksSide
  <2>6. t # NoTick
    BY <2>4, HandlerAssumption DEF Ticks
  <2> QED
    BY <2>1, <2>5, <2>6 DEF View, BookOf, m
<1>5. CASE m \in Updates /\ HandleTick(m)
  <2>1. m.type = "l2update" /\ m.product = p
    BY <1>3, <1>5 DEF Updates, About
  <2>2. m.parsable /\ p \notin dirty
    BY <1>1, <2>1 DEF Dirty
  <2>3. Silent(feed, p, 1, 1 - 1)
    BY DEF Silent
  <2>4. tickTracker[p] # NoTick /\ m.book = Changed(View(p), m)
    BY <1>1, <1>3, <2>1, <2>2, <2>3 DEF Accounted, FirstFits
  <2> DEFINE t == NextTick(tickTracker[p], m)
  <2>5. /\ t \in Ticks
        /\ [bid |-> t.bid, ask |-> t.ask] = Changed(View(p), m)
    BY <1>2, <1>5, <2>4, NextTickChanges DEF View
  <2>6. tickTracker' = [tickTracker EXCEPT ![p] = NextTick(tickTracker[p], m)]
    BY <1>5, <2>1, <2>2, <2>4 DEF HandleTick
  <2>7. tickTracker'[p] = t
    BY <1>2, <2>6
  <2>8. t # NoTick
    BY <2>5, HandlerAssumption DEF Ticks
  <2> HIDE DEF t
  <2> QED
    BY <2>1, <2>4, <2>5, <2>7, <2>8 DEF View, BookOf, m
<1>6. CASE m \notin Snapshots /\ m \notin Updates
  BY <1>1, <1>3, <1>6 DEF Messages, Answers, Trades, About
<1> QED
  BY <1>1, <1>4, <1>5, <1>6, HandlerCases
  DEF Snapshots, Updates, Trades, Answers
-----------------------------------------------------------------------------
(* The account is kept                                                     *)

LEMMA InitAccount == Init => Account
BY DEF Init, Account, Accounted, InOrder, FirstFits, LastFits, RestFits

(* The market moves. *)
LEMMA QuoteAccount ==
  ASSUME Types, Account, NEW q \in Products, NEW quote \in Quotes, NEW ok \in BOOLEAN,
         NEW side \in Sides, ChangeQuote(q, side, quote, ok), NEW p \in Products
  PROVE  Accounted(p)'
<1>1. /\ Accounted(p) /\ feed \in Seq(Messages) /\ Len(feed) \in Nat
      /\ book \in [Products -> Books] /\ book[p] \in Books
  BY LenProperties DEF Account, Types, ExchangeTypes
<1>2. /\ book' = [book EXCEPT ![q] =
            IF side = "buy" THEN [@ EXCEPT !.bid = quote] ELSE [@ EXCEPT !.ask = quote]]
      /\ UNCHANGED <<subscribed, dirty, handlerVars>>
      /\ IF q \in subscribed THEN feed' = Append(feed, Update(q, side, quote, ok))
                             ELSE UNCHANGED feed
  BY Zenon DEF ChangeQuote
<1>3. UNCHANGED tickTracker /\ UNCHANGED dirty /\ UNCHANGED subscribed /\ Running' = Running
  BY <1>2 DEF handlerVars, Running
<1>4. q # p => book'[p] = book[p]
  BY <1>1, <1>2
<1> DEFINE m == Update(q, side, quote, ok)
<1>5. /\ m.type = "l2update" /\ m.product = q /\ m.book = book'[q]
      /\ m.side = side /\ m.quote = quote
  BY DEF Update
<1> HIDE DEF m
<1>6. CASE q \in subscribed
  <2>0. feed' = Append(feed, m)
    BY <1>2, <1>6 DEF m
  <2>1. /\ Len(feed') = Len(feed) + 1 /\ feed'[Len(feed) + 1] = m
        /\ \A i \in 1 .. Len(feed) : feed'[i] = feed[i]
    BY <1>1, <2>0, AppendProperties
  <2>2. CASE q = p
    <3>1. book'[p] = Changed(book[p], m)
      <4>1. book'[p] = IF side = "buy" THEN [book[p] EXCEPT !.bid = quote]
                                       ELSE [book[p] EXCEPT !.ask = quote]
        BY <1>1, <1>2, <2>2, Zenon
      <4> QED
        BY <1>1, <1>5, <4>1 DEF Changed, Books
    <3> QED
      BY <1>1, <1>3, <1>5, <1>6, <2>1, <2>2, <3>1, UpdateAppended DEF About
  <2>3. CASE q # p
    <3>1. \A i \in Len(feed) + 1 .. Len(feed') : ~About(feed'[i], p)
      BY <1>1, <1>5, <2>1, <2>3 DEF About
    <3> QED
      BY <1>1, <1>3, <1>4, <2>1, <2>3, <3>1, OthersAppended
  <2> QED
    BY <2>2, <2>3
<1>7. CASE q \notin subscribed
  <2>1. UNCHANGED feed
    BY <1>2, <1>7
  <2>2. CASE p \in subscribed
    BY <1>1, <1>3, <1>4, <1>7, <2>1, <2>2, OthersAppended
  <2>3. CASE p \notin subscribed
    BY <1>1, <1>3, <2>1, <2>3
    DEF Accounted, InOrder, FirstFits, LastFits, RestFits, View
  <2> QED
    BY <2>2, <2>3
<1> QED
  BY <1>6, <1>7

(* The exchange serves a request. *)
LEMMA ServeAccount ==
  ASSUME Types, Account, ServeRequest, NEW p \in Products
  PROVE  Accounted(p)'
<1> DEFINE products == Head(requests).products
<1>1. Accounted(p) /\ feed \in Seq(Messages) /\ Len(feed) \in Nat
  BY LenProperties DEF Account, Types, ExchangeTypes
<1>2. products \in SUBSET Products
  <2>1. Head(requests) \in Requests
    BY HeadTailProperties DEF ServeRequest, Types, ExchangeTypes
  <2> QED
    BY <2>1 DEF Requests
<1>3. /\ UNCHANGED tickTracker /\ UNCHANGED dirty /\ book'[p] = book[p] /\ Running' = Running
      /\ ServeSubscribe(products) \/ ServeUnsubscribe(products) \/ Refuse
  BY DEF ServeRequest, Serve, handlerVars, Running
<1> HIDE DEF products
<1>4. CASE ServeUnsubscribe(products) \/ Refuse
  <2>1. PICK type \in {"subscriptions", "error"} :
          feed' = Append(feed, [type |-> type]) /\ (p \in subscribed' => p \in subscribed)
    BY <1>4 DEF ServeUnsubscribe, Refuse
  <2>2. /\ Len(feed') = Len(feed) + 1
        /\ \A i \in 1 .. Len(feed) : feed'[i] = feed[i]
        /\ feed'[Len(feed) + 1] = [type |-> type]
    BY <1>1, <2>1, AppendProperties
  <2>3. \A i \in Len(feed) + 1 .. Len(feed') : ~About(feed'[i], p)
    BY <1>1, <2>2 DEF About
  <2> QED
    BY <1>1, <1>3, <2>1, <2>2, <2>3, OthersAppended
<1>5. CASE ServeSubscribe(products)
  <2>1. /\ feed' \in Seq(Messages) /\ Len(feed) < Len(feed')
        /\ \A i \in 1 .. Len(feed) : feed'[i] = feed[i]
        /\ \A i \in Len(feed) + 1 .. Len(feed') :
             \/ feed'[i].type = "subscriptions"
             \/ \E q \in products, ok \in BOOLEAN : feed'[i] = Snapshot(q, ok)
        /\ \A q \in products : \E i \in Len(feed) + 1 .. Len(feed') :
             \E ok \in BOOLEAN : feed'[i] = Snapshot(q, ok)
    BY <1>2, <1>5, SubscriptionAnswer
  <2>2. \A q, ok : /\ Snapshot(q, ok).type = "snapshot" /\ Snapshot(q, ok).product = q
                   /\ BookOf(Snapshot(q, ok)) = [bid |-> book[q].bid, ask |-> book[q].ask]
    BY DEF Snapshot, BookOf
  <2>3. book[p] = [bid |-> book[p].bid, ask |-> book[p].ask]
    BY DEF Types, ExchangeTypes, Books
  <2>4. subscribed' = subscribed \cup products
    BY <1>5 DEF ServeSubscribe
  <2>5. \A i \in Len(feed) + 1 .. Len(feed') : About(feed'[i], p) =>
          /\ p \in products /\ feed'[i].type = "snapshot" /\ BookOf(feed'[i]) = book[p]
    BY <2>1, <2>2, <2>3 DEF About
  <2>6. Len(feed') \in Nat
    BY <2>1, LenProperties
  <2>7. CASE p \in products
    <3>1. PICK s \in Len(feed) + 1 .. Len(feed') : \E ok \in BOOLEAN : feed'[s] = Snapshot(p, ok)
      BY <2>1, <2>7
    <3>2. About(feed'[s], p)
      BY <2>2, <3>1 DEF About
    <3> QED
      BY <1>1, <1>3, <2>1, <2>5, <2>6, <3>2, SnapshotsAppended
  <2>8. CASE p \notin products
    <3>1. Len(feed) <= Len(feed')
      BY <1>1, <2>1, <2>6
    <3> QED
      BY <1>1, <1>3, <2>1, <2>4, <2>5, <2>6, <2>8, <3>1, OthersAppended
  <2> QED
    BY <2>7, <2>8
<1> QED
  BY <1>3, <1>4, <1>5

(* The handler takes a message. *)
LEMMA ReadAccount ==
  ASSUME Types, Account, ReadMessage, NEW p \in Products
  PROVE  Accounted(p)'
<1>1. /\ Accounted(p) /\ Len(feed) \in Nat /\ Len(feed) > 0 /\ Len(feed') = Len(feed) - 1
      /\ \A i \in 1 .. Len(feed') : feed'[i] = feed[i + 1]
      /\ Head(feed) = feed[1]
  BY HeadIsMessage DEF Account, ReadMessage
<1>2. /\ UNCHANGED subscribed /\ book'[p] = book[p] /\ Running
  BY DEF ReadMessage, exchangeVars, Running
<1>3. CASE About(Head(feed), p)
  BY <1>1, <1>2, <1>3, HandlesItsOwn, ItsOwnRead
<1>4. CASE ~About(Head(feed), p)
  BY <1>1, <1>2, <1>4, HandlesOthers, OtherRead
<1> QED
  BY <1>3, <1>4

(* Every step keeps the account. *)
LEMMA NextAccount == Types /\ Account /\ [Next]_vars => Account'
<1> SUFFICES ASSUME Types, Account, [Next]_vars, NEW p \in Products
             PROVE  Accounted(p)'
  BY DEF Account
<1>1. Accounted(p) /\ feed \in Seq(Messages) /\ Len(feed) \in Nat
  BY LenProperties DEF Account, Types, ExchangeTypes
<1>2. ASSUME NEW q \in Products, NEW quote \in Quotes, NEW ok \in BOOLEAN,
             MarketTrade(q, quote, ok)
      PROVE  Accounted(p)'
  <2> DEFINE m == [type |-> "ticker", product |-> q, price |-> quote, parsable |-> ok]
  <2>1. /\ feed' = Append(feed, m)
        /\ UNCHANGED tickTracker /\ UNCHANGED dirty /\ UNCHANGED subscribed /\ UNCHANGED book
        /\ Running' = Running
    BY <1>2 DEF MarketTrade, handlerVars, Running
  <2>2. m.type = "ticker"
    OBVIOUS
  <2> HIDE DEF m
  <2>3. /\ Len(feed') = Len(feed) + 1 /\ feed'[Len(feed) + 1] = m
        /\ \A i \in 1 .. Len(feed) : feed'[i] = feed[i]
    BY <1>1, <2>1, AppendProperties
  <2>4. \A i \in Len(feed) + 1 .. Len(feed') : ~About(feed'[i], p)
    BY <1>1, <2>2, <2>3 DEF About
  <2> QED
    BY <1>1, <2>1, <2>3, <2>4, OthersAppended
<1>3. ASSUME UNCHANGED <<feed, book, subscribed, tickTracker, dirty>>, Running' = Running
      PROVE  Accounted(p)'
  BY <1>1, <1>3, OthersAppended
<1>4. ASSUME NEW universe \in SUBSET Products, UpdateUniverse(universe)
      PROVE  Accounted(p)'
  BY <1>3, <1>4 DEF UpdateUniverse, handlerVars, exchangeVars, Running
<1>5. CASE MainStep
  <2>1. UNCHANGED <<feed, book, subscribed, tickTracker, dirty>>
    BY <1>5 DEF MainStep, ReplaceUniverse, Subscribe, StartStreaming, FeedStrategy,
                handlerVars, exchangeVars
  <2>2. Running' = Running
    BY <1>5 DEF MainStep, ReplaceUniverse, Subscribe, StartStreaming, FeedStrategy,
                handlerVars, Running
  <2> QED
    BY <1>3, <2>1, <2>2
<1>6. CASE UNCHANGED vars
  BY <1>3, <1>6 DEF vars, handlerVars, exchangeVars, Running
<1> QED
  BY <1>2, <1>4, <1>5, <1>6, QuoteAccount, ServeAccount, ReadAccount DEF Next

-----------------------------------------------------------------------------
(* The invariant and what follows from it.  Neither Protocol nor Account   *)
(* needs the other: what is subscribed to, and what is known of it.        *)
IInv == Types /\ Protocol /\ Account

LEMMA Invariance == Spec => []IInv
<1>1. Init => IInv
  BY InitTypes, InitProtocol, InitAccount DEF IInv
<1>2. IInv /\ [Next]_vars => IInv'
  BY NextTypes, NextProtocol, NextAccount DEF IInv
<1> QED
  BY <1>1, <1>2, PTL DEF Spec

(***************************************************************************)
(* The type invariant.                                                     *)
(***************************************************************************)
THEOREM TypeCorrect == Spec => []TypeOK
<1>1. IInv => TypeOK
  BY DEF IInv, Types, TypeOK, ExchangeTypes, MainTypes, Requests, Messages, Answers,
         Snapshots, Updates, Trades
<1> QED
  BY <1>1, Invariance, PTL

(***************************************************************************)
(* Between two calls of updateUniverse, when its requests have been        *)
(* answered, the exchange's subscriptions are currentUniverse_, but for    *)
(* the products of which the last request was refused.                     *)
(***************************************************************************)
THEOREM SubscriptionsFollow == Spec => []SubscriptionFollowsUniverse
<1>1. IInv => SubscriptionFollowsUniverse
  <2> SUFFICES ASSUME IInv, main = "ready", requests = <<>>, NEW p \in Products \ refused
               PROVE  p \in subscribed <=> p \in currentUniverse
    BY DEF SubscriptionFollowsUniverse
  <2>1. Unnamed(p, 1)
    BY DEF Unnamed
  <2> QED
    BY <2>1 DEF IInv, Protocol, Follows, Wanted
<1> QED
  BY <1>1, Invariance, PTL

(***************************************************************************)
(* When all that was sent has arrived, the tracker (tickTracker_) agrees   *)
(* with the exchange's book of every subscribed product none of whose      *)
(* messages was dropped since its last snapshot.                           *)
(***************************************************************************)
THEOREM CatchesUp == Spec => []TrackerCatchesUp
<1>1. IInv => TrackerCatchesUp
  <2> SUFFICES ASSUME IInv, stream = "running", feed = <<>>, NEW p \in subscribed \ dirty
               PROVE  InSync(p)
    BY DEF TrackerCatchesUp
  <2>1. p \in Products
    BY DEF IInv, Types, ExchangeTypes
  <2>2. Running /\ Silent(feed, p, 1, Len(feed))
    BY DEF Running, Silent
  <2> QED
    BY <2>1, <2>2 DEF IInv, Account, Accounted, RestFits
<1> QED
  BY <1>1, Invariance, PTL

(***************************************************************************)
(* Every tick enqueued carries the exchange's best bid and ask as they     *)
(* were after the change that caused it, for a product none of whose       *)
(* messages was dropped since its last snapshot.                           *)
(***************************************************************************)
THEOREM ExactTicks == Spec => TicksAreExact
<1> DEFINE Exact ==
             LET m == Head(feed)
                 e == eventQueue'[Len(eventQueue')]
             IN  /\ feed # <<>> /\ feed' = Tail(feed)
                 /\ m.type = "l2update" /\ eventQueue' # eventQueue
                 /\ m.product \notin dirty
                 => [bid |-> e.tick.bid, ask |-> e.tick.ask] = m.book
<1>1. IInv /\ [Next]_vars => Exact
  <2> SUFFICES ASSUME IInv, [Next]_vars, feed # <<>>, feed' = Tail(feed),
                      Head(feed).type = "l2update", eventQueue' # eventQueue,
                      Head(feed).product \notin dirty
               PROVE  LET e == eventQueue'[Len(eventQueue')]
                      IN  [bid |-> e.tick.bid, ask |-> e.tick.ask] = Head(feed).book
    OBVIOUS
  <2> DEFINE m == Head(feed)
             p == m.product
             t == NextTick(tickTracker[p], m)
  <2>1. /\ Types /\ m \in Messages /\ m = feed[1] /\ 1 \in 1 .. Len(feed) /\ feed' # feed
    <3>1. Types
      BY DEF IInv
    <3>2. /\ Head(feed) \in Messages /\ Head(feed) = feed[1]
          /\ Len(Tail(feed)) = Len(feed) - 1 /\ Len(feed) \in Nat /\ Len(feed) > 0
      BY <3>1, HeadIsMessage
    <3>3. 1 \in 1 .. Len(feed)
      BY <3>2
    <3>4. feed' # feed
      BY <3>1, HeadIsMessage
    <3> QED
      BY <3>1, <3>2, <3>3, <3>4, Zenon
  <2>2. ReadMessage
    <3>1. \/ UNCHANGED eventQueue \/ UNCHANGED feed
          \/ ReadMessage
      <4>1. ASSUME NEW q \in Products, NEW quote \in Quotes, NEW ok \in BOOLEAN,
                   \/ \E side \in Sides : ChangeQuote(q, side, quote, ok)
                   \/ MarketTrade(q, quote, ok)
            PROVE  UNCHANGED eventQueue
        BY <4>1, Zenon DEF ChangeQuote, MarketTrade, handlerVars
      <4>2. ServeRequest => UNCHANGED eventQueue
        BY DEF ServeRequest, handlerVars
      <4>3. \A universe : UpdateUniverse(universe) => UNCHANGED feed
        BY DEF UpdateUniverse
      <4>4. MainStep \/ UNCHANGED vars => UNCHANGED feed
        BY DEF MainStep, ReplaceUniverse, Subscribe, StartStreaming, FeedStrategy, vars
      <4> QED
        BY <4>1, <4>2, <4>3, <4>4 DEF Next
    <3> QED
      BY <2>1, <3>1
  <2>3. m \in Updates /\ HandleTick(m)
    BY <2>1, <2>2, HandlerCases
    DEF ReadMessage, Snapshots, Trades, Answers, handlerVars
  <2>4. p \in Products /\ About(m, p) /\ Running /\ Silent(feed, p, 1, 1 - 1)
    BY <2>2, <2>3 DEF Updates, About, ReadMessage, Running, Silent
  <2>5. tickTracker[p] # NoTick /\ m.book = Changed(View(p), m)
    BY <2>1, <2>4 DEF IInv, Account, Accounted, FirstFits
  <2>6. /\ tickTracker \in [Products -> Ticks \cup {NoTick}]
        /\ eventQueue \in Seq(Events) /\ Len(eventQueue) \in Nat
    BY <2>1, LenProperties DEF Types, HandlerTypeOK
  <2>7. [bid |-> t.bid, ask |-> t.ask] = m.book
    BY <2>3, <2>4, <2>5, <2>6, NextTickChanges DEF View
  <2>8. /\ tickTracker' = [tickTracker EXCEPT ![p] = NextTick(tickTracker[p], m)]
        /\ eventQueue' = Append(eventQueue, [kind |-> "tick", product |-> p,
                                             tick |-> tickTracker'[p]])
    BY <2>3, <2>5 DEF HandleTick, Drop, handlerVars, Enqueue
  <2>9. tickTracker'[p] = t
    BY <2>4, <2>6, <2>8
  <2> HIDE DEF m, p, t
  <2> DEFINE e == [kind |-> "tick", product |-> p, tick |-> t]
  <2>10. e.tick = t
    OBVIOUS
  <2> HIDE DEF e
  <2>11. eventQueue' = Append(eventQueue, e)
    BY <2>8, <2>9 DEF e
  <2>12. eventQueue'[Len(eventQueue')] = e
    BY <2>6, <2>11
  <2> QED
    BY <2>7, <2>10, <2>12 DEF m
<1> HIDE DEF Exact
<1>2. [][Exact]_vars => TicksAreExact
  BY DEF TicksAreExact, Exact
<1> QED
  BY <1>1, <1>2, Invariance, PTL DEF Spec
=============================================================================
