-------------------------- MODULE TradingSession_proofs --------------------------
(***************************************************************************)
(* Proofs that the fills of the user's orders add up, that the handler     *)
(* tracks the live orders, and that orders go forward, for every set of    *)
(* orders, every size, capacity and length of the feed, and any number of  *)
(* calls, restarts and messages that do not parse or lack a field.         *)
(***************************************************************************)
EXTENDS TradingSession, SequenceTheorems, FiniteSetTheorems, TLAPS

(* The messages of the user channel, and the events made of them. *)
Receipts ==
  [type : {"received"}, id : MyOrders, size : {Size, Absent}, parsable : BOOLEAN]
Openings == [type : {"open"}, id : MyOrders, left : Nat, parsable : BOOLEAN]
Matches ==
  [type : {"match"}, order : MyOrders, maker : OrderIds, taker : OrderIds, parsable : BOOLEAN]
Endings == [type : {"done"}, id : MyOrders, parsable : BOOLEAN]

Messages == Receipts \cup Openings \cup Matches \cup Endings

MyStatusEvents ==
  [kind : {"status"}, id : MyOrders, status : {"received", "open", "done"}, left : Nat]
MyEvents == MyStatusEvents \cup TransactionEvents

ExchangeTypes ==
  /\ state \in [MyOrders -> Statuses]
  /\ left \in [MyOrders -> 0 .. Size]
  /\ subscribed \in BOOLEAN /\ inflight \subseteq MyOrders
  /\ requests \in Seq({"subscribe", "unsubscribe"})
  /\ feed \in Seq(Messages)
  /\ errors \in 0 .. MaxErrors
  /\ missed \subseteq MyOrders

MainTypes ==
  /\ hasUniverse \in BOOLEAN
  /\ placing = {} \/ \E o \in MyOrders : placing = {o}
  /\ session \in 1 .. MaxSessions /\ calls \in 0 .. MaxCalls
  /\ lastStatus \in [MyOrders -> Statuses]
  /\ reported \in [OrderIds -> Nat]

(* The handler has heard of the user's orders only. *)
HandlerTypes ==
  /\ tickTracker \in [Products -> Ticks \cup {NoTick}]
  /\ myOrderIds \subseteq MyOrders
  /\ eventQueue \in Seq(MyEvents) /\ Len(eventQueue) <= Capacity
  /\ stream \in {"starting", "running", "failed", "aborted"}

Types == HandlerTypes /\ ExchangeTypes /\ MainTypes

-----------------------------------------------------------------------------
(* The trail of an order: what the strategy heard of it last, then what    *)
(* waits for it in the event queue, then what is under way in the feed.    *)

(* What an event and a message say of order o. *)
OfEvent(e, o) ==
  IF e.kind = "status" /\ e.id = o THEN e.status
  ELSE IF e.kind = "transaction" /\ e.id = o THEN "match" ELSE "none"
OfMessage(m, o) ==
  IF m.type # "match" /\ m.id = o THEN m.type
  ELSE IF m.type = "match" /\ m.order = o THEN "match" ELSE "none"

(* What was said of order o, the oldest first. *)
TrailOf(o, status, queue, messages) ==
  [k \in 0 .. Len(queue) + Len(messages) |->
     IF k = 0 THEN status
     ELSE IF k <= Len(queue) THEN OfEvent(queue[k], o)
     ELSE OfMessage(messages[k - Len(queue)], o)]

(* y may be said after x. *)
MayFollow(x, y) ==
  "none" \in {x, y} \/ (x # "done" /\ y # "received" /\ ~(x = "open" /\ y = "open"))

(* x may have been said of an order in state s. *)
Reached(x, s) ==
  \/ x = "none"
  \/ s = "received" /\ x \notin {"open", "done"}
  \/ s = "open" /\ x # "done"
  \/ s = "done"

InOrder(trail, n, s) ==
  /\ \A i, j \in 0 .. n : i < j => MayFollow(trail[i], trail[j])
  /\ \A i \in 0 .. n : Reached(trail[i], s)

GoesForward(o, status, queue, messages, s) ==
  InOrder(TrailOf(o, status, queue, messages), Len(queue) + Len(messages), s)

(***************************************************************************)
(* The trail of every order goes forward, up to the order's state.         *)
(***************************************************************************)
Forward ==
  \A o \in MyOrders : GoesForward(o, lastStatus[o], eventQueue, feed, state[o])

-----------------------------------------------------------------------------
(* Is there a message of that type about order o in the feed? *)
UnderWay(type, o) == \E i \in 1 .. Len(feed) : OfMessage(feed[i], o) = type

(* The maker or the taker of a match is the user's order. *)
Parties(m) ==
  m.type = "match" => <<m.maker, m.taker>> \in {<<m.order, Other>>, <<Other, m.order>>}

(***************************************************************************)
(* An order of which nothing was missed is in myOrderIds from its receipt  *)
(* to its end, as seen from the handler's place in the feed, and its end   *)
(* comes after all else.                                                   *)
(***************************************************************************)
Followed(o) ==
  /\ state[o] = "none" => o \notin myOrderIds
  /\ UnderWay("received", o) => o \notin myOrderIds
  /\ state[o] # "none" =>
       (o \in myOrderIds \/ UnderWay("received", o) <=> state[o] \in Live \/ UnderWay("done", o))
  /\ state[o] = "done" /\ (\E x \in {"received", "open", "match"} : UnderWay(x, o)) => UnderWay("done", o)

Tracking == Running => \A o \in MyOrders \ missed : Followed(o)

(* Where the transactions and the matches of order o are. *)
Transactions(queue, o) == {i \in 1 .. Len(queue) : OfEvent(queue[i], o) = "match"}
MatchesOf(messages, o) == {i \in 1 .. Len(messages) : OfMessage(messages[i], o) = "match"}

(***************************************************************************)
(* Every unit that matched is in one of three places.                      *)
(***************************************************************************)
Balanced(o) ==
  Size - left[o] =
    reported[o] + Cardinality(Transactions(eventQueue, o)) + Cardinality(MatchesOf(feed, o))

Fills ==
  /\ \A o \in MyOrders : state[o] = "none" => left[o] = Size
  /\ \A i \in 1 .. Len(feed) : Parties(feed[i])
  /\ Running => \A o \in MyOrders \ missed : Balanced(o)

IInv == Types /\ Forward /\ Tracking /\ Fills

-----------------------------------------------------------------------------
(* Types                                                                   *)

LEMMA InitTypes == Init => Types
<1> SUFFICES ASSUME Init
             PROVE  Types
  OBVIOUS
<1> USE DEF Init
<1>1. HandlerTypes
  BY HandlerAssumption DEF HandlerInit, HandlerTypes
<1>2. {Size, MaxSessions, MaxCalls, MaxFeed, MaxErrors} \subseteq Nat /\ Size > 0 /\ MaxSessions > 0
  BY SessionAssumption
<1>3. ExchangeTypes
  <2>1. state \in [MyOrders -> Statuses]
    BY DEF Statuses
  <2>2. left \in [MyOrders -> 0 .. Size]
    BY <1>2
  <2>3. errors \in 0 .. MaxErrors
    BY <1>2
  <2>4. requests \in Seq({"subscribe", "unsubscribe"}) /\ feed \in Seq(Messages)
    OBVIOUS
  <2> QED
    BY <2>1, <2>2, <2>3, <2>4 DEF ExchangeTypes
<1>4. MainTypes
  <2>1. lastStatus \in [MyOrders -> Statuses] /\ reported \in [OrderIds -> Nat]
    BY DEF Statuses
  <2>2. session \in 1 .. MaxSessions /\ calls \in 0 .. MaxCalls
    BY <1>2
  <2> QED
    BY <2>1, <2>2 DEF MainTypes
<1> QED
  BY <1>1, <1>3, <1>4 DEF Types

(* A message waits at the head of the feed. *)
LEMMA HeadIsMessage ==
  ASSUME Types, feed # <<>>
  PROVE  /\ Head(feed) \in Messages /\ Head(feed) = feed[1]
         /\ Tail(feed) \in Seq(Messages) /\ Len(Tail(feed)) = Len(feed) - 1
         /\ \A i \in 1 .. Len(Tail(feed)) : Tail(feed)[i] = feed[i + 1]
         /\ Len(feed) \in Nat /\ Len(feed) > 0
<1>1. feed \in Seq(Messages)
  BY DEF Types, ExchangeTypes
<1> QED
  BY <1>1, HeadTailProperties, EmptySeq

(* An event waits at the head of the queue. *)
LEMMA HeadIsEvent ==
  ASSUME Types, eventQueue # <<>>
  PROVE  /\ Head(eventQueue) \in MyEvents /\ Head(eventQueue) = eventQueue[1]
         /\ Tail(eventQueue) \in Seq(MyEvents)
         /\ Len(Tail(eventQueue)) = Len(eventQueue) - 1
         /\ \A i \in 1 .. Len(Tail(eventQueue)) : Tail(eventQueue)[i] = eventQueue[i + 1]
         /\ Len(eventQueue) \in Nat /\ Len(eventQueue) > 0
<1>1. eventQueue \in Seq(MyEvents)
  BY DEF Types, HandlerTypes
<1> QED
  BY <1>1, HeadTailProperties, EmptySeq

(* What the exchange sends of an order, or does not send. *)
LEMMA EmitTypes ==
  ASSUME Types, NEW o \in MyOrders, NEW m \in Messages, Emit(o, m)
  PROVE  /\ feed' \in Seq(Messages) /\ missed' \subseteq MyOrders
         /\ errors' \in 0 .. MaxErrors
<1>1. feed \in Seq(Messages) /\ missed \subseteq MyOrders /\ errors \in 0 .. MaxErrors
  BY DEF Types, ExchangeTypes
<1>2. CASE subscribed
  <2>1. /\ feed' = Append(feed, m) /\ UNCHANGED missed
        /\ errors' = errors \/ errors' = errors + 1
        /\ errors' <= MaxErrors
    BY <1>2 DEF Emit
  <2> QED
    BY <1>1, <2>1, SessionAssumption
<1>3. CASE ~subscribed
  BY <1>1, <1>3 DEF Emit
<1> QED
  BY <1>2, <1>3

(* Four kinds of messages of the matching engine. *)
LEMMA EngineTypes ==
  ASSUME Types, NEW o \in MyOrders, NEW from, NEW to \in Statuses, NEW m \in Messages,
         Engine(o, from, to, m)
  PROVE  /\ HandlerTypes' /\ MainTypes'
         /\ state' \in [MyOrders -> Statuses] /\ UNCHANGED <<subscribed, requests>>
         /\ feed' \in Seq(Messages) /\ missed' \subseteq MyOrders
         /\ errors' \in 0 .. MaxErrors
<1>1. Emit(o, m) /\ UNCHANGED <<handlerVars, subscribed, requests, mainVars, lastStatus, reported>>
  BY DEF Engine
<1>2. HandlerTypes' /\ MainTypes'
  BY <1>1 DEF Types, HandlerTypes, MainTypes, handlerVars, mainVars
<1>3. state' \in [MyOrders -> Statuses]
  BY DEF Engine, Types, ExchangeTypes
<1> QED
  BY <1>1, <1>2, <1>3, EmitTypes

LEMMA MessageTypes ==
  ASSUME Types, NEW o \in MyOrders, NEW ok \in BOOLEAN
  PROVE  /\ Received(o, Size, ok) \in Messages /\ Received(o, Absent, ok) \in Messages
         /\ [type |-> "open", id |-> o, left |-> left[o], parsable |-> ok] \in Messages
         /\ [type |-> "match", order |-> o, parsable |-> ok,
             maker |-> IF state[o] = "open" THEN o ELSE Other,
             taker |-> IF state[o] = "open" THEN Other ELSE o] \in Messages
         /\ [type |-> "done", id |-> o, parsable |-> ok] \in Messages
<1>1. left[o] \in Nat
  BY SessionAssumption DEF Types, ExchangeTypes
<1>2. o \in OrderIds /\ Other \in OrderIds
  BY SessionAssumption
<1> QED
  BY <1>1, <1>2 DEF Received, Messages, Receipts, Openings, Matches, Endings

LEMMA EnqueueTypes ==
  ASSUME HandlerTypes, NEW e \in MyEvents, Enqueue(e)
  PROVE  eventQueue' \in Seq(MyEvents) /\ Len(eventQueue') <= Capacity
BY HandlerAssumption DEF HandlerTypes, Enqueue

(* What the handler may do with a message: the types of its fields decide. *)
LEMMA HandlerCases ==
  ASSUME NEW m \in Messages, OnMessage(m)
  PROVE  \/ m \in Receipts /\ HandleOrderReceipt(m)
         \/ m \in Openings /\ HandleOrderOpen(m)
         \/ m \in Matches /\ HandleOrderMatch(m)
         \/ m \in Endings /\ HandleOrderDone(m)
BY DEF OnMessage, Messages, Receipts, Openings, Matches, Endings

(* The event of a message, if there is one. *)
EventOf(m) ==
  CASE m.type = "received" -> OrderStatus(m, "received", m.size)
    [] m.type = "open" -> OrderStatus(m, "open", m.left)
    [] m.type = "done" -> OrderStatus(m, "done", 0)
    [] m.type = "match" -> [kind |-> "transaction",
                            id |-> IF m.maker \in myOrderIds THEN m.maker ELSE m.taker]

Tracked(m) ==
  CASE m.type = "received" -> myOrderIds \cup {m.id}
    [] m.type = "done" -> myOrderIds \ {m.id}
    [] OTHER -> myOrderIds

(***************************************************************************)
(* Each handler enqueues the event of the message, or stops the stream     *)
(* thread.                                                                 *)
(***************************************************************************)
LEMMA Handling ==
  ASSUME Types, NEW m \in Messages, OnMessage(m)
  PROVE  /\ UNCHANGED tickTracker
         /\ \/ /\ EventOf(m) \in MyEvents /\ Enqueue(EventOf(m))
               /\ UNCHANGED stream
               /\ myOrderIds' = Tracked(m)
            \/ /\ stream' \in {"failed", "aborted"}
               /\ UNCHANGED eventQueue
               /\ myOrderIds' \subseteq MyOrders
<1>1. myOrderIds \subseteq MyOrders
  BY DEF Types, HandlerTypes
<1>2. CASE m \in Receipts /\ HandleOrderReceipt(m)
  <2>1. m.type = "received" /\ m.id \in MyOrders /\ m.size \in {Size, Absent}
    BY <1>2 DEF Receipts
  <2>2. myOrderIds' = Tracked(m) /\ myOrderIds' \subseteq MyOrders
    BY <1>1, <1>2, <2>1 DEF HandleOrderReceipt, Tracked
  <2>3. EventOf(m) = OrderStatus(m, "received", m.size)
    BY <2>1 DEF EventOf
  <2>4. m.size # Absent => EventOf(m) \in MyEvents
    BY <2>1, <2>3, SessionAssumption DEF OrderStatus, MyEvents, MyStatusEvents
  <2> QED
    BY <1>2, <2>2, <2>3, <2>4 DEF HandleOrderReceipt, Throw, Abort
<1>3. CASE m \in Openings /\ HandleOrderOpen(m)
  <2>1. m.type = "open" /\ m.id \in MyOrders /\ m.left \in Nat
    BY <1>3 DEF Openings
  <2>2. EventOf(m) = OrderStatus(m, "open", m.left) /\ Tracked(m) = myOrderIds
    BY <2>1 DEF EventOf, Tracked
  <2>3. EventOf(m) \in MyEvents
    BY <2>1, <2>2 DEF OrderStatus, MyEvents, MyStatusEvents
  <2> QED
    BY <1>1, <1>3, <2>2, <2>3 DEF HandleOrderOpen, Throw
<1>4. CASE m \in Matches /\ HandleOrderMatch(m)
  <2>1. m.type = "match" /\ m.maker \in OrderIds /\ m.taker \in OrderIds
    BY <1>4 DEF Matches
  <2>2. /\ EventOf(m) = [kind |-> "transaction",
                         id |-> IF m.maker \in myOrderIds THEN m.maker ELSE m.taker]
        /\ Tracked(m) = myOrderIds
    BY <2>1 DEF EventOf, Tracked
  <2>3. EventOf(m) \in MyEvents
    BY <2>1, <2>2 DEF MyEvents, TransactionEvents
  <2> QED
    BY <1>1, <1>4, <2>2, <2>3 DEF HandleOrderMatch, Throw
<1>5. CASE m \in Endings /\ HandleOrderDone(m)
  <2>1. m.type = "done" /\ m.id \in MyOrders
    BY <1>5 DEF Endings
  <2>2. EventOf(m) = OrderStatus(m, "done", 0)
    BY <2>1 DEF EventOf
  <2>3. EventOf(m) \in MyEvents
    BY <2>1, <2>2 DEF OrderStatus, MyEvents, MyStatusEvents
  <2>4. myOrderIds' = Tracked(m) /\ myOrderIds' \subseteq MyOrders
    BY <1>1, <1>5, <2>1 DEF HandleOrderDone, Tracked
  <2> QED
    BY <1>5, <2>2, <2>3, <2>4 DEF HandleOrderDone, Throw
<1> QED
  BY <1>2, <1>3, <1>4, <1>5, HandlerCases


(* A step of the matching engine. *)
LEMMA EngineStepTypes ==
  ASSUME Types, NEW o \in MyOrders, NEW ok \in BOOLEAN,
         Accept(o, ok) \/ Open(o, ok) \/ Match(o, ok) \/ Done(o, ok)
  PROVE  Types'
<1>1. /\ left \in [MyOrders -> 0 .. Size] /\ inflight \subseteq MyOrders /\ state \in [MyOrders -> Statuses]
      /\ subscribed \in BOOLEAN /\ requests \in Seq({"subscribe", "unsubscribe"})
  BY DEF Types, ExchangeTypes
<1>2. CASE Accept(o, ok)
  <2>1. PICK size \in {Size, Absent} : Engine(o, {"none"}, "received", Received(o, size, ok))
    BY <1>2 DEF Accept
  <2>2. Received(o, size, ok) \in Messages /\ "received" \in Statuses
    BY MessageTypes DEF Statuses
  <2>3. left' = left /\ inflight' \subseteq MyOrders
    BY <1>1, <1>2 DEF Accept
  <2> QED
    BY <1>1, <2>1, <2>2, <2>3, EngineTypes DEF Types, ExchangeTypes
<1>3. CASE Open(o, ok)
  <2>1. "open" \in Statuses
    BY DEF Statuses
  <2> QED
    BY <1>1, <1>3, <2>1, EngineTypes, MessageTypes DEF Open, Types, ExchangeTypes
<1>4. CASE Match(o, ok)
  <2>1. left' \in [MyOrders -> 0 .. Size]
    BY <1>1, <1>4, SessionAssumption DEF Match
  <2>2. state[o] \in Statuses /\ inflight' = inflight
    BY <1>1, <1>4 DEF Match
  <2>3. Engine(o, Live, state[o],
            [type |-> "match", order |-> o, parsable |-> ok,
             maker |-> IF state[o] = "open" THEN o ELSE Other,
             taker |-> IF state[o] = "open" THEN Other ELSE o])
    BY <1>4 DEF Match
  <2> QED
    BY <1>1, <2>1, <2>2, <2>3, EngineTypes, MessageTypes DEF Types, ExchangeTypes
<1>5. CASE Done(o, ok)
  <2>1. "done" \in Statuses
    BY DEF Statuses
  <2> QED
    BY <1>1, <1>5, <2>1, EngineTypes, MessageTypes DEF Done, Types, ExchangeTypes
<1> QED
  BY <1>2, <1>3, <1>4, <1>5

LEMMA NextTypes == Types /\ [Next]_vars => Types'
<1> SUFFICES ASSUME Types, [Next]_vars
             PROVE  Types'
  OBVIOUS
<1>1. /\ HandlerTypes /\ ExchangeTypes /\ MainTypes
      /\ {Size, MaxSessions, MaxCalls, MaxFeed, MaxErrors} \subseteq Nat
  BY SessionAssumption DEF Types
<1>2. CASE \E o \in MyOrders, ok \in BOOLEAN :
             Accept(o, ok) \/ Open(o, ok) \/ Match(o, ok) \/ Done(o, ok)
  BY <1>2, EngineStepTypes
<1>3. CASE \E o \in MyOrders : Reject(o)
  <2>1. PICK o \in MyOrders : Reject(o)
    BY <1>3
  <2>2. /\ inflight' = inflight \ {o}
        /\ UNCHANGED <<handlerVars, state, left, subscribed, socketVars, mainVars, errors, historyVars>>
    BY <2>1 DEF Reject
  <2> QED
    BY <1>1, <2>2 DEF Types, HandlerTypes, ExchangeTypes, MainTypes, handlerVars, socketVars,
                      mainVars, historyVars
<1>4. CASE ServeRequest
  <2>1. requests' \in Seq({"subscribe", "unsubscribe"})
    BY <1>1, <1>4 DEF ServeRequest, ExchangeTypes
  <2>2. subscribed' \in BOOLEAN /\ errors' \in 0 .. MaxErrors
    <3>1. subscribed \in BOOLEAN /\ errors \in 0 .. MaxErrors
      BY <1>1 DEF ExchangeTypes
    <3>2. subscribed' \in BOOLEAN
      BY <1>4, <3>1, Zenon DEF ServeRequest
    <3>3. errors' = errors \/ (errors < MaxErrors /\ errors' = errors + 1)
      BY <1>4, Zenon DEF ServeRequest
    <3>4. errors' \in 0 .. MaxErrors
      BY <1>1, <3>1, <3>3
    <3> QED
      BY <3>2, <3>4
  <2> QED
    BY <1>1, <1>4, <2>1, <2>2 DEF ServeRequest, Types, HandlerTypes, ExchangeTypes, MainTypes,
                                  handlerVars, mainVars, historyVars
<1>5. CASE UpdateUniverse
  <2>1. requests' \in Seq({"subscribe", "unsubscribe"})
    <3>1. requests \in Seq({"subscribe", "unsubscribe"})
      BY <1>1 DEF ExchangeTypes
    <3>2. CASE hasUniverse
      <4>1. <<"unsubscribe", "subscribe">> \in Seq({"subscribe", "unsubscribe"})
        OBVIOUS
      <4>2. requests' = requests \o <<"unsubscribe", "subscribe">>
        BY <1>5, <3>2 DEF UpdateUniverse
      <4> QED
        BY <3>1, <4>1, <4>2, ConcatProperties
    <3>3. CASE ~hasUniverse
      <4>1. <<"subscribe">> \in Seq({"subscribe", "unsubscribe"})
        OBVIOUS
      <4>2. requests' = requests \o <<"subscribe">>
        BY <1>5, <3>3 DEF UpdateUniverse
      <4> QED
        BY <3>1, <4>1, <4>2, ConcatProperties
    <3> QED
      BY <3>2, <3>3
  <2>2. calls' \in 0 .. MaxCalls
    BY <1>1, <1>5 DEF UpdateUniverse, MainTypes
  <2> QED
    BY <1>1, <1>5, <2>1, <2>2 DEF UpdateUniverse, Types, HandlerTypes, ExchangeTypes, MainTypes,
                                  handlerVars, exchangeVars, historyVars
<1>6. CASE \E o \in MyOrders : PlaceOrder(o)
  <2>1. PICK o \in MyOrders : PlaceOrder(o)
    BY <1>6
  <2>2. calls' \in 0 .. MaxCalls
    BY <1>1, <2>1 DEF PlaceOrder, MainTypes
  <2> QED
    BY <1>1, <2>1, <2>2 DEF PlaceOrder, Types, HandlerTypes, ExchangeTypes, MainTypes,
                            handlerVars, socketVars, historyVars
<1>7. CASE PlaceOrderReturns
  BY <1>1, <1>7 DEF PlaceOrderReturns, Types, HandlerTypes, ExchangeTypes, MainTypes,
                    handlerVars, exchangeVars, socketVars, historyVars
<1>8. CASE StartStreaming
  BY <1>1, <1>8 DEF StartStreaming, Types, HandlerTypes, ExchangeTypes, MainTypes,
                    exchangeVars, socketVars, mainVars, historyVars
<1>9. CASE FeedStrategy
  <2> DEFINE e == Head(eventQueue)
  <2>1. eventQueue # <<>> /\ eventQueue' = Tail(eventQueue)
    BY <1>9 DEF FeedStrategy
  <2>2. e \in MyEvents /\ eventQueue' \in Seq(MyEvents) /\ Len(eventQueue') <= Capacity
    BY <1>1, <2>1, HeadIsEvent, HandlerAssumption DEF HandlerTypes
  <2>3. /\ \/ /\ e.kind = "status"
              /\ lastStatus' = [lastStatus EXCEPT ![e.id] = e.status] /\ UNCHANGED reported
           \/ /\ e.kind = "transaction"
              /\ reported' = [reported EXCEPT ![e.id] = @ + 1] /\ UNCHANGED lastStatus
        /\ UNCHANGED <<tickTracker, myOrderIds, stream, exchangeVars, socketVars, mainVars,
                       errors, missed>>
    BY <1>9 DEF FeedStrategy
  <2> HIDE DEF e
  <2>4. lastStatus' \in [MyOrders -> Statuses] /\ reported' \in [OrderIds -> Nat]
    BY <1>1, <2>2, <2>3 DEF MainTypes, MyEvents, MyStatusEvents, TransactionEvents, Statuses
  <2> QED
    BY <1>1, <2>2, <2>3, <2>4 DEF Types, HandlerTypes, ExchangeTypes, MainTypes,
                                  exchangeVars, socketVars, mainVars
<1>10. CASE ReadMessage
  <2> DEFINE m == Head(feed)
  <2>1. feed # <<>> /\ OnMessage(m) /\ feed' = Tail(feed)
        /\ UNCHANGED <<exchangeVars, requests, mainVars, errors, historyVars>>
    BY <1>10 DEF ReadMessage
  <2>2. m \in Messages /\ feed' \in Seq(Messages)
    BY <2>1, HeadIsMessage
  <2> HIDE DEF m
  <2>3. /\ UNCHANGED tickTracker
        /\ \/ EventOf(m) \in MyEvents /\ Enqueue(EventOf(m)) /\ UNCHANGED stream
              /\ myOrderIds' = Tracked(m)
           \/ stream' \in {"failed", "aborted"} /\ UNCHANGED eventQueue /\ myOrderIds' \subseteq MyOrders
    BY <2>1, <2>2, Handling
  <2>4. Tracked(m) \subseteq MyOrders
    BY <1>1, <2>2 DEF Tracked, Messages, Receipts, Openings, Matches, Endings, HandlerTypes
  <2>5. HandlerTypes'
    BY <1>1, <2>3, <2>4, EnqueueTypes DEF HandlerTypes
  <2> QED
    BY <1>1, <2>1, <2>2, <2>5 DEF Types, ExchangeTypes, MainTypes,
                                  exchangeVars, mainVars, historyVars
<1>11. CASE Restart
  <2>1. session' \in 1 .. MaxSessions
    BY <1>1, <1>11 DEF Restart, MainTypes
  <2>2. lastStatus' \in [MyOrders -> Statuses] /\ reported' \in [OrderIds -> Nat]
    BY <1>11 DEF Restart, Statuses
  <2>3. HandlerTypes'
    BY <1>11, HandlerAssumption DEF Restart, HandlerTypes
  <2>4. ExchangeTypes'
    <3>1. missed' \subseteq MyOrders
      BY <1>1, <1>11 DEF Restart, ExchangeTypes
    <3>2. /\ UNCHANGED <<state, left, inflight, errors>>
          /\ subscribed' = FALSE /\ requests' = <<>> /\ feed' = <<>>
      BY <1>11 DEF Restart
    <3>3. feed' \in Seq(Messages) /\ requests' \in Seq({"subscribe", "unsubscribe"})
      BY <3>2
    <3> QED
      BY <1>1, <3>1, <3>2, <3>3 DEF ExchangeTypes
  <2> QED
    BY <1>1, <1>11, <2>1, <2>2, <2>3, <2>4 DEF Restart, Types, MainTypes
<1>12. CASE UNCHANGED vars
  BY <1>1, <1>12 DEF vars, Types, HandlerTypes, ExchangeTypes, MainTypes,
                     handlerVars, exchangeVars, socketVars, mainVars, historyVars
<1> QED
  BY <1>2, <1>3, <1>4, <1>5, <1>6, <1>7, <1>8, <1>9, <1>10, <1>11, <1>12 DEF Next, Answer, MainStep

(* What TypeOK says of the state. *)
LEMMA TypesAreTypeOK == Types => TypeOK
<1> SUFFICES ASSUME Types
             PROVE  TypeOK
  OBVIOUS
<1>1. /\ HandlerTypes /\ ExchangeTypes /\ MainTypes
      /\ OrderIds = MyOrders \cup {Other}
  BY SessionAssumption DEF Types
<1>2. HandlerTypeOK
  <2>1. MyEvents \subseteq Events
    BY <1>1 DEF MyEvents, MyStatusEvents, Events, StatusEvents
  <2>2. eventQueue \in Seq(Events)
    BY <1>1, <2>1 DEF HandlerTypes
  <2> QED
    BY <1>1, <2>2 DEF HandlerTypes, HandlerTypeOK
<1>3. {feed[i].type : i \in DOMAIN feed} \subseteq {"received", "open", "match", "done"}
  <2>1. \A m \in Messages : m.type \in {"received", "open", "match", "done"}
    BY DEF Messages, Receipts, Openings, Matches, Endings
  <2>2. \A i \in DOMAIN feed : feed[i] \in Messages
    BY <1>1 DEF ExchangeTypes
  <2> QED
    BY <2>1, <2>2
<1>4. placing \subseteq MyOrders /\ Cardinality(placing) <= 1
  BY <1>1, FS_Singleton, FS_EmptySet DEF MainTypes
<1> QED
  BY <1>1, <1>2, <1>3, <1>4 DEF TypeOK, ExchangeTypes, MainTypes

-----------------------------------------------------------------------------
(* Trails                                                                  *)

(* More was said at the end, or the order's state went on. *)
LEMMA Extended ==
  ASSUME NEW t, NEW u, NEW n \in Nat, NEW s, NEW s2, InOrder(t, n, s),
         \A i \in 0 .. n : u[i] = t[i],
         \A x : Reached(x, s) => MayFollow(x, u[n + 1]) /\ Reached(x, s2),
         Reached(u[n + 1], s2)
  PROVE  InOrder(u, n + 1, s2)
<1>1. \A i, j \in 0 .. n + 1 : i < j => MayFollow(u[i], u[j])
  <2> SUFFICES ASSUME NEW i \in 0 .. n + 1, NEW j \in 0 .. n + 1, i < j
               PROVE  MayFollow(u[i], u[j])
    OBVIOUS
  <2>1. i \in 0 .. n /\ u[i] = t[i] /\ Reached(t[i], s)
    BY DEF InOrder
  <2>2. CASE j = n + 1
    BY <2>1, <2>2
  <2>3. CASE j \in 0 .. n
    BY <2>1, <2>3 DEF InOrder
  <2> QED
    BY <2>2, <2>3
<1>2. \A i \in 0 .. n + 1 : Reached(u[i], s2)
  <2> SUFFICES ASSUME NEW i \in 0 .. n + 1
               PROVE  Reached(u[i], s2)
    OBVIOUS
  <2>1. CASE i \in 0 .. n
    BY <2>1 DEF InOrder
  <2>2. CASE i = n + 1
    BY <2>2
  <2> QED
    BY <2>1, <2>2
<1> QED
  BY <1>1, <1>2 DEF InOrder

(* Something was forgotten: h says where each item that is left was. *)
LEMMA Thinned ==
  ASSUME NEW t, NEW u, NEW n \in Nat, NEW k \in Nat, NEW s, InOrder(t, n, s),
         NEW h \in [0 .. k -> 0 .. n],
         \A i, j \in 0 .. k : i < j => h[i] < h[j],
         \A i \in 0 .. k : u[i] = "none" \/ u[i] = t[h[i]]
  PROVE  InOrder(u, k, s)
<1>1. \A i, j \in 0 .. k : i < j => MayFollow(u[i], u[j])
  <2> SUFFICES ASSUME NEW i \in 0 .. k, NEW j \in 0 .. k, i < j
               PROVE  MayFollow(u[i], u[j])
    OBVIOUS
  <2>1. h[i] \in 0 .. n /\ h[j] \in 0 .. n /\ h[i] < h[j]
    OBVIOUS
  <2>2. MayFollow(t[h[i]], t[h[j]])
    BY <2>1 DEF InOrder
  <2>3. CASE u[i] = t[h[i]] /\ u[j] = t[h[j]]
    BY <2>2, <2>3
  <2>4. CASE u[i] = "none" \/ u[j] = "none"
    BY <2>4 DEF MayFollow
  <2> QED
    BY <2>3, <2>4
<1>2. \A i \in 0 .. k : Reached(u[i], s)
  BY DEF InOrder, Reached
<1> QED
  BY <1>1, <1>2 DEF InOrder

LEMMA TrailStart ==
  ASSUME NEW o, NEW status, NEW queue \in Seq(MyEvents), NEW messages \in Seq(Messages)
  PROVE  TrailOf(o, status, queue, messages)[0] = status
<1>1. 0 \in 0 .. Len(queue) + Len(messages)
  BY LenProperties
<1> QED
  BY <1>1 DEF TrailOf

LEMMA TrailOfEvents ==
  ASSUME NEW o, NEW status, NEW queue \in Seq(MyEvents), NEW messages \in Seq(Messages),
         NEW i \in 1 .. Len(queue)
  PROVE  TrailOf(o, status, queue, messages)[i] = OfEvent(queue[i], o)
<1>1. i \in 0 .. Len(queue) + Len(messages) /\ i # 0 /\ i <= Len(queue)
  BY LenProperties
<1> QED
  BY <1>1 DEF TrailOf

LEMMA TrailOfMessages ==
  ASSUME NEW o, NEW status, NEW queue \in Seq(MyEvents), NEW messages \in Seq(Messages),
         NEW i \in 1 .. Len(messages)
  PROVE  TrailOf(o, status, queue, messages)[Len(queue) + i] = OfMessage(messages[i], o)
<1> DEFINE k == Len(queue) + i
<1>1. /\ k \in 0 .. Len(queue) + Len(messages) /\ k # 0 /\ ~(k <= Len(queue))
      /\ k - Len(queue) = i
  BY LenProperties
<1> HIDE DEF k
<1>2. TrailOf(o, status, queue, messages)[k] = OfMessage(messages[k - Len(queue)], o)
  BY <1>1 DEF TrailOf
<1> QED
  BY <1>1, <1>2 DEF k

TrailIs(t, o, status, queue, messages) ==
  /\ t[0] = status
  /\ \A i \in 1 .. Len(queue) : t[i] = OfEvent(queue[i], o)
  /\ \A i \in 1 .. Len(messages) : t[Len(queue) + i] = OfMessage(messages[i], o)

LEMMA TrailAt ==
  ASSUME NEW o, NEW status, NEW queue \in Seq(MyEvents), NEW messages \in Seq(Messages)
  PROVE  TrailIs(TrailOf(o, status, queue, messages), o, status, queue, messages)
BY TrailStart, TrailOfEvents, TrailOfMessages DEF TrailIs

(* The exchange sends a message. *)
LEMMA ForwardSend ==
  ASSUME NEW o, NEW status, NEW queue \in Seq(MyEvents), NEW messages \in Seq(Messages),
         NEW s, NEW s2, NEW m \in Messages, GoesForward(o, status, queue, messages, s),
         \A x : Reached(x, s) => MayFollow(x, OfMessage(m, o)) /\ Reached(x, s2),
         Reached(OfMessage(m, o), s2)
  PROVE  GoesForward(o, status, queue, Append(messages, m), s2)
<1> DEFINE q == Len(queue)
           n == Len(messages)
           longer == Append(messages, m)
           t == TrailOf(o, status, queue, messages)
           u == TrailOf(o, status, queue, longer)
<1>1. /\ longer \in Seq(Messages) /\ Len(longer) = n + 1
      /\ \A i \in 1 .. n : longer[i] = messages[i]
      /\ longer[n + 1] = m
  BY AppendProperties
<1>2. q \in Nat /\ n \in Nat
  BY LenProperties
<1>3. TrailIs(t, o, status, queue, messages)
  BY TrailAt
<1>4. TrailIs(u, o, status, queue, longer)
  BY <1>1, TrailAt
<1>5. InOrder(t, q + n, s)
  BY DEF GoesForward
<1> HIDE DEF q, n, longer, t, u
<1>t. /\ t[0] = status
      /\ \A i \in 1 .. q : t[i] = OfEvent(queue[i], o)
      /\ \A i \in 1 .. n : t[q + i] = OfMessage(messages[i], o)
  BY <1>3 DEF TrailIs, q, n
<1>u. /\ u[0] = status
      /\ \A i \in 1 .. q : u[i] = OfEvent(queue[i], o)
      /\ \A i \in 1 .. Len(longer) : u[q + i] = OfMessage(longer[i], o)
  BY <1>4 DEF TrailIs, q, n
<1>6. ASSUME NEW i \in 0 .. q + n
      PROVE  u[i] = t[i]
  <2>1. CASE i = 0
    BY <1>t, <1>u, <2>1
  <2>2. CASE i \in 1 .. q
    BY <1>t, <1>u, <2>2
  <2>3. CASE i \in q + 1 .. q + n
    <3> DEFINE j == i - q
    <3>1. j \in 1 .. n /\ j \in 1 .. Len(longer) /\ i = q + j
      BY <1>1, <1>2, <2>3
    <3> HIDE DEF j
    <3>2. u[q + j] = OfMessage(longer[j], o) /\ t[q + j] = OfMessage(messages[j], o)
      BY <1>t, <1>u, <3>1
    <3> QED
      BY <1>1, <3>1, <3>2
  <2> QED
    BY <1>2, <2>1, <2>2, <2>3
<1>7. q + n + 1 = q + (n + 1) /\ n + 1 \in 1 .. n + 1 /\ q + n \in Nat
  BY <1>2
<1>8. u[q + n + 1] = OfMessage(m, o)
  BY <1>1, <1>u, <1>7
<1>9. InOrder(u, q + n + 1, s2)
  BY <1>5, <1>6, <1>7, <1>8, Extended
<1> QED
  BY <1>1, <1>7, <1>9 DEF GoesForward, u, q, longer

(* The order's state goes on and no message is sent. *)
LEMMA ForwardSilently ==
  ASSUME NEW o, NEW status, NEW queue, NEW messages, NEW s, NEW s2,
         GoesForward(o, status, queue, messages, s), \A x : Reached(x, s) => Reached(x, s2)
  PROVE  GoesForward(o, status, queue, messages, s2)
BY DEF GoesForward, InOrder

(* The handler enqueues the event of a message, which concerns order o or  *)
(* does not.                                                               *)
LEMMA ForwardHandled ==
  ASSUME NEW o, NEW status, NEW queue \in Seq(MyEvents), NEW messages \in Seq(Messages),
         NEW s, GoesForward(o, status, queue, messages, s), messages # <<>>,
         NEW e \in MyEvents,
         OfEvent(e, o) = "none" \/ OfEvent(e, o) = OfMessage(Head(messages), o)
  PROVE  GoesForward(o, status, Append(queue, e), Tail(messages), s)
<1> DEFINE q == Len(queue)
           n == Len(messages)
           longer == Append(queue, e)
           rest == Tail(messages)
           t == TrailOf(o, status, queue, messages)
           u == TrailOf(o, status, longer, rest)
           h == [i \in 0 .. q + n |-> i]
<1>1. /\ longer \in Seq(MyEvents) /\ Len(longer) = q + 1
      /\ \A i \in 1 .. q : longer[i] = queue[i]
      /\ longer[q + 1] = e
  BY AppendProperties
<1>2. /\ q \in Nat /\ n \in Nat /\ n > 0
      /\ rest \in Seq(Messages) /\ Len(rest) = n - 1
      /\ \A i \in 1 .. Len(rest) : rest[i] = messages[i + 1]
      /\ Head(messages) = messages[1]
  BY HeadTailProperties, LenProperties, EmptySeq
<1>3. TrailIs(t, o, status, queue, messages)
  BY TrailAt
<1>4. TrailIs(u, o, status, longer, rest)
  BY <1>1, <1>2, TrailAt
<1>5. InOrder(t, q + n, s)
  BY DEF GoesForward
<1>6. OfEvent(e, o) = "none" \/ OfEvent(e, o) = OfMessage(messages[1], o)
  BY <1>2
<1>7. q + n \in Nat /\ h \in [0 .. q + n -> 0 .. q + n] /\ \A i \in 0 .. q + n : h[i] = i
  BY <1>2
<1> HIDE DEF q, n, longer, rest, t, u, h
<1>t. /\ t[0] = status
      /\ \A i \in 1 .. q : t[i] = OfEvent(queue[i], o)
      /\ \A i \in 1 .. n : t[q + i] = OfMessage(messages[i], o)
  BY <1>3 DEF TrailIs, q, n
<1>u. /\ u[0] = status
      /\ \A i \in 1 .. Len(longer) : u[i] = OfEvent(longer[i], o)
      /\ \A i \in 1 .. Len(rest) : u[Len(longer) + i] = OfMessage(rest[i], o)
  BY <1>4 DEF TrailIs, q, n
<1>8. ASSUME NEW i \in 0 .. q + n
      PROVE  u[i] = "none" \/ u[i] = t[i]
  <2>1. CASE i = 0
    BY <1>t, <1>u, <2>1
  <2>2. CASE i \in 1 .. q
    <3>1. i \in 1 .. Len(longer)
      BY <1>1, <1>2, <2>2
    <3> QED
      BY <1>1, <1>t, <1>u, <2>2, <3>1
  <2>3. CASE i = q + 1
    <3>1. i \in 1 .. Len(longer) /\ 1 \in 1 .. n
      BY <1>1, <1>2, <2>3
    <3>2. u[i] = OfEvent(e, o) /\ t[q + 1] = OfMessage(messages[1], o)
      BY <1>1, <1>t, <1>u, <2>3, <3>1
    <3> QED
      BY <1>6, <2>3, <3>2
  <2>4. CASE i \in q + 2 .. q + n
    <3> DEFINE j == i - q - 1
    <3>1. /\ j \in 1 .. Len(rest) /\ j + 1 \in 1 .. n
          /\ i = Len(longer) + j /\ i = q + (j + 1)
      BY <1>1, <1>2, <2>4
    <3> HIDE DEF j
    <3>2. u[Len(longer) + j] = OfMessage(rest[j], o) /\ rest[j] = messages[j + 1]
      BY <1>2, <1>u, <3>1
    <3>3. t[q + (j + 1)] = OfMessage(messages[j + 1], o)
      BY <1>t, <3>1
    <3> QED
      BY <3>1, <3>2, <3>3
  <2> QED
    BY <1>2, <2>1, <2>2, <2>3, <2>4
<1>9. InOrder(u, q + n, s)
  <2>1. \A i, j \in 0 .. q + n : i < j => h[i] < h[j]
    BY <1>7
  <2>2. \A i \in 0 .. q + n : u[i] = "none" \/ u[i] = t[h[i]]
    BY <1>7, <1>8
  <2> QED
    BY <1>5, <1>7, <2>1, <2>2, Thinned
<1>10. Len(longer) + Len(rest) = q + n
  BY <1>1, <1>2
<1> QED
  BY <1>9, <1>10 DEF GoesForward, u, longer, rest

(* A message is read and not handled. *)
LEMMA ForwardDropped ==
  ASSUME NEW o, NEW status, NEW queue \in Seq(MyEvents), NEW messages \in Seq(Messages),
         NEW s, GoesForward(o, status, queue, messages, s), messages # <<>>
  PROVE  GoesForward(o, status, queue, Tail(messages), s)
<1> DEFINE q == Len(queue)
           n == Len(messages)
           rest == Tail(messages)
           t == TrailOf(o, status, queue, messages)
           u == TrailOf(o, status, queue, rest)
           k == q + Len(rest)
           h == [i \in 0 .. k |-> IF i <= q THEN i ELSE i + 1]
<1>1. /\ q \in Nat /\ n \in Nat /\ n > 0
      /\ rest \in Seq(Messages) /\ Len(rest) = n - 1
      /\ \A i \in 1 .. Len(rest) : rest[i] = messages[i + 1]
  BY HeadTailProperties, LenProperties, EmptySeq
<1>2. TrailIs(t, o, status, queue, messages)
  BY TrailAt
<1>3. TrailIs(u, o, status, queue, rest)
  BY <1>1, TrailAt
<1>4. InOrder(t, q + n, s)
  BY DEF GoesForward
<1>5. \A i \in 0 .. k : h[i] = IF i <= q THEN i ELSE i + 1
  OBVIOUS
<1>6. k = q + n - 1 /\ k \in Nat /\ q + n \in Nat
  BY <1>1
<1>7. h \in [0 .. k -> 0 .. q + n]
  <2>1. \A i \in 0 .. k : (IF i <= q THEN i ELSE i + 1) \in 0 .. q + n
    BY <1>1, <1>6
  <2> QED
    BY <2>1
<1> HIDE DEF q, n, rest, t, u, k, h
<1>t. /\ t[0] = status
      /\ \A i \in 1 .. q : t[i] = OfEvent(queue[i], o)
      /\ \A i \in 1 .. n : t[q + i] = OfMessage(messages[i], o)
  BY <1>2 DEF TrailIs, q, n
<1>u. /\ u[0] = status
      /\ \A i \in 1 .. q : u[i] = OfEvent(queue[i], o)
      /\ \A i \in 1 .. Len(rest) : u[q + i] = OfMessage(rest[i], o)
  BY <1>3 DEF TrailIs, q, n
<1>8. \A i, j \in 0 .. k : i < j => h[i] < h[j]
  BY <1>1, <1>5, <1>6
<1>9. ASSUME NEW i \in 0 .. k
      PROVE  u[i] = t[h[i]]
  <2>1. CASE i = 0
    BY <1>1, <1>t, <1>u, <1>5, <2>1
  <2>2. CASE i \in 1 .. q
    BY <1>1, <1>t, <1>u, <1>5, <2>2
  <2>3. CASE i \in q + 1 .. k
    <3> DEFINE j == i - q
    <3>1. /\ j \in 1 .. Len(rest) /\ j + 1 \in 1 .. n
          /\ i = q + j /\ h[i] = q + (j + 1)
      BY <1>1, <1>5, <1>6, <2>3
    <3> HIDE DEF j
    <3>2. u[q + j] = OfMessage(rest[j], o) /\ rest[j] = messages[j + 1]
      BY <1>1, <1>u, <3>1
    <3>3. t[q + (j + 1)] = OfMessage(messages[j + 1], o)
      BY <1>t, <3>1
    <3> QED
      BY <3>1, <3>2, <3>3
  <2> QED
    BY <1>1, <1>6, <2>1, <2>2, <2>3
<1>10. InOrder(u, k, s)
  BY <1>4, <1>6, <1>7, <1>8, <1>9, Thinned
<1> QED
  BY <1>10 DEF GoesForward, u, k, q, rest

(* The strategy gets an event, which is a status of o or is not. *)
LEMMA ForwardFed ==
  ASSUME NEW o, NEW status, NEW status2, NEW queue \in Seq(MyEvents),
         NEW messages \in Seq(Messages),
         NEW s, GoesForward(o, status, queue, messages, s), queue # <<>>,
         status2 = status \/ status2 = OfEvent(Head(queue), o)
  PROVE  GoesForward(o, status2, Tail(queue), messages, s)
<1> DEFINE q == Len(queue)
           n == Len(messages)
           rest == Tail(queue)
           t == TrailOf(o, status, queue, messages)
           u == TrailOf(o, status2, rest, messages)
           k == Len(rest) + n
           first == IF status2 = status THEN 0 ELSE 1
           h == [i \in 0 .. k |-> IF i = 0 THEN first ELSE i + 1]
<1>1. /\ q \in Nat /\ n \in Nat /\ q > 0
      /\ rest \in Seq(MyEvents) /\ Len(rest) = q - 1
      /\ \A i \in 1 .. Len(rest) : rest[i] = queue[i + 1]
      /\ Head(queue) = queue[1]
  BY HeadTailProperties, LenProperties, EmptySeq
<1>2. TrailIs(t, o, status, queue, messages)
  BY TrailAt
<1>3. TrailIs(u, o, status2, rest, messages)
  BY <1>1, TrailAt
<1>4. InOrder(t, q + n, s)
  BY DEF GoesForward
<1>5. \A i \in 0 .. k : h[i] = IF i = 0 THEN first ELSE i + 1
  OBVIOUS
<1>6. k = q + n - 1 /\ k \in Nat /\ q + n \in Nat
  BY <1>1
<1>7. first \in {0, 1} /\ (first = 0 => status2 = status)
      /\ (first = 1 => status2 = OfEvent(queue[1], o))
  BY <1>1
<1>8. h \in [0 .. k -> 0 .. q + n]
  <2>1. \A i \in 0 .. k : (IF i = 0 THEN first ELSE i + 1) \in 0 .. q + n
    BY <1>1, <1>6, <1>7
  <2> QED
    BY <2>1
<1> HIDE DEF q, n, rest, t, u, k, first, h
<1>t. /\ t[0] = status
      /\ \A i \in 1 .. q : t[i] = OfEvent(queue[i], o)
      /\ \A i \in 1 .. n : t[q + i] = OfMessage(messages[i], o)
  BY <1>2 DEF TrailIs, q, n
<1>u. /\ u[0] = status2
      /\ \A i \in 1 .. Len(rest) : u[i] = OfEvent(rest[i], o)
      /\ \A i \in 1 .. n : u[Len(rest) + i] = OfMessage(messages[i], o)
  BY <1>3 DEF TrailIs, q, n
<1>9. \A i, j \in 0 .. k : i < j => h[i] < h[j]
  BY <1>1, <1>5, <1>6, <1>7
<1>10. ASSUME NEW i \in 0 .. k
       PROVE  u[i] = t[h[i]]
  <2>1. CASE i = 0
    <3>1. h[i] = first /\ u[i] = status2 /\ 1 \in 1 .. q
      BY <1>1, <1>u, <1>5, <2>1
    <3> QED
      BY <1>t, <1>7, <3>1
  <2>2. CASE i \in 1 .. Len(rest)
    <3>1. h[i] = i + 1 /\ i + 1 \in 1 .. q
      BY <1>1, <1>5, <1>6, <2>2
    <3> QED
      BY <1>1, <1>t, <1>u, <2>2, <3>1
  <2>3. CASE i \in q .. k
    <3> DEFINE j == i - Len(rest)
    <3>1. j \in 1 .. n /\ i = Len(rest) + j /\ h[i] = q + j
      BY <1>1, <1>5, <1>6, <2>3
    <3> HIDE DEF j
    <3> QED
      BY <1>t, <1>u, <3>1
  <2> QED
    BY <1>1, <1>6, <2>1, <2>2, <2>3
<1>11. InOrder(u, k, s)
  BY <1>4, <1>6, <1>8, <1>9, <1>10, Thinned
<1> QED
  BY <1>11 DEF GoesForward, u, k, n, rest

(* Nothing has been said in a new session. *)
LEMMA ForwardAnew ==
  ASSUME NEW o, NEW s
  PROVE  GoesForward(o, "none", <<>>, <<>>, s)
<1>1. Len(<<>>) = 0
  OBVIOUS
<1>2. TrailOf(o, "none", <<>>, <<>>)[0] = "none"
  BY <1>1 DEF TrailOf
<1>3. \A i \in 0 .. 0 : i = 0
  OBVIOUS
<1> QED
  BY <1>1, <1>2, <1>3 DEF GoesForward, InOrder, Reached

-----------------------------------------------------------------------------
(* Steps of the matching engine                                            *)

(* An order goes from s to s2 with a message that says y. *)
Transition(s, s2, y) ==
  \/ s = "none" /\ s2 = "received" /\ y = "received"
  \/ s = "received" /\ s2 = "open" /\ y = "open"
  \/ s \in Live /\ s2 = s /\ y = "match"
  \/ s \in Live /\ s2 = "done" /\ y = "done"

(* What the four actions of the engine have in common. *)
EngineStep(o, from, to, m) ==
  /\ m \in Messages /\ Engine(o, from, to, m)
  /\ Transition(state[o], to, OfMessage(m, o))
  /\ \A p \in MyOrders \ {o} : OfMessage(m, p) = "none"
  /\ Parties(m)
  /\ left' = [left EXCEPT ![o] = IF OfMessage(m, o) = "match" THEN left[o] - 1 ELSE left[o]]

LEMMA EngineSteps ==
  ASSUME Types, NEW o \in MyOrders, NEW ok \in BOOLEAN,
         Accept(o, ok) \/ Open(o, ok) \/ Match(o, ok) \/ Done(o, ok)
  PROVE  \E from, to, m : EngineStep(o, from, to, m)
<1>1. left \in [MyOrders -> 0 .. Size]
  BY DEF Types, ExchangeTypes
<1>2. CASE Accept(o, ok)
  <2>1. PICK size \in {Size, Absent} : Engine(o, {"none"}, "received", Received(o, size, ok))
    BY <1>2 DEF Accept
  <2> DEFINE m == Received(o, size, ok)
  <2>2. m \in Messages /\ left' = left /\ state[o] = "none"
    BY <1>2, <2>1, MessageTypes DEF Accept, Engine
  <2>3. /\ OfMessage(m, o) = "received" /\ \A p \in MyOrders \ {o} : OfMessage(m, p) = "none"
        /\ Parties(m)
    BY DEF OfMessage, Received, Parties
  <2> HIDE DEF m
  <2>4. left' = [left EXCEPT ![o] = IF OfMessage(m, o) = "match" THEN left[o] - 1 ELSE left[o]]
    BY <1>1, <2>2, <2>3
  <2>5. EngineStep(o, {"none"}, "received", m)
    BY <2>1, <2>2, <2>3, <2>4 DEF EngineStep, Transition, m
  <2> QED
    BY <2>5
<1>3. CASE Open(o, ok)
  <2> DEFINE m == [type |-> "open", id |-> o, left |-> left[o], parsable |-> ok]
  <2>1. Engine(o, {"received"}, "open", m) /\ state[o] = "received" /\ left' = left
    BY <1>3 DEF Open, Engine
  <2>2. m \in Messages
    BY MessageTypes
  <2>3. /\ OfMessage(m, o) = "open" /\ \A p \in MyOrders \ {o} : OfMessage(m, p) = "none"
        /\ Parties(m)
    BY DEF OfMessage, Parties
  <2> HIDE DEF m
  <2>4. left' = [left EXCEPT ![o] = IF OfMessage(m, o) = "match" THEN left[o] - 1 ELSE left[o]]
    BY <1>1, <2>1, <2>3
  <2>5. EngineStep(o, {"received"}, "open", m)
    BY <2>1, <2>2, <2>3, <2>4 DEF EngineStep, Transition
  <2> QED
    BY <2>5
<1>4. CASE Match(o, ok)
  <2> DEFINE m == [type |-> "match", order |-> o, parsable |-> ok,
                   maker |-> IF state[o] = "open" THEN o ELSE Other,
                   taker |-> IF state[o] = "open" THEN Other ELSE o]
  <2>1. Engine(o, Live, state[o], m) /\ state[o] \in Live /\ left' = [left EXCEPT ![o] = left[o] - 1]
    BY <1>4 DEF Match, Engine
  <2>2. m \in Messages
    BY MessageTypes
  <2>3. /\ OfMessage(m, o) = "match" /\ \A p \in MyOrders \ {o} : OfMessage(m, p) = "none"
        /\ Parties(m)
    BY DEF OfMessage, Parties
  <2> HIDE DEF m
  <2>4. left' = [left EXCEPT ![o] = IF OfMessage(m, o) = "match" THEN left[o] - 1 ELSE left[o]]
    BY <1>1, <2>1, <2>3
  <2>5. EngineStep(o, Live, state[o], m)
    BY <2>1, <2>2, <2>3, <2>4 DEF EngineStep, Transition
  <2> QED
    BY <2>5
<1>5. CASE Done(o, ok)
  <2> DEFINE m == [type |-> "done", id |-> o, parsable |-> ok]
  <2>1. Engine(o, Live, "done", m) /\ state[o] \in Live /\ left' = left
    BY <1>5 DEF Done, Engine
  <2>2. m \in Messages
    BY MessageTypes
  <2>3. /\ OfMessage(m, o) = "done" /\ \A p \in MyOrders \ {o} : OfMessage(m, p) = "none"
        /\ Parties(m)
    BY DEF OfMessage, Parties
  <2> HIDE DEF m
  <2>4. left' = [left EXCEPT ![o] = IF OfMessage(m, o) = "match" THEN left[o] - 1 ELSE left[o]]
    BY <1>1, <2>1, <2>3
  <2>5. EngineStep(o, Live, "done", m)
    BY <2>1, <2>2, <2>3, <2>4 DEF EngineStep, Transition
  <2> QED
    BY <2>5
<1> QED
  BY <1>2, <1>3, <1>4, <1>5

-----------------------------------------------------------------------------
(* Orders go forward                                                       *)

(* A message of the engine may follow what was said, and is of o alone. *)
LEMMA EngineForward ==
  ASSUME Types, Forward, NEW o \in MyOrders, NEW from, NEW to, NEW m,
         EngineStep(o, from, to, m)
  PROVE  Forward'
<1>0. /\ m \in Messages /\ Engine(o, from, to, m)
      /\ \A p \in MyOrders \ {o} : OfMessage(m, p) = "none"
      /\ Transition(state[o], to, OfMessage(m, o))
  BY DEF EngineStep
<1>1. /\ eventQueue \in Seq(MyEvents) /\ feed \in Seq(Messages)
      /\ state \in [MyOrders -> Statuses]
  BY DEF Types, HandlerTypes, ExchangeTypes
<1>2. /\ Emit(o, m) /\ state' = [state EXCEPT ![o] = to]
      /\ UNCHANGED <<eventQueue, lastStatus>>
  BY <1>0 DEF Engine, handlerVars
<1>3. feed' = Append(feed, m) \/ feed' = feed
  BY <1>2 DEF Emit
<1>4. \A x : MayFollow(x, "none") /\ \A s : Reached("none", s)
  BY DEF MayFollow, Reached
<1> SUFFICES ASSUME NEW p \in MyOrders
             PROVE  GoesForward(p, lastStatus[p], eventQueue, feed', state'[p])
  BY <1>2 DEF Forward
<1>5. GoesForward(p, lastStatus[p], eventQueue, feed, state[p])
  BY DEF Forward
<1>6. /\ \A x : Reached(x, state[p]) => MayFollow(x, OfMessage(m, p)) /\ Reached(x, state'[p])
      /\ Reached(OfMessage(m, p), state'[p])
  <2>1. CASE p = o
    <3>1. state'[p] = to
      BY <1>1, <1>2, <2>1
    <3>2. /\ \A x : Reached(x, state[o]) => MayFollow(x, OfMessage(m, o)) /\ Reached(x, to)
          /\ Reached(OfMessage(m, o), to)
      BY <1>0 DEF Transition, Live, Reached, MayFollow
    <3> QED
      BY <2>1, <3>1, <3>2
  <2>2. CASE p # o
    <3>1. state'[p] = state[p] /\ OfMessage(m, p) = "none"
      BY <1>0, <1>1, <1>2, <2>2
    <3> QED
      BY <1>4, <3>1
  <2> QED
    BY <2>1, <2>2
<1>7. CASE feed' = Append(feed, m)
  BY <1>0, <1>1, <1>5, <1>6, <1>7, ForwardSend
<1>8. CASE feed' = feed
  BY <1>5, <1>6, <1>8, ForwardSilently
<1> QED
  BY <1>3, <1>7, <1>8

(* An event says of an order what its message said, or nothing. *)
LEMMA EventSaysTheSame ==
  ASSUME NEW m \in Messages, Parties(m), NEW o \in MyOrders
  PROVE  OfEvent(EventOf(m), o) = "none" \/ OfEvent(EventOf(m), o) = OfMessage(m, o)
<1>1. CASE m \in Receipts
  BY <1>1 DEF Receipts, EventOf, OrderStatus, OfEvent, OfMessage
<1>2. CASE m \in Openings
  BY <1>2 DEF Openings, EventOf, OrderStatus, OfEvent, OfMessage
<1>3. CASE m \in Matches
  <2>1. EventOf(m) = [kind |-> "transaction",
                      id |-> IF m.maker \in myOrderIds THEN m.maker ELSE m.taker]
    BY <1>3 DEF Matches, EventOf
  <2>2. EventOf(m).id \in {m.order, Other}
    BY <1>3, <2>1 DEF Parties, Matches
  <2>3. EventOf(m).id = o => m.order = o
    BY <2>2, SessionAssumption
  <2> QED
    BY <1>3, <2>1, <2>3 DEF Matches, OfEvent, OfMessage
<1>4. CASE m \in Endings
  BY <1>4 DEF Endings, EventOf, OrderStatus, OfEvent, OfMessage
<1> QED
  BY <1>1, <1>2, <1>3, <1>4 DEF Messages

LEMMA ReadForward ==
  ASSUME Types, Forward, Fills, ReadMessage
  PROVE  Forward'
<1> DEFINE m == Head(feed)
<1>1. /\ feed # <<>> /\ OnMessage(m) /\ feed' = Tail(feed)
      /\ UNCHANGED <<state, lastStatus>>
  BY DEF ReadMessage, exchangeVars, historyVars
<1>2. /\ m \in Messages /\ m = feed[1] /\ 1 \in 1 .. Len(feed)
      /\ eventQueue \in Seq(MyEvents) /\ feed \in Seq(Messages)
  BY <1>1, HeadIsMessage DEF Types, HandlerTypes, ExchangeTypes
<1>3. Parties(m)
  BY <1>2 DEF Fills
<1>4. \/ EventOf(m) \in MyEvents /\ Enqueue(EventOf(m))
      \/ UNCHANGED eventQueue
  BY <1>1, <1>2, Handling
<1> SUFFICES ASSUME NEW o \in MyOrders
             PROVE  GoesForward(o, lastStatus[o], eventQueue', Tail(feed), state[o])
  BY <1>1 DEF Forward
<1>5. GoesForward(o, lastStatus[o], eventQueue, feed, state[o])
  BY DEF Forward
<1>6. CASE EventOf(m) \in MyEvents /\ Enqueue(EventOf(m))
  <2>1. eventQueue' = Append(eventQueue, EventOf(m))
    BY <1>6 DEF Enqueue
  <2>2. OfEvent(EventOf(m), o) = "none" \/ OfEvent(EventOf(m), o) = OfMessage(m, o)
    BY <1>2, <1>3, EventSaysTheSame
  <2> QED
    BY <1>1, <1>2, <1>5, <1>6, <2>1, <2>2, ForwardHandled
<1>7. CASE UNCHANGED eventQueue
  BY <1>1, <1>2, <1>5, <1>7, ForwardDropped
<1> QED
  BY <1>4, <1>6, <1>7

(* What the strategy gets with an event. *)
LEMMA Feeding ==
  ASSUME Types, FeedStrategy
  PROVE  /\ eventQueue # <<>> /\ eventQueue' = Tail(eventQueue)
         /\ \A o \in MyOrders :
              \/ lastStatus'[o] = lastStatus[o]
              \/ /\ OfEvent(Head(eventQueue), o) \in {"received", "open", "done"}
                 /\ lastStatus'[o] = OfEvent(Head(eventQueue), o)
         /\ \A o \in MyOrders :
              reported'[o] = IF Head(eventQueue).kind = "transaction" /\ Head(eventQueue).id = o
                               THEN reported[o] + 1 ELSE reported[o]
         /\ UNCHANGED <<myOrderIds, stream, state, left, feed, session, missed>>
<1> DEFINE e == Head(eventQueue)
<1>1. eventQueue # <<>> /\ eventQueue' = Tail(eventQueue)
  BY DEF FeedStrategy
<1>2. e \in MyEvents
  BY <1>1, HeadIsEvent
<1>3. /\ \/ /\ e.kind = "status"
            /\ lastStatus' = [lastStatus EXCEPT ![e.id] = e.status] /\ UNCHANGED reported
         \/ /\ e.kind = "transaction"
            /\ reported' = [reported EXCEPT ![e.id] = @ + 1] /\ UNCHANGED lastStatus
      /\ UNCHANGED <<myOrderIds, stream, state, left, feed, session, missed>>
  BY DEF FeedStrategy, exchangeVars, socketVars, mainVars
<1>4. /\ lastStatus \in [MyOrders -> Statuses] /\ reported \in [OrderIds -> Nat]
      /\ MyOrders \subseteq OrderIds
  BY SessionAssumption DEF Types, MainTypes
<1> HIDE DEF e
<1>5. CASE e.kind = "status"
  <2>1. e.id \in MyOrders /\ e.status \in {"received", "open", "done"}
    BY <1>2, <1>5 DEF MyEvents, MyStatusEvents, TransactionEvents
  <2>2. lastStatus' = [lastStatus EXCEPT ![e.id] = e.status] /\ UNCHANGED reported
    BY <1>3, <1>5
  <2>3. \A o \in MyOrders :
          \/ lastStatus'[o] = lastStatus[o]
          \/ OfEvent(e, o) \in {"received", "open", "done"} /\ lastStatus'[o] = OfEvent(e, o)
    <3>1. \A o \in MyOrders : o # e.id => lastStatus'[o] = lastStatus[o]
      BY <1>4, <2>1, <2>2
    <3>2. OfEvent(e, e.id) = e.status
      BY <1>5 DEF OfEvent
    <3>3. lastStatus'[e.id] = e.status
      BY <1>4, <2>1, <2>2
    <3> QED
      BY <2>1, <3>1, <3>2, <3>3
  <2>4. \A o \in MyOrders :
          reported'[o] = IF e.kind = "transaction" /\ e.id = o THEN reported[o] + 1 ELSE reported[o]
    BY <1>5, <2>2
  <2> QED
    BY <1>1, <1>3, <2>3, <2>4 DEF e
<1>6. CASE e.kind = "transaction"
  <2>1. reported' = [reported EXCEPT ![e.id] = @ + 1] /\ UNCHANGED lastStatus
    BY <1>3, <1>6
  <2>2. \A o \in MyOrders :
          reported'[o] = IF e.kind = "transaction" /\ e.id = o THEN reported[o] + 1 ELSE reported[o]
    BY <1>4, <1>6, <2>1
  <2> QED
    BY <1>1, <1>3, <2>1, <2>2 DEF e
<1> QED
  BY <1>3, <1>5, <1>6

LEMMA FeedForward ==
  ASSUME Types, Forward, FeedStrategy
  PROVE  Forward'
<1>1. /\ eventQueue # <<>> /\ eventQueue' = Tail(eventQueue)
      /\ \A o \in MyOrders :
           lastStatus'[o] = lastStatus[o] \/ lastStatus'[o] = OfEvent(Head(eventQueue), o)
      /\ UNCHANGED <<state, feed>>
  BY Feeding
<1>2. eventQueue \in Seq(MyEvents) /\ feed \in Seq(Messages)
  BY DEF Types, HandlerTypes, ExchangeTypes
<1> SUFFICES ASSUME NEW o \in MyOrders
             PROVE  GoesForward(o, lastStatus'[o], Tail(eventQueue), feed, state[o])
  BY <1>1 DEF Forward
<1>3. GoesForward(o, lastStatus[o], eventQueue, feed, state[o])
  BY DEF Forward
<1> QED
  BY <1>1, <1>2, <1>3, ForwardFed

(* Steps that touch no order and no message of one. *)
Idle ==
  \/ \E o \in MyOrders : Reject(o) \/ PlaceOrder(o)
  \/ ServeRequest \/ UpdateUniverse \/ PlaceOrderReturns \/ StartStreaming
  \/ UNCHANGED vars

LEMMA Idling ==
  ASSUME Idle
  PROVE  /\ UNCHANGED <<myOrderIds, eventQueue, feed, state, left, lastStatus, reported,
                        missed, session>>
         /\ Running' => Running
<1>1. ASSUME NEW o \in MyOrders, Reject(o) \/ PlaceOrder(o)
      PROVE  UNCHANGED <<handlerVars, feed, state, left, historyVars, session>>
  BY <1>1 DEF Reject, PlaceOrder, socketVars, mainVars
<1>2. CASE ServeRequest \/ UpdateUniverse \/ PlaceOrderReturns
  <2>1. UNCHANGED <<handlerVars, feed, state, left, historyVars, session>>
    BY <1>2 DEF ServeRequest, UpdateUniverse, PlaceOrderReturns, exchangeVars, socketVars, mainVars
  <2> QED
    BY <2>1 DEF handlerVars, historyVars, Running
<1>3. CASE StartStreaming
  BY <1>3 DEF StartStreaming, exchangeVars, socketVars, mainVars, historyVars, Running
<1>4. CASE UNCHANGED vars
  BY <1>4 DEF vars, handlerVars, exchangeVars, socketVars, mainVars, historyVars, Running
<1>5. CASE \E o \in MyOrders : Reject(o) \/ PlaceOrder(o)
  BY <1>1, <1>5 DEF handlerVars, historyVars, Running
<1> QED
  BY <1>2, <1>3, <1>4, <1>5 DEF Idle

(* The steps that matter to an order. *)
LEMMA NextCases ==
  ASSUME [Next]_vars
  PROVE  \/ \E o \in MyOrders, ok \in BOOLEAN :
              Accept(o, ok) \/ Open(o, ok) \/ Match(o, ok) \/ Done(o, ok)
         \/ ReadMessage
         \/ FeedStrategy
         \/ Restart
         \/ Idle
BY DEF Next, Answer, MainStep, Idle

LEMMA NextForward == Types /\ Forward /\ Fills /\ [Next]_vars => Forward'
<1> SUFFICES ASSUME Types, Forward, Fills, [Next]_vars
             PROVE  Forward'
  OBVIOUS
<1>1. CASE \E o \in MyOrders, ok \in BOOLEAN :
             Accept(o, ok) \/ Open(o, ok) \/ Match(o, ok) \/ Done(o, ok)
  BY <1>1, EngineSteps, EngineForward
<1>2. CASE ReadMessage
  BY <1>2, ReadForward
<1>3. CASE FeedStrategy
  BY <1>3, FeedForward
<1>4. CASE Restart
  BY <1>4, ForwardAnew DEF Restart, Forward
<1>5. CASE Idle
  BY <1>5, Idling DEF Forward
<1> QED
  BY <1>1, <1>2, <1>3, <1>4, <1>5, NextCases

-----------------------------------------------------------------------------
(* Counting                                                                *)

(* One more position at the end. *)
LEMMA OneMore ==
  ASSUME NEW n \in Nat, NEW I \in SUBSET (1 .. n)
  PROVE  /\ IsFiniteSet(I) /\ Cardinality(I) \in Nat
         /\ Cardinality(I \cup {n + 1}) = Cardinality(I) + 1
<1>1. IsFiniteSet(I)
  <2>1. IsFiniteSet(1 .. n)
    BY FS_Interval
  <2> QED
    BY <2>1, FS_Subset
<1>2. n + 1 \notin I
  OBVIOUS
<1> QED
  BY <1>1, <1>2, FS_AddElement, FS_CardinalityType

(* The first position is taken away and the others move up. *)
LEMMA OneLess ==
  ASSUME NEW n \in Nat, n > 0, NEW I \in SUBSET (1 .. n),
         NEW J, J = {i \in 1 .. n - 1 : i + 1 \in I}
  PROVE  /\ Cardinality(J) \in Nat
         /\ Cardinality(I) = IF 1 \in I THEN Cardinality(J) + 1 ELSE Cardinality(J)
<1> DEFINE f == [i \in J |-> i + 1]
<1>1. IsFiniteSet(I) /\ IsFiniteSet(J)
  <2>1. IsFiniteSet(1 .. n) /\ IsFiniteSet(1 .. n - 1)
    BY FS_Interval
  <2>2. J \in SUBSET (1 .. n - 1)
    OBVIOUS
  <2> QED
    BY <2>1, <2>2, FS_Subset
<1>2. f \in Bijection(J, I \ {1})
  <2>1. f \in [J -> I \ {1}]
    OBVIOUS
  <2>2. \A a, b \in J : f[a] = f[b] => a = b
    OBVIOUS
  <2>3. ASSUME NEW b \in I \ {1}
        PROVE  \E a \in J : f[a] = b
    <3>1. b - 1 \in J /\ f[b - 1] = b
      OBVIOUS
    <3> QED
      BY <3>1
  <2> QED
    BY <2>1, <2>2, <2>3 DEF Bijection, Injection, Surjection, IsInjective
<1>3. Cardinality(I \ {1}) = Cardinality(J)
  BY <1>1, <1>2, FS_Bijection DEF ExistsBijection
<1>4. Cardinality(I \ {1}) = IF 1 \in I THEN Cardinality(I) - 1 ELSE Cardinality(I)
  BY <1>1, FS_RemoveElement
<1>5. Cardinality(I) \in Nat /\ Cardinality(J) \in Nat
  BY <1>1, FS_CardinalityType
<1> QED
  BY <1>3, <1>4, <1>5

LEMMA TransactionsAppended ==
  ASSUME NEW queue \in Seq(MyEvents), NEW e \in MyEvents, NEW o
  PROVE  /\ Cardinality(Transactions(queue, o)) \in Nat
         /\ Cardinality(Transactions(Append(queue, e), o)) =
              IF OfEvent(e, o) = "match" THEN Cardinality(Transactions(queue, o)) + 1
                                         ELSE Cardinality(Transactions(queue, o))
<1> DEFINE n == Len(queue)
           longer == Append(queue, e)
           I == Transactions(queue, o)
           J == Transactions(longer, o)
<1>1. /\ n \in Nat /\ Len(longer) = n + 1
      /\ \A i \in 1 .. n : longer[i] = queue[i]
      /\ longer[n + 1] = e
  BY AppendProperties, LenProperties
<1>2. /\ I = {i \in 1 .. n : OfEvent(queue[i], o) = "match"}
      /\ J = {i \in 1 .. Len(longer) : OfEvent(longer[i], o) = "match"}
  BY DEF Transactions
<1> HIDE DEF n, longer, I, J
<1>3. I \in SUBSET (1 .. n)
  BY <1>2
<1>4. J = IF OfEvent(e, o) = "match" THEN I \cup {n + 1} ELSE I
  BY <1>1, <1>2
<1>5. /\ Cardinality(I) \in Nat
      /\ Cardinality(J) = IF OfEvent(e, o) = "match" THEN Cardinality(I) + 1 ELSE Cardinality(I)
  BY <1>1, <1>3, <1>4, OneMore
<1> QED
  BY <1>5 DEF I, J, longer

LEMMA TransactionsTaken ==
  ASSUME NEW queue \in Seq(MyEvents), queue # <<>>, NEW o
  PROVE  /\ Cardinality(Transactions(Tail(queue), o)) \in Nat
         /\ Cardinality(Transactions(queue, o)) =
              IF OfEvent(Head(queue), o) = "match" THEN Cardinality(Transactions(Tail(queue), o)) + 1
                                                   ELSE Cardinality(Transactions(Tail(queue), o))
<1> DEFINE n == Len(queue)
           rest == Tail(queue)
           first == Head(queue)
           I == Transactions(queue, o)
           J == Transactions(rest, o)
<1>1. /\ n \in Nat /\ n > 0 /\ Len(rest) = n - 1
      /\ \A i \in 1 .. Len(rest) : rest[i] = queue[i + 1]
      /\ first = queue[1]
  BY HeadTailProperties, LenProperties, EmptySeq
<1>2. /\ I = {i \in 1 .. n : OfEvent(queue[i], o) = "match"}
      /\ J = {i \in 1 .. Len(rest) : OfEvent(rest[i], o) = "match"}
  BY DEF Transactions
<1> HIDE DEF n, rest, first, I, J
<1>3. I \in SUBSET (1 .. n)
  BY <1>2
<1>4. J = {i \in 1 .. n - 1 : i + 1 \in I}
  BY <1>1, <1>2
<1>5. 1 \in I <=> OfEvent(first, o) = "match"
  BY <1>1, <1>2
<1>6. /\ Cardinality(J) \in Nat
      /\ Cardinality(I) = IF OfEvent(first, o) = "match" THEN Cardinality(J) + 1 ELSE Cardinality(J)
  BY <1>1, <1>3, <1>4, <1>5, OneLess
<1> QED
  BY <1>6 DEF I, J, rest, first

LEMMA MatchesAppended ==
  ASSUME NEW messages \in Seq(Messages), NEW m \in Messages, NEW o
  PROVE  /\ Cardinality(MatchesOf(messages, o)) \in Nat
         /\ Cardinality(MatchesOf(Append(messages, m), o)) =
              IF OfMessage(m, o) = "match" THEN Cardinality(MatchesOf(messages, o)) + 1
                                           ELSE Cardinality(MatchesOf(messages, o))
<1> DEFINE n == Len(messages)
           longer == Append(messages, m)
           I == MatchesOf(messages, o)
           J == MatchesOf(longer, o)
<1>1. /\ n \in Nat /\ Len(longer) = n + 1
      /\ \A i \in 1 .. n : longer[i] = messages[i]
      /\ longer[n + 1] = m
  BY AppendProperties, LenProperties
<1>2. /\ I = {i \in 1 .. n : OfMessage(messages[i], o) = "match"}
      /\ J = {i \in 1 .. Len(longer) : OfMessage(longer[i], o) = "match"}
  BY DEF MatchesOf
<1> HIDE DEF n, longer, I, J
<1>3. I \in SUBSET (1 .. n)
  BY <1>2
<1>4. J = IF OfMessage(m, o) = "match" THEN I \cup {n + 1} ELSE I
  BY <1>1, <1>2
<1>5. /\ Cardinality(I) \in Nat
      /\ Cardinality(J) = IF OfMessage(m, o) = "match" THEN Cardinality(I) + 1 ELSE Cardinality(I)
  BY <1>1, <1>3, <1>4, OneMore
<1> QED
  BY <1>5 DEF I, J, longer

LEMMA MatchesTaken ==
  ASSUME NEW messages \in Seq(Messages), messages # <<>>, NEW o
  PROVE  /\ Cardinality(MatchesOf(Tail(messages), o)) \in Nat
         /\ Cardinality(MatchesOf(messages, o)) =
              IF OfMessage(Head(messages), o) = "match"
                THEN Cardinality(MatchesOf(Tail(messages), o)) + 1
                ELSE Cardinality(MatchesOf(Tail(messages), o))
<1> DEFINE n == Len(messages)
           rest == Tail(messages)
           first == Head(messages)
           I == MatchesOf(messages, o)
           J == MatchesOf(rest, o)
<1>1. /\ n \in Nat /\ n > 0 /\ Len(rest) = n - 1
      /\ \A i \in 1 .. Len(rest) : rest[i] = messages[i + 1]
      /\ first = messages[1]
  BY HeadTailProperties, LenProperties, EmptySeq
<1>2. /\ I = {i \in 1 .. n : OfMessage(messages[i], o) = "match"}
      /\ J = {i \in 1 .. Len(rest) : OfMessage(rest[i], o) = "match"}
  BY DEF MatchesOf
<1> HIDE DEF n, rest, first, I, J
<1>3. I \in SUBSET (1 .. n)
  BY <1>2
<1>4. J = {i \in 1 .. n - 1 : i + 1 \in I}
  BY <1>1, <1>2
<1>5. 1 \in I <=> OfMessage(first, o) = "match"
  BY <1>1, <1>2
<1>6. /\ Cardinality(J) \in Nat
      /\ Cardinality(I) = IF OfMessage(first, o) = "match" THEN Cardinality(J) + 1 ELSE Cardinality(J)
  BY <1>1, <1>3, <1>4, <1>5, OneLess
<1> QED
  BY <1>6 DEF I, J, rest, first

LEMMA NothingToCount ==
  ASSUME NEW o
  PROVE  Cardinality(Transactions(<<>>, o)) = 0 /\ Cardinality(MatchesOf(<<>>, o)) = 0
<1>1. Transactions(<<>>, o) = {} /\ MatchesOf(<<>>, o) = {}
  BY DEF Transactions, MatchesOf
<1> QED
  BY <1>1, FS_EmptySet

(* What FillsAddUp says, from what every order's balance says. *)
LEMMA CountsAreCardinalities ==
  ASSUME Types, NEW o \in MyOrders
  PROVE  /\ Count(eventQueue, LAMBDA e : e.kind = "transaction" /\ e.id = o)
              = Cardinality(Transactions(eventQueue, o))
         /\ Count(feed, LAMBDA m : m.type = "match" /\ m.order = o)
              = Cardinality(MatchesOf(feed, o))
<1>1. eventQueue \in Seq(MyEvents) /\ feed \in Seq(Messages)
  BY DEF Types, HandlerTypes, ExchangeTypes
<1>2. \A e \in MyEvents : (e.kind = "transaction" /\ e.id = o) <=> OfEvent(e, o) = "match"
  BY DEF MyEvents, MyStatusEvents, TransactionEvents, OfEvent
<1>3. \A m \in Messages : (m.type = "match" /\ m.order = o) <=> OfMessage(m, o) = "match"
  BY DEF Messages, Receipts, Openings, Matches, Endings, OfMessage
<1>4. /\ DOMAIN eventQueue = 1 .. Len(eventQueue) /\ DOMAIN feed = 1 .. Len(feed)
      /\ \A i \in DOMAIN eventQueue : eventQueue[i] \in MyEvents
      /\ \A i \in DOMAIN feed : feed[i] \in Messages
  BY <1>1
<1>5. {i \in DOMAIN eventQueue : eventQueue[i].kind = "transaction" /\ eventQueue[i].id = o}
        = Transactions(eventQueue, o)
  BY <1>2, <1>4 DEF Transactions
<1>6. {i \in DOMAIN feed : feed[i].type = "match" /\ feed[i].order = o} = MatchesOf(feed, o)
  BY <1>3, <1>4 DEF MatchesOf
<1> QED
  BY <1>5, <1>6 DEF Count

-----------------------------------------------------------------------------
(* The handler tracks the live orders                                      *)

(* A message goes to the end of the feed, and another leaves its head. *)
LEMMA UnderWayAppended ==
  ASSUME Types, NEW m \in Messages, feed' = Append(feed, m), NEW type, NEW o
  PROVE  UnderWay(type, o)' <=> UnderWay(type, o) \/ OfMessage(m, o) = type
<1> DEFINE n == Len(feed)
           longer == Append(feed, m)
<1>1. /\ n \in Nat /\ Len(longer) = n + 1
      /\ \A i \in 1 .. n : longer[i] = feed[i]
      /\ longer[n + 1] = m
  BY AppendProperties, LenProperties DEF Types, ExchangeTypes
<1>2. UnderWay(type, o) <=> \E i \in 1 .. n : OfMessage(feed[i], o) = type
  BY DEF UnderWay
<1>3. UnderWay(type, o)' <=> \E i \in 1 .. Len(longer) : OfMessage(longer[i], o) = type
  BY DEF UnderWay
<1> HIDE DEF n, longer
<1>4. (\E i \in 1 .. n + 1 : OfMessage(longer[i], o) = type)
        <=> (\E i \in 1 .. n : OfMessage(feed[i], o) = type) \/ OfMessage(m, o) = type
  BY <1>1
<1> QED
  BY <1>1, <1>2, <1>3, <1>4

LEMMA UnderWayTaken ==
  ASSUME Types, feed # <<>>, feed' = Tail(feed), NEW type, NEW o
  PROVE  UnderWay(type, o) <=> UnderWay(type, o)' \/ OfMessage(Head(feed), o) = type
<1> DEFINE n == Len(feed)
           rest == Tail(feed)
           first == Head(feed)
<1>1. /\ n \in Nat /\ n > 0 /\ Len(rest) = n - 1
      /\ \A i \in 1 .. Len(rest) : rest[i] = feed[i + 1]
      /\ first = feed[1]
  BY HeadIsMessage
<1>2. UnderWay(type, o) <=> \E i \in 1 .. n : OfMessage(feed[i], o) = type
  BY DEF UnderWay
<1>3. UnderWay(type, o)' <=> \E i \in 1 .. Len(rest) : OfMessage(rest[i], o) = type
  BY DEF UnderWay
<1> HIDE DEF n, rest, first
<1>4. ASSUME NEW i \in 1 .. n, OfMessage(feed[i], o) = type
      PROVE  (\E j \in 1 .. n - 1 : OfMessage(rest[j], o) = type) \/ OfMessage(first, o) = type
  <2>1. CASE i = 1
    BY <1>1, <1>4, <2>1
  <2>2. CASE i # 1
    <3>1. i - 1 \in 1 .. Len(rest) /\ rest[i - 1] = feed[(i - 1) + 1] /\ (i - 1) + 1 = i
      BY <1>1, <2>2
    <3>2. OfMessage(rest[i - 1], o) = type
      BY <1>4, <3>1
    <3> QED
      BY <1>1, <3>1, <3>2
  <2> QED
    BY <2>1, <2>2
<1>5. ASSUME NEW j \in 1 .. n - 1, OfMessage(rest[j], o) = type
      PROVE  \E i \in 1 .. n : OfMessage(feed[i], o) = type
  <2>1. j \in 1 .. Len(rest) /\ j + 1 \in 1 .. n /\ rest[j] = feed[j + 1]
    BY <1>1
  <2> QED
    BY <1>5, <2>1
<1>6. 1 \in 1 .. n
  BY <1>1
<1> QED
  BY <1>1, <1>2, <1>3, <1>4, <1>5, <1>6 DEF first

(* What waits in the feed may follow what is said at its head, and has     *)
(* been reached by the order.                                              *)
LEMMA HeadComesFirst ==
  ASSUME Types, Forward, feed # <<>>, feed' = Tail(feed), NEW o \in MyOrders
  PROVE  /\ Reached(OfMessage(Head(feed), o), state[o])
         /\ \A type : UnderWay(type, o)' => MayFollow(OfMessage(Head(feed), o), type)
<1> DEFINE q == Len(eventQueue)
           n == Len(feed)
           rest == Tail(feed)
           first == Head(feed)
           t == TrailOf(o, lastStatus[o], eventQueue, feed)
<1>1. /\ n \in Nat /\ n > 0 /\ Len(rest) = n - 1
      /\ \A i \in 1 .. Len(rest) : rest[i] = feed[i + 1]
      /\ first = feed[1]
  BY HeadIsMessage
<1>2. eventQueue \in Seq(MyEvents) /\ feed \in Seq(Messages) /\ q \in Nat
  BY LenProperties DEF Types, HandlerTypes, ExchangeTypes
<1>3. TrailIs(t, o, lastStatus[o], eventQueue, feed)
  BY <1>2, TrailAt
<1>4. InOrder(t, q + n, state[o])
  BY DEF Forward, GoesForward
<1>5. ASSUME NEW type, UnderWay(type, o)'
      PROVE  \E j \in 1 .. Len(rest) : OfMessage(rest[j], o) = type
  BY <1>5 DEF UnderWay
<1> HIDE DEF t
<1>6. \A i \in 1 .. n : t[q + i] = OfMessage(feed[i], o)
  BY <1>3 DEF TrailIs
<1> HIDE DEF q, n, rest, first
<1>7. t[q + 1] = OfMessage(first, o) /\ q + 1 \in 0 .. q + n
  BY <1>1, <1>2, <1>6
<1>8. Reached(OfMessage(first, o), state[o])
  BY <1>4, <1>7 DEF InOrder
<1>9. ASSUME NEW j \in 1 .. Len(rest)
      PROVE  MayFollow(OfMessage(first, o), OfMessage(rest[j], o))
  <2> DEFINE k == q + (j + 1)
  <2>1. j + 1 \in 1 .. n /\ rest[j] = feed[j + 1] /\ k \in 0 .. q + n /\ q + 1 < k
    BY <1>1, <1>2
  <2>2. t[k] = OfMessage(feed[j + 1], o)
    BY <1>6, <2>1
  <2> HIDE DEF k
  <2>3. MayFollow(t[q + 1], t[k])
    BY <1>4, <1>7, <2>1 DEF InOrder
  <2> QED
    BY <1>7, <2>1, <2>2, <2>3
<1>10. ASSUME NEW type, UnderWay(type, o)'
       PROVE  MayFollow(OfMessage(first, o), type)
  BY <1>5, <1>9, <1>10
<1> QED
  BY <1>8, <1>10 DEF first

(* The engine's messages of order o, as the handler will hear of them. *)
LEMMA EngineTracking ==
  ASSUME Types, Tracking, NEW o \in MyOrders, NEW from, NEW to, NEW m,
         EngineStep(o, from, to, m)
  PROVE  Tracking'
<1>0. /\ m \in Messages /\ Engine(o, from, to, m)
      /\ \A p \in MyOrders \ {o} : OfMessage(m, p) = "none"
      /\ \/ state[o] = "none" /\ to = "received" /\ OfMessage(m, o) = "received"
         \/ state[o] \in Live /\ to \in Live /\ OfMessage(m, o) \in {"open", "match"}
         \/ state[o] \in Live /\ to = "done" /\ OfMessage(m, o) = "done"
  BY DEF EngineStep, Transition, Live
<1>1. /\ Emit(o, m) /\ state' = [state EXCEPT ![o] = to]
      /\ UNCHANGED <<myOrderIds, stream>>
  BY <1>0 DEF Engine, handlerVars
<1>2. state \in [MyOrders -> Statuses] /\ missed \subseteq missed'
  BY <1>1 DEF Emit, Types, ExchangeTypes
<1> SUFFICES ASSUME Running', NEW p \in MyOrders \ missed'
             PROVE  Followed(p)'
  BY DEF Tracking
<1>3. p \in MyOrders \ missed /\ Running /\ Followed(p)
  BY <1>1, <1>2 DEF Running, Tracking
<1>4. CASE p # o
  <2>1. OfMessage(m, p) = "none" /\ state'[p] = state[p]
    BY <1>0, <1>1, <1>2, <1>4
  <2>2. \A type : type # "none" => (UnderWay(type, p)' <=> UnderWay(type, p))
    <3>1. CASE feed' = Append(feed, m)
      BY <1>0, <2>1, <3>1, UnderWayAppended
    <3>2. CASE feed' = feed
      BY <3>2 DEF UnderWay
    <3> QED
      BY <1>1, <3>1, <3>2 DEF Emit
  <2> QED
    BY <1>1, <1>3, <2>1, <2>2 DEF Followed
<1>5. CASE p = o
  <2>1. feed' = Append(feed, m) /\ state'[o] = to
    BY <1>1, <1>2, <1>5 DEF Emit
  <2>2. \A type : UnderWay(type, o)' <=> UnderWay(type, o) \/ OfMessage(m, o) = type
    BY <1>0, <2>1, UnderWayAppended
  <2>3. CASE state[o] = "none" /\ to = "received" /\ OfMessage(m, o) = "received"
    BY <1>1, <1>3, <1>5, <2>1, <2>2, <2>3 DEF Followed, Live
  <2>4. CASE state[o] \in Live /\ to \in Live /\ OfMessage(m, o) \in {"open", "match"}
    BY <1>1, <1>3, <1>5, <2>1, <2>2, <2>4 DEF Followed, Live
  <2>5. CASE state[o] \in Live /\ to = "done" /\ OfMessage(m, o) = "done"
    BY <1>1, <1>3, <1>5, <2>1, <2>2, <2>5 DEF Followed, Live
  <2> QED
    BY <1>0, <2>3, <2>4, <2>5
<1> QED
  BY <1>4, <1>5

(* A message changes what is known of its own order only. *)
LEMMA TrackedByType ==
  ASSUME Types, NEW m \in Messages, NEW o \in MyOrders
  PROVE  /\ OfMessage(m, o) \in {"none", "received", "open", "match", "done"}
         /\ OfMessage(m, o) = "received" => o \in Tracked(m)
         /\ OfMessage(m, o) = "done" => o \notin Tracked(m)
         /\ OfMessage(m, o) \in {"none", "open", "match"} => (o \in Tracked(m) <=> o \in myOrderIds)
BY DEF OfMessage, Tracked, Messages, Receipts, Openings, Matches, Endings

LEMMA ReadTracking ==
  ASSUME Types, Forward, Tracking, ReadMessage
  PROVE  Tracking'
<1> DEFINE m == Head(feed)
<1>1. /\ feed # <<>> /\ OnMessage(m) /\ feed' = Tail(feed)
      /\ UNCHANGED <<state, missed>> /\ stream = "running"
  BY DEF ReadMessage, exchangeVars, historyVars
<1>2. m \in Messages
  BY <1>1, HeadIsMessage
<1> SUFFICES ASSUME Running', NEW o \in MyOrders \ missed'
             PROVE  Followed(o)'
  BY DEF Tracking
<1>3. Running /\ Followed(o)
  BY <1>1 DEF Running, Tracking
<1>4. myOrderIds' = Tracked(m)
  BY <1>1, <1>2, Handling DEF Running
<1>5. /\ Reached(OfMessage(m, o), state[o])
      /\ \A type : UnderWay(type, o)' => MayFollow(OfMessage(m, o), type)
  BY <1>1, HeadComesFirst
<1>6. \A type : UnderWay(type, o) <=> UnderWay(type, o)' \/ OfMessage(m, o) = type
  BY <1>1, UnderWayTaken
<1>7. /\ OfMessage(m, o) \in {"none", "received", "open", "match", "done"}
      /\ OfMessage(m, o) = "received" => o \in myOrderIds'
      /\ OfMessage(m, o) = "done" => o \notin myOrderIds'
      /\ OfMessage(m, o) \in {"none", "open", "match"} => (o \in myOrderIds' <=> o \in myOrderIds)
  BY <1>2, <1>4, TrackedByType
<1>8. state[o] \in Statuses /\ state' = state
  BY <1>1 DEF Types, ExchangeTypes
<1> HIDE DEF m
<1>9. CASE OfMessage(m, o) \in {"none", "open", "match"}
  BY <1>3, <1>6, <1>7, <1>8, <1>9 DEF Followed
<1>10. CASE OfMessage(m, o) = "received"
  <2>1. state[o] # "none" /\ ~UnderWay("received", o)'
    BY <1>5, <1>10 DEF Reached, MayFollow
  <2> QED
    BY <1>3, <1>6, <1>7, <1>8, <1>10, <2>1 DEF Followed
<1>11. CASE OfMessage(m, o) = "done"
  <2>1. state[o] = "done"
    BY <1>5, <1>11 DEF Reached
  <2>2. \A x \in {"received", "open", "match", "done"} : ~UnderWay(x, o)'
    BY <1>5, <1>11 DEF MayFollow
  <2> QED
    BY <1>7, <1>8, <1>11, <2>1, <2>2 DEF Followed, Live
<1> QED
  BY <1>7, <1>9, <1>10, <1>11

LEMMA NextTracking == Types /\ Forward /\ Tracking /\ [Next]_vars => Tracking'
<1> SUFFICES ASSUME Types, Forward, Tracking, [Next]_vars
             PROVE  Tracking'
  OBVIOUS
<1>1. CASE \E o \in MyOrders, ok \in BOOLEAN :
             Accept(o, ok) \/ Open(o, ok) \/ Match(o, ok) \/ Done(o, ok)
  BY <1>1, EngineSteps, EngineTracking
<1>2. CASE ReadMessage
  BY <1>2, ReadTracking
<1>3. CASE FeedStrategy
  BY <1>3, Feeding DEF Tracking, Running, Followed, UnderWay
<1>4. CASE Restart
  <2>1. /\ myOrderIds' = {} /\ feed' = <<>> /\ UNCHANGED state
        /\ \A o \in MyOrders \ missed' : state[o] = "none"
    BY <1>4 DEF Restart
  <2>2. \A type, o : ~UnderWay(type, o)'
    BY <2>1 DEF UnderWay
  <2> QED
    BY <2>1, <2>2 DEF Tracking, Followed
<1>5. CASE Idle
  BY <1>5, Idling DEF Tracking, Followed, UnderWay
<1> QED
  BY <1>1, <1>2, <1>3, <1>4, <1>5, NextCases

-----------------------------------------------------------------------------
(* The fills add up                                                        *)

LEMMA EngineFills ==
  ASSUME Types, Fills, NEW o \in MyOrders, NEW from, NEW to, NEW m,
         EngineStep(o, from, to, m)
  PROVE  Fills'
<1>0. /\ m \in Messages /\ Engine(o, from, to, m) /\ Parties(m)
      /\ \A p \in MyOrders \ {o} : OfMessage(m, p) = "none"
      /\ left' = [left EXCEPT ![o] = IF OfMessage(m, o) = "match" THEN left[o] - 1 ELSE left[o]]
      /\ to # "none"
  BY DEF EngineStep, Transition, Live
<1>1. /\ Emit(o, m) /\ state' = [state EXCEPT ![o] = to]
      /\ UNCHANGED <<eventQueue, stream, reported>>
  BY <1>0 DEF Engine, handlerVars
<1>2. /\ state \in [MyOrders -> Statuses] /\ missed \subseteq missed'
      /\ left \in [MyOrders -> 0 .. Size] /\ feed \in Seq(Messages)
      /\ Size \in Nat /\ reported \in [OrderIds -> Nat] /\ MyOrders \subseteq OrderIds
  BY <1>1, SessionAssumption DEF Emit, Types, ExchangeTypes, MainTypes
<1>3. \A p \in MyOrders : state'[p] = "none" => left'[p] = Size
  BY <1>0, <1>1, <1>2 DEF Fills
<1>4. \A i \in 1 .. Len(feed') : Parties(feed'[i])
  <2>1. CASE feed' = Append(feed, m)
    <3> DEFINE longer == Append(feed, m)
    <3>1. /\ Len(feed) \in Nat /\ Len(longer) = Len(feed) + 1
          /\ \A i \in 1 .. Len(feed) : longer[i] = feed[i]
          /\ longer[Len(feed) + 1] = m
      BY <1>0, <1>2, AppendProperties, LenProperties
    <3> HIDE DEF longer
    <3>2. \A i \in 1 .. Len(longer) : Parties(longer[i])
      BY <1>0, <3>1 DEF Fills
    <3> QED
      BY <2>1, <3>2 DEF longer
  <2>2. CASE feed' = feed
    BY <2>2 DEF Fills
  <2> QED
    BY <1>1, <2>1, <2>2 DEF Emit
<1>5. ASSUME Running', NEW p \in MyOrders \ missed'
      PROVE  Balanced(p)'
  <2>1. p \in MyOrders \ missed /\ Balanced(p)
    BY <1>1, <1>2, <1>5 DEF Running, Fills
  <2>2. Cardinality(MatchesOf(feed, p)) \in Nat
    BY <1>0, <1>2, MatchesAppended
  <2>3. eventQueue \in Seq(MyEvents)
    BY DEF Types, HandlerTypes
  <2>4. CASE p # o
    <3>1. OfMessage(m, p) = "none" /\ left'[p] = left[p]
      BY <1>0, <1>2, <2>4
    <3>2. Cardinality(MatchesOf(feed', p)) = Cardinality(MatchesOf(feed, p))
      <4>1. CASE feed' = Append(feed, m)
        BY <1>0, <1>2, <3>1, <4>1, MatchesAppended
      <4> QED
        BY <1>1, <4>1 DEF Emit
    <3> QED
      BY <1>1, <2>1, <3>1, <3>2 DEF Balanced
  <2>5. CASE p = o
    <3>1. feed' = Append(feed, m)
      BY <1>1, <1>5, <2>5 DEF Emit
    <3>2. left'[o] = IF OfMessage(m, o) = "match" THEN left[o] - 1 ELSE left[o]
      BY <1>0, <1>2
    <3>3. Cardinality(MatchesOf(feed', o))
            = IF OfMessage(m, o) = "match" THEN Cardinality(MatchesOf(feed, o)) + 1
                                           ELSE Cardinality(MatchesOf(feed, o))
      BY <1>0, <1>2, <3>1, MatchesAppended
    <3>4. /\ Cardinality(Transactions(eventQueue, o)) \in Nat
          /\ reported[o] \in Nat /\ left[o] \in Nat
      <4>1. [kind |-> "transaction", id |-> o] \in MyEvents
        BY <1>2 DEF MyEvents, TransactionEvents
      <4> QED
        BY <1>2, <2>3, <4>1, TransactionsAppended
    <3>5. Size - left[o] = reported[o] + Cardinality(Transactions(eventQueue, o))
                             + Cardinality(MatchesOf(feed, o))
      BY <2>1, <2>5 DEF Balanced
    <3>6. Size - left'[o] = reported[o] + Cardinality(Transactions(eventQueue, o))
                              + Cardinality(MatchesOf(feed', o))
      BY <1>2, <2>2, <2>5, <3>2, <3>3, <3>4, <3>5
    <3> QED
      BY <1>1, <2>5, <3>6 DEF Balanced
  <2> QED
    BY <2>4, <2>5
<1> QED
  BY <1>3, <1>4, <1>5 DEF Fills

(* A match of an order of which nothing was missed: the handler knows the  *)
(* order's id when it is the maker's, so the transaction gets it.          *)
LEMMA TransactionOfItsOrder ==
  ASSUME Types, Forward, NEW o \in MyOrders, Followed(o), feed # <<>>, feed' = Tail(feed),
         Parties(Head(feed))
  PROVE  OfEvent(EventOf(Head(feed)), o) = "match" <=> OfMessage(Head(feed), o) = "match"
<1> DEFINE m == Head(feed)
<1>1. m \in Messages
  BY HeadIsMessage
<1>2. /\ Reached(OfMessage(m, o), state[o])
      /\ \A type : UnderWay(type, o)' => MayFollow(OfMessage(m, o), type)
  BY HeadComesFirst
<1>3. \A type : UnderWay(type, o) <=> UnderWay(type, o)' \/ OfMessage(m, o) = type
  BY UnderWayTaken
<1>4. myOrderIds \subseteq MyOrders /\ Parties(m) /\ state[o] \in Statuses
  BY DEF Types, HandlerTypes, ExchangeTypes
<1> HIDE DEF m
<1>5. CASE OfMessage(m, o) = "match"
  <2>1. UnderWay("match", o) /\ ~UnderWay("received", o)
    BY <1>2, <1>3, <1>5 DEF MayFollow
  <2>2. state[o] \in {"received", "open", "done"}
    BY <1>2, <1>4, <1>5 DEF Reached, Statuses
  <2>3. o \in myOrderIds
    BY <2>1, <2>2 DEF Followed, Live
  <2>4. m \in Matches /\ m.type = "match" /\ m.order = o
    BY <1>1, <1>5 DEF OfMessage, Messages, Receipts, Openings, Matches, Endings
  <2>5. (IF m.maker \in myOrderIds THEN m.maker ELSE m.taker) = o
    BY <1>4, <2>3, <2>4, SessionAssumption DEF Parties
  <2>6. EventOf(m) = [kind |-> "transaction", id |-> o]
    BY <2>4, <2>5 DEF EventOf
  <2> QED
    BY <1>5, <2>6 DEF OfEvent, m
<1>6. CASE OfMessage(m, o) # "match"
  BY <1>1, <1>4, <1>6, EventSaysTheSame DEF m
<1> QED
  BY <1>5, <1>6 DEF m

LEMMA ReadFills ==
  ASSUME Types, Forward, Tracking, Fills, ReadMessage
  PROVE  Fills'
<1> DEFINE m == Head(feed)
<1>1. /\ feed # <<>> /\ OnMessage(m) /\ feed' = Tail(feed)
      /\ UNCHANGED <<state, left, reported, missed>> /\ stream = "running"
  BY DEF ReadMessage, exchangeVars, historyVars
<1>2. /\ m \in Messages /\ m = feed[1] /\ 1 \in 1 .. Len(feed)
      /\ eventQueue \in Seq(MyEvents) /\ feed \in Seq(Messages)
  BY <1>1, HeadIsMessage DEF Types, HandlerTypes, ExchangeTypes
<1>3. Parties(m)
  BY <1>2 DEF Fills
<1>4. \A i \in 1 .. Len(feed') : Parties(feed'[i])
  <2> SUFFICES ASSUME NEW i \in 1 .. Len(Tail(feed))
               PROVE  Parties(Tail(feed)[i])
    BY <1>1
  <2>1. Tail(feed)[i] = feed[i + 1] /\ i + 1 \in 1 .. Len(feed)
    BY <1>1, HeadIsMessage
  <2> QED
    BY <2>1 DEF Fills
<1>5. ASSUME Running', NEW o \in MyOrders \ missed'
      PROVE  Balanced(o)'
  <2>1. Running /\ o \in MyOrders \ missed /\ Followed(o) /\ Balanced(o)
    BY <1>1, <1>5 DEF Running, Tracking, Fills
  <2>2. EventOf(m) \in MyEvents /\ eventQueue' = Append(eventQueue, EventOf(m))
    BY <1>1, <1>2, <1>5, Handling DEF Running, Enqueue
  <2>3. OfEvent(EventOf(m), o) = "match" <=> OfMessage(m, o) = "match"
    BY <1>1, <1>3, <2>1, TransactionOfItsOrder
  <2>4. /\ Cardinality(Transactions(eventQueue, o)) \in Nat
        /\ Cardinality(Transactions(eventQueue', o)) =
             IF OfEvent(EventOf(m), o) = "match" THEN Cardinality(Transactions(eventQueue, o)) + 1
                                                 ELSE Cardinality(Transactions(eventQueue, o))
    BY <1>2, <2>2, TransactionsAppended
  <2>5. /\ Cardinality(MatchesOf(feed', o)) \in Nat
        /\ Cardinality(MatchesOf(feed, o)) =
             IF OfMessage(m, o) = "match" THEN Cardinality(MatchesOf(feed', o)) + 1
                                          ELSE Cardinality(MatchesOf(feed', o))
    BY <1>1, <1>2, MatchesTaken
  <2>6. reported[o] \in Nat
    BY SessionAssumption DEF Types, MainTypes
  <2>7. Size - left[o] = reported[o] + Cardinality(Transactions(eventQueue, o))
                           + Cardinality(MatchesOf(feed, o))
    BY <2>1 DEF Balanced
  <2> HIDE DEF m
  <2>8. Size - left[o] = reported[o] + Cardinality(Transactions(eventQueue', o))
                           + Cardinality(MatchesOf(feed', o))
    BY <2>3, <2>4, <2>5, <2>6, <2>7
  <2> QED
    BY <1>1, <2>8 DEF Balanced
<1> QED
  BY <1>1, <1>4, <1>5 DEF Fills

LEMMA FeedFills ==
  ASSUME Types, Fills, FeedStrategy
  PROVE  Fills'
<1> DEFINE e == Head(eventQueue)
<1>1. /\ eventQueue # <<>> /\ eventQueue' = Tail(eventQueue)
      /\ \A o \in MyOrders :
           reported'[o] = IF e.kind = "transaction" /\ e.id = o THEN reported[o] + 1 ELSE reported[o]
      /\ UNCHANGED <<stream, state, left, feed, missed>>
  BY Feeding
<1>2. e \in MyEvents /\ eventQueue \in Seq(MyEvents) /\ feed \in Seq(Messages)
  BY <1>1, HeadIsEvent DEF Types, HandlerTypes, ExchangeTypes
<1> HIDE DEF e
<1>3. ASSUME Running', NEW o \in MyOrders \ missed'
      PROVE  Balanced(o)'
  <2>1. Balanced(o)
    BY <1>1, <1>3 DEF Running, Fills
  <2>2. (e.kind = "transaction" /\ e.id = o) <=> OfEvent(e, o) = "match"
    BY <1>2 DEF OfEvent, MyEvents, MyStatusEvents, TransactionEvents
  <2>3. /\ Cardinality(Transactions(eventQueue', o)) \in Nat
        /\ Cardinality(Transactions(eventQueue, o)) =
             IF OfEvent(e, o) = "match" THEN Cardinality(Transactions(eventQueue', o)) + 1
                                        ELSE Cardinality(Transactions(eventQueue', o))
    BY <1>1, <1>2, TransactionsTaken DEF e
  <2>4. reported[o] \in Nat
    BY SessionAssumption DEF Types, MainTypes
  <2>5. reported'[o] = IF OfEvent(e, o) = "match" THEN reported[o] + 1 ELSE reported[o]
    BY <1>1, <2>2
  <2>6. reported'[o] + Cardinality(Transactions(eventQueue', o))
          = reported[o] + Cardinality(Transactions(eventQueue, o))
    BY <2>3, <2>4, <2>5
  <2> QED
    BY <1>1, <2>1, <2>6 DEF Balanced
<1> QED
  BY <1>1, <1>3 DEF Fills

LEMMA NextFills == Types /\ Forward /\ Tracking /\ Fills /\ [Next]_vars => Fills'
<1> SUFFICES ASSUME Types, Forward, Tracking, Fills, [Next]_vars
             PROVE  Fills'
  OBVIOUS
<1>1. CASE \E o \in MyOrders, ok \in BOOLEAN :
             Accept(o, ok) \/ Open(o, ok) \/ Match(o, ok) \/ Done(o, ok)
  BY <1>1, EngineSteps, EngineFills
<1>2. CASE ReadMessage
  BY <1>2, ReadFills
<1>3. CASE FeedStrategy
  BY <1>3, FeedFills
<1>4. CASE Restart
  <2>1. /\ eventQueue' = <<>> /\ feed' = <<>> /\ UNCHANGED <<state, left>>
        /\ reported' = [o \in OrderIds |-> 0]
        /\ \A o \in MyOrders \ missed' : state[o] = "none"
    BY <1>4 DEF Restart
  <2>2. \A o \in MyOrders \ missed' : Size - left[o] = 0 /\ reported'[o] = 0
    BY <2>1, SessionAssumption DEF Fills
  <2>3. \A o \in MyOrders \ missed' : Balanced(o)'
    BY <2>1, <2>2, NothingToCount DEF Balanced
  <2> QED
    BY <2>1, <2>3 DEF Fills
<1>5. CASE Idle
  BY <1>5, Idling DEF Fills, Balanced
<1> QED
  BY <1>1, <1>2, <1>3, <1>4, <1>5, NextCases

-----------------------------------------------------------------------------
(* The theorems                                                            *)

LEMMA InitIInv == Init => IInv
<1> SUFFICES ASSUME Init
             PROVE  IInv
  OBVIOUS
<1>1. Types
  BY InitTypes
<1>2. /\ eventQueue = <<>> /\ feed = <<>> /\ myOrderIds = {}
      /\ state = [o \in MyOrders |-> "none"] /\ left = [o \in MyOrders |-> Size]
      /\ lastStatus = [o \in MyOrders |-> "none"] /\ reported = [o \in OrderIds |-> 0]
  BY DEF Init, HandlerInit
<1>3. Forward
  BY <1>2, ForwardAnew DEF Forward
<1>4. Tracking
  BY <1>2 DEF Tracking, Followed, UnderWay
<1>5. Fills
  <2>1. \A o \in MyOrders : Size - left[o] = 0 /\ reported[o] = 0
    BY <1>2, SessionAssumption
  <2>2. \A o \in MyOrders : Balanced(o)
    BY <1>2, <2>1, NothingToCount DEF Balanced
  <2> QED
    BY <1>2, <2>2 DEF Fills
<1> QED
  BY <1>1, <1>3, <1>4, <1>5 DEF IInv

LEMMA NextIInv == IInv /\ [Next]_vars => IInv'
BY NextTypes, NextForward, NextTracking, NextFills DEF IInv

(***************************************************************************)
(* The inductive invariant: types, trails that go forward, the orders that *)
(* the handler follows, and the balance of every order's fills.            *)
(***************************************************************************)
THEOREM Invariance == Spec => []IInv
BY InitIInv, NextIInv, PTL DEF Spec

(***************************************************************************)
(* The type invariant of the exchange, the main thread and the handler.    *)
(***************************************************************************)
THEOREM TypeCorrect == Spec => []TypeOK
<1>1. IInv => TypeOK
  BY TypesAreTypeOK DEF IInv
<1> QED
  BY <1>1, Invariance, PTL

(***************************************************************************)
(* No fill is lost, reported twice or attributed to another order between  *)
(* the matching engine and the strategy, of any order all of whose         *)
(* messages were sent to this process.                                     *)
(***************************************************************************)
THEOREM FillsAlwaysAddUp == Spec => []FillsAddUp
<1>1. IInv => FillsAddUp
  <2> SUFFICES ASSUME IInv, stream = "running", NEW o \in MyOrders \ missed
               PROVE  Size - left[o] =
                        reported[o]
                        + Count(eventQueue, LAMBDA e : e.kind = "transaction" /\ e.id = o)
                        + Count(feed, LAMBDA m : m.type = "match" /\ m.order = o)
    BY DEF FillsAddUp
  <2>1. Types /\ Balanced(o)
    BY DEF IInv, Fills, Running
  <2> QED
    BY <2>1, CountsAreCardinalities DEF Balanced
<1> QED
  BY <1>1, Invariance, PTL

(***************************************************************************)
(* When all that was sent has arrived, myOrderIds_ holds the live orders   *)
(* and no others.                                                          *)
(***************************************************************************)
THEOREM LiveOrdersAreTracked == Spec => []TracksLiveOrders
<1>1. IInv => TracksLiveOrders
  <2> SUFFICES ASSUME IInv, stream = "running", feed = <<>>, NEW o \in MyOrders \ missed
               PROVE  o \in myOrderIds <=> state[o] \in Live
    BY DEF TracksLiveOrders
  <2>1. Followed(o)
    BY DEF IInv, Tracking, Running
  <2>2. \A type : ~UnderWay(type, o)
    BY DEF UnderWay
  <2>3. "none" \notin Live
    BY DEF Live
  <2> QED
    BY <2>1, <2>2, <2>3 DEF Followed
<1> QED
  BY <1>1, Invariance, PTL

(* The step of OrdersGoForward. *)
GoForward ==
  session' = session =>
    \A o \in MyOrders :
      /\ lastStatus'[o] # lastStatus[o] => Rank[lastStatus'[o]] > Rank[lastStatus[o]]
      /\ reported'[o] # reported[o] => lastStatus[o] # "done"

LEMMA FeedGoesForward ==
  ASSUME Types, Forward, FeedStrategy, NEW o \in MyOrders
  PROVE  /\ lastStatus'[o] # lastStatus[o] => Rank[lastStatus'[o]] > Rank[lastStatus[o]]
         /\ reported'[o] # reported[o] => lastStatus[o] # "done"
<1> DEFINE e == Head(eventQueue)
           t == TrailOf(o, lastStatus[o], eventQueue, feed)
           n == Len(eventQueue) + Len(feed)
<1>1. /\ eventQueue # <<>>
      /\ \/ lastStatus'[o] = lastStatus[o]
         \/ /\ OfEvent(e, o) \in {"received", "open", "done"}
            /\ lastStatus'[o] = OfEvent(e, o)
      /\ reported'[o] = IF e.kind = "transaction" /\ e.id = o THEN reported[o] + 1 ELSE reported[o]
  BY Feeding
<1>2. /\ e \in MyEvents /\ e = eventQueue[1] /\ 1 \in 1 .. Len(eventQueue)
      /\ eventQueue \in Seq(MyEvents) /\ feed \in Seq(Messages) /\ lastStatus[o] \in Statuses
  BY <1>1, HeadIsEvent DEF Types, HandlerTypes, ExchangeTypes, MainTypes
<1>3. TrailIs(t, o, lastStatus[o], eventQueue, feed)
  BY <1>2, TrailAt
<1>4. 0 \in 0 .. n /\ 1 \in 0 .. n
  BY <1>2, LenProperties
<1>5. InOrder(t, n, state[o])
  BY DEF Forward, GoesForward
<1> HIDE DEF e, t, n
<1>6. t[0] = lastStatus[o] /\ t[1] = OfEvent(e, o)
  BY <1>2, <1>3 DEF TrailIs
<1>7. MayFollow(lastStatus[o], OfEvent(e, o))
  BY <1>4, <1>5, <1>6 DEF InOrder
<1>8. ASSUME OfEvent(e, o) \in {"received", "open", "done"}, lastStatus'[o] = OfEvent(e, o),
             lastStatus'[o] # lastStatus[o]
      PROVE  Rank[lastStatus'[o]] > Rank[lastStatus[o]]
  BY <1>2, <1>7, <1>8 DEF MayFollow, Statuses, Rank
<1>9. ASSUME reported'[o] # reported[o]
      PROVE  lastStatus[o] # "done"
  <2>1. OfEvent(e, o) = "match"
    BY <1>1, <1>9 DEF OfEvent
  <2> QED
    BY <1>7, <2>1 DEF MayFollow
<1> QED
  BY <1>1, <1>8, <1>9

(***************************************************************************)
(* Within a session the strategy sees an order go forward only: received,  *)
(* open, done, each at most once, and no transaction after done.           *)
(***************************************************************************)
THEOREM OrdersAlwaysGoForward == Spec => OrdersGoForward
<1>1. IInv /\ [Next]_vars => [GoForward]_vars
  <2> SUFFICES ASSUME IInv, [Next]_vars, session' = session, NEW o \in MyOrders
               PROVE  /\ lastStatus'[o] # lastStatus[o] => Rank[lastStatus'[o]] > Rank[lastStatus[o]]
                      /\ reported'[o] # reported[o] => lastStatus[o] # "done"
    BY DEF GoForward
  <2>1. CASE FeedStrategy
    BY <2>1, FeedGoesForward DEF IInv
  <2>2. CASE ReadMessage
    BY <2>2 DEF ReadMessage, historyVars
  <2>3. CASE \E p \in MyOrders, ok \in BOOLEAN :
               Accept(p, ok) \/ Open(p, ok) \/ Match(p, ok) \/ Done(p, ok)
    BY <2>3 DEF Accept, Open, Match, Done, Engine
  <2>4. CASE Restart
    BY <2>4 DEF Restart, IInv, Types, MainTypes
  <2>5. CASE Idle
    BY <2>5, Idling
  <2> QED
    BY <2>1, <2>2, <2>3, <2>4, <2>5, NextCases
<1>2. [][GoForward]_vars => OrdersGoForward
  BY PTL DEF OrdersGoForward, GoForward
<1> QED
  BY <1>1, <1>2, Invariance, PTL DEF Spec
=============================================================================
