--------------------------- MODULE TradingSession ----------------------------
(***************************************************************************)
(* The user's orders from the exchange to the strategy: the exchange's     *)
(* matching engine and its feed (external), the main thread that places    *)
(* orders over REST and feeds the strategy (adapter.cpp), the stream       *)
(* thread with its handler, and the process, which may end at any time and *)
(* be started again while its orders live on at the exchange.              *)
(*                                                                         *)
(* One product.  The web socket's requests and feed are reliable and in    *)
(* order, of any delay; a request whose signature was cut is refused.      *)
(* REST requests go another way and may be served before or after them.    *)
(* The field order of a match is not on the wire: it records which of the  *)
(* user's orders matched, for the properties.                              *)
(***************************************************************************)
EXTENDS StreamHandler, FiniteSets

CONSTANTS
  MyOrders,     (* the user's orders                                       *)
  Other,        (* the order of somebody else in a match                   *)
  Size,         (* of every order                                          *)
  MaxSessions,  (* bound: starts of the process                            *)
  MaxCalls,     (* bound: calls of updateUniverse and placeOrder           *)
  MaxFeed,      (* bound: messages on their way to the client              *)
  MaxErrors     (* bound: messages that do not parse or lack a field,      *)
                (* requests with a cut signature                           *)

ASSUME SessionAssumption ==
  /\ OrderIds = MyOrders \cup {Other} /\ Other \notin MyOrders
  /\ Absent \notin Nat
  /\ {Size, MaxSessions, MaxCalls, MaxFeed, MaxErrors} \subseteq Nat
  /\ Size > 0 /\ MaxSessions > 0

VARIABLES
  state, left,     (* exchange: each order's state and unmatched size      *)
  subscribed,      (* exchange: this client gets the user channel          *)
  inflight,        (* REST requests on their way to the exchange           *)
  requests, feed,  (* the web socket, to and from the exchange             *)
  hasUniverse,     (* currentUniverse_ holds the product                   *)
  placing,         (* the order whose placeOrder the main thread is in     *)
  session, calls, errors, (* counters for the bounds                     *)
  lastStatus,      (* history: the last status the strategy got            *)
  reported,        (* history: the transactions the strategy got           *)
  missed           (* history: orders of which a message went unsent or    *)
                   (* was lost with an earlier process                     *)

exchangeVars == <<state, left, subscribed, inflight>>
socketVars == <<requests, feed>>
mainVars == <<hasUniverse, placing, session, calls>>
historyVars == <<lastStatus, reported, missed>>
vars == <<handlerVars, exchangeVars, socketVars, mainVars, errors, historyVars>>

Statuses == {"none", "received", "open", "done"}
Live == {"received", "open"}

TypeOK ==
  /\ HandlerTypeOK
  /\ state \in [MyOrders -> Statuses]
  /\ left \in [MyOrders -> 0 .. Size]
  /\ subscribed \in BOOLEAN
  /\ inflight \subseteq MyOrders
  /\ requests \in Seq({"subscribe", "unsubscribe"})
  /\ {feed[i].type : i \in DOMAIN feed} \subseteq {"received", "open", "match", "done"}
  /\ hasUniverse \in BOOLEAN
  /\ placing \subseteq MyOrders /\ Cardinality(placing) <= 1
  /\ session \in 1 .. MaxSessions /\ calls \in 0 .. MaxCalls
  /\ errors \in 0 .. MaxErrors
  /\ lastStatus \in [MyOrders -> Statuses]
  /\ reported \in [OrderIds -> Nat]
  /\ missed \subseteq MyOrders

Init ==
  /\ HandlerInit
  /\ state = [o \in MyOrders |-> "none"] /\ left = [o \in MyOrders |-> Size]
  /\ subscribed = FALSE /\ inflight = {}
  /\ requests = <<>> /\ feed = <<>>
  /\ hasUniverse = FALSE /\ placing = {}
  /\ session = 1 /\ calls = 0 /\ errors = 0
  /\ lastStatus = [o \in MyOrders |-> "none"]
  /\ reported = [o \in OrderIds |-> 0]
  /\ missed = {}

Running == stream \in {"starting", "running"}

-----------------------------------------------------------------------------
(* The exchange's matching engine                                          *)

(* The message goes into the feed of a subscribed client, nowhere else. *)
Emit(o, m) ==
  IF subscribed
    THEN /\ Len(feed) < MaxFeed
         /\ feed' = Append(feed, m)
         /\ errors' = IF m.parsable THEN errors ELSE errors + 1
         /\ errors' <= MaxErrors
         /\ UNCHANGED missed
    ELSE missed' = missed \cup {o} /\ m.parsable /\ UNCHANGED <<feed, errors>>

(* A message that lacks its size counts as an error as well. *)
Received(o, size, ok) ==
  [type |-> "received", id |-> o, size |-> size, parsable |-> ok]

Engine(o, from, to, m) ==
  /\ state[o] \in from
  /\ state' = [state EXCEPT ![o] = to]
  /\ Emit(o, m)
  /\ UNCHANGED <<handlerVars, subscribed, requests, mainVars, lastStatus, reported>>

(* A market order may be given by its funds: its receipt has no size. *)
Accept(o, ok) ==
  /\ o \in inflight /\ inflight' = inflight \ {o}
  /\ \/ Engine(o, {"none"}, "received", Received(o, Size, ok))
     \/ ~ok /\ Engine(o, {"none"}, "received", Received(o, Absent, ok))
  /\ UNCHANGED left

Reject(o) ==
  /\ o \in inflight /\ inflight' = inflight \ {o}
  /\ UNCHANGED <<handlerVars, state, left, subscribed, socketVars, mainVars, errors,
                 historyVars>>

(* What is left of a limit order rests in the book. *)
Open(o, ok) ==
  /\ left[o] > 0
  /\ Engine(o, {"received"}, "open",
            [type |-> "open", id |-> o, left |-> left[o], parsable |-> ok])
  /\ UNCHANGED <<left, inflight>>

(* One unit matches: of the taker on arrival, of the maker while resting. *)
Match(o, ok) ==
  /\ left[o] > 0
  /\ left' = [left EXCEPT ![o] = @ - 1]
  /\ Engine(o, Live, state[o],
            [type |-> "match", order |-> o, parsable |-> ok,
             maker |-> IF state[o] = "open" THEN o ELSE Other,
             taker |-> IF state[o] = "open" THEN Other ELSE o])
  /\ UNCHANGED inflight

(* Filled, or canceled while resting. *)
Done(o, ok) ==
  /\ left[o] = 0 \/ state[o] = "open"
  /\ Engine(o, Live, "done", [type |-> "done", id |-> o, parsable |-> ok])
  /\ UNCHANGED <<left, inflight>>

ServeRequest ==
  /\ requests # <<>>
  /\ requests' = Tail(requests)
  /\ \/ subscribed' = (Head(requests) = "subscribe") /\ UNCHANGED errors
     \/ /\ errors < MaxErrors /\ errors' = errors + 1  \* refused
        /\ UNCHANGED subscribed
  /\ UNCHANGED <<handlerVars, state, left, inflight, feed, mainVars, historyVars>>

-----------------------------------------------------------------------------
(* The main thread                                                         *)

Ready == Running /\ placing = {}

(* updateUniverse with the one product: unsubscribes from the current      *)
(* universe, unless that is empty, and subscribes.                         *)
UpdateUniverse ==
  /\ Ready
  /\ calls < MaxCalls /\ calls' = calls + 1
  /\ requests' = requests \o IF hasUniverse THEN <<"unsubscribe", "subscribe">>
                                            ELSE <<"subscribe">>
  /\ hasUniverse' = TRUE
  /\ UNCHANGED <<handlerVars, exchangeVars, feed, placing, session, errors, historyVars>>

PlaceOrder(o) ==
  /\ Ready
  /\ state[o] = "none" /\ o \notin inflight
  /\ calls < MaxCalls /\ calls' = calls + 1
  /\ placing' = {o} /\ inflight' = inflight \cup {o}
  /\ UNCHANGED <<handlerVars, state, left, subscribed, socketVars, hasUniverse, session,
                 errors, historyVars>>

(* The response is there: accepted with an id or rejected with a message. *)
PlaceOrderReturns ==
  /\ Running /\ placing # {}
  /\ placing \cap inflight = {}
  /\ placing' = {}
  /\ UNCHANGED <<handlerVars, exchangeVars, socketVars, hasUniverse, session, calls,
                 errors, historyVars>>

StartStreaming ==
  /\ Ready /\ stream = "starting"
  /\ stream' = "running"
  /\ UNCHANGED <<tickTracker, myOrderIds, eventQueue, exchangeVars, socketVars, mainVars,
                 errors, historyVars>>

(* Mutant of FeedStrategy: the newest event first. *)
FeedStrategyNewest ==
  /\ Ready /\ stream = "running"
  /\ eventQueue # <<>> /\ eventQueue' = SubSeq(eventQueue, 1, Len(eventQueue) - 1)
  /\ LET e == eventQueue[Len(eventQueue)] IN
       \/ /\ e.kind = "status"
          /\ lastStatus' = [lastStatus EXCEPT ![e.id] = e.status]
          /\ UNCHANGED reported
       \/ /\ e.kind = "transaction"
          /\ reported' = [reported EXCEPT ![e.id] = @ + 1]
          /\ UNCHANGED lastStatus
  /\ UNCHANGED <<tickTracker, myOrderIds, stream, exchangeVars, socketVars, mainVars,
                 errors, missed>>

FeedStrategy ==
  /\ Ready /\ stream = "running"
  /\ eventQueue # <<>> /\ eventQueue' = Tail(eventQueue)
  /\ LET e == Head(eventQueue) IN
       \/ /\ e.kind = "status"
          /\ lastStatus' = [lastStatus EXCEPT ![e.id] = e.status]
          /\ UNCHANGED reported
       \/ /\ e.kind = "transaction"
          /\ reported' = [reported EXCEPT ![e.id] = @ + 1]
          /\ UNCHANGED lastStatus
  /\ UNCHANGED <<tickTracker, myOrderIds, stream, exchangeVars, socketVars, mainVars,
                 errors, missed>>

-----------------------------------------------------------------------------
(* The stream thread: streamForever reads and handles one message. *)
ReadMessage ==
  /\ stream = "running"
  /\ feed # <<>>
  /\ OnMessage(Head(feed))
  /\ feed' = Tail(feed)
  /\ UNCHANGED <<exchangeVars, requests, mainVars, errors, historyVars>>

(* The process is killed, or the stream thread has brought it down, and it *)
(* is started again: everything but the exchange and REST requests under   *)
(* way begins anew.                                                        *)
Restart ==
  /\ session < MaxSessions /\ session' = session + 1
  /\ tickTracker' = [p \in Products |-> NoTick]
  /\ myOrderIds' = {} /\ eventQueue' = <<>> /\ stream' = "starting"
  /\ subscribed' = FALSE /\ requests' = <<>> /\ feed' = <<>>
  /\ hasUniverse' = FALSE /\ placing' = {}
  /\ lastStatus' = [o \in MyOrders |-> "none"]
  /\ reported' = [o \in OrderIds |-> 0]
  /\ missed' = missed \cup {o \in MyOrders : state[o] # "none"}
  /\ UNCHANGED <<state, left, inflight, calls, errors>>

-----------------------------------------------------------------------------
MainStep == PlaceOrderReturns \/ StartStreaming \/ FeedStrategy

Answer == \E o \in MyOrders, ok \in BOOLEAN : Accept(o, ok) \/ Reject(o)

Next ==
  \/ Answer
  \/ \E o \in MyOrders, ok \in BOOLEAN : Open(o, ok) \/ Match(o, ok) \/ Done(o, ok)
  \/ ServeRequest
  \/ UpdateUniverse
  \/ \E o \in MyOrders : PlaceOrder(o)
  \/ MainStep
  \/ ReadMessage
  \/ Restart

(***************************************************************************)
(* The threads run on, the exchange answers requests and callbacks return  *)
(* (the bound on calls keeps a callback from placing orders for ever).     *)
(* No order has to match, no process has to be started again.              *)
(***************************************************************************)
Fairness ==
  /\ WF_vars(Answer) /\ WF_vars(ServeRequest)
  /\ WF_vars(MainStep) /\ WF_vars(ReadMessage)

Spec == Init /\ [][Next]_vars /\ Fairness

-----------------------------------------------------------------------------
(* Properties                                                              *)

Count(s, Test(_)) == Cardinality({i \in DOMAIN s : Test(s[i])})

(***************************************************************************)
(* No fill of an order is lost, reported twice or attributed to another    *)
(* order between the matching engine and the strategy, for every order all *)
(* of whose messages were sent to this process: the maker's id is tracked  *)
(* from its receipt on, until after its last match.                        *)
(***************************************************************************)
FillsAddUp ==
  stream = "running" =>
    \A o \in MyOrders \ missed :
      Size - left[o] =
        reported[o]
        + Count(eventQueue, LAMBDA e : e.kind = "transaction" /\ e.id = o)
        + Count(feed, LAMBDA m : m.type = "match" /\ m.order = o)

(***************************************************************************)
(* When all that was sent has arrived, myOrderIds_ holds exactly the live  *)
(* orders, those excepted of which a message was missed: it neither forgets *)
(* a resting order nor keeps a finished one.                               *)
(***************************************************************************)
TracksLiveOrders ==
  stream = "running" /\ feed = <<>> =>
    \A o \in MyOrders \ missed : o \in myOrderIds <=> state[o] \in Live

Rank == [none |-> 0, received |-> 1, open |-> 2, done |-> 3]

(***************************************************************************)
(* Within a session the strategy sees an order go forward only: received,  *)
(* open, done, each at most once, and no transaction after done.           *)
(***************************************************************************)
OrdersGoForward ==
  [][session' = session =>
       \A o \in MyOrders :
         /\ lastStatus'[o] # lastStatus[o] => Rank[lastStatus'[o]] > Rank[lastStatus[o]]
         /\ reported'[o] # reported[o] => lastStatus[o] # "done"]_vars

(***************************************************************************)
(* The end of every order reaches the strategy, unless the stream thread   *)
(* has failed or a message of the order was missed.                        *)
(***************************************************************************)
DoneIsReported ==
  \A o \in MyOrders :
    state[o] = "done" ~> lastStatus[o] = "done" \/ o \in missed \/ stream \in {"failed", "aborted"}

(***************************************************************************)
(* include/cryptoconnect/structs/events.hpp:139: "Transaction event        *)
(* representing a trade occuring for the user": the id it carries is that  *)
(* of one of the user's orders.                                            *)
(***************************************************************************)
TransactionIsMine ==
  \A i \in DOMAIN eventQueue :
    eventQueue[i].kind = "transaction" => eventQueue[i].id \in MyOrders
=============================================================================
