----------------------------- MODULE MarketData ------------------------------
(***************************************************************************)
(* Market data from the exchange to the strategy: the exchange's books and *)
(* its feed (external), the main thread that updates the universe and      *)
(* feeds the strategy (adapter.cpp, stream/connector.cpp), and the stream  *)
(* thread with its handler.                                                *)
(*                                                                         *)
(* requests and feed are the two directions of the web socket: reliable    *)
(* and in order, of any delay.  The exchange sends updates of the best bid *)
(* or ask, as the comments of handler.cpp read the level2 channel.  The    *)
(* field book of an update is not on the wire: it records the exchange's   *)
(* book after the change, for the properties.                              *)
(*                                                                         *)
(* Requests are signed.  A signature may be cut (Base64, RestOrders), and  *)
(* the exchange refuses what it does not verify.                           *)
(***************************************************************************)
EXTENDS StreamHandler, FiniteSets

CONSTANTS
  InitialBooks, (* the books that the products may start with              *)
  MaxChanges,  (* bound: changes of the books and trades                   *)
  MaxUpdates,  (* bound: calls of updateUniverse                           *)
  MaxErrors    (* bound: messages that do not parse, signatures cut        *)

Books == [bid : Quotes \cup {Absent}, ask : Quotes \cup {Absent}]

ASSUME BoundsAssumption ==
  /\ IsFiniteSet(Products)
  /\ InitialBooks \subseteq Books
  /\ {MaxChanges, MaxUpdates, MaxErrors} \subseteq Nat

VARIABLES
  book,            (* exchange: the best quotes of each product            *)
  subscribed,      (* exchange: the products this client is subscribed to  *)
  requests, feed,  (* the web socket, to and from the exchange             *)
  currentUniverse, (* currentUniverse_                                     *)
  main,            (* the main thread: ready, or inside updateUniverse     *)
  target,          (* the argument of updateUniverse                       *)
  changes, updates, errors, (* counters for the bounds                     *)
  refused,         (* history: products whose last request was refused     *)
  dirty            (* history: products of which a message was dropped for *)
                   (* a parse error after the last snapshot accepted       *)

exchangeVars == <<book, subscribed, changes, refused>>
mainVars == <<currentUniverse, main, target, updates>>
vars == <<handlerVars, exchangeVars, requests, feed, mainVars, errors, dirty>>

Sides == {"buy", "sell"}

TypeOK ==
  /\ HandlerTypeOK
  /\ book \in [Products -> Books]
  /\ subscribed \subseteq Products
  /\ requests \in Seq([type : {"subscribe", "unsubscribe"}, products : SUBSET Products,
                       whole : BOOLEAN])
  /\ {feed[i].type : i \in DOMAIN feed}
        \subseteq {"subscriptions", "error", "snapshot", "l2update", "ticker"}
  /\ currentUniverse \subseteq Products
  /\ main \in {"ready", "unsubscribed", "replaced"}
  /\ target \subseteq Products
  /\ changes \in 0 .. MaxChanges /\ updates \in 0 .. MaxUpdates
  /\ errors \in 0 .. MaxErrors
  /\ refused \subseteq Products /\ dirty \subseteq Products

Init ==
  /\ HandlerInit
  /\ book \in [Products -> InitialBooks]
  /\ subscribed = {} /\ requests = <<>> /\ feed = <<>>
  /\ currentUniverse = {} /\ main = "ready" /\ target = {}
  /\ changes = 0 /\ updates = 0 /\ errors = 0
  /\ refused = {} /\ dirty = {}

Running == stream \in {"starting", "running"}

-----------------------------------------------------------------------------
(* The exchange.  A message may come out unparsable.                       *)

Allowed(ok) == ok \/ errors < MaxErrors

Update(p, side, quote, ok) ==
  [type |-> "l2update", product |-> p, side |-> side, quote |-> quote,
   parsable |-> ok, book |-> book'[p]]

ChangeQuote(p, side, quote, ok) ==
  /\ changes < MaxChanges /\ changes' = changes + 1
  /\ book' = [book EXCEPT ![p] =
                IF side = "buy" THEN [@ EXCEPT !.bid = quote] ELSE [@ EXCEPT !.ask = quote]]
  /\ Allowed(ok)
  /\ IF p \in subscribed
       THEN /\ feed' = Append(feed, Update(p, side, quote, ok))
            /\ errors' = IF ok THEN errors ELSE errors + 1
       ELSE ok /\ UNCHANGED <<feed, errors>>
  /\ UNCHANGED <<handlerVars, subscribed, refused, requests, mainVars, dirty>>

MarketTrade(p, quote, ok) ==
  /\ changes < MaxChanges /\ changes' = changes + 1
  /\ p \in subscribed
  /\ Allowed(ok)
  /\ feed' = Append(feed, [type |-> "ticker", product |-> p, price |-> quote,
                           parsable |-> ok])
  /\ errors' = IF ok THEN errors ELSE errors + 1
  /\ UNCHANGED <<handlerVars, book, subscribed, refused, requests, mainVars, dirty>>

Snapshot(p, ok) ==
  [type |-> "snapshot", product |-> p, bid |-> book[p].bid, ask |-> book[p].ask,
   parsable |-> ok]

(* The acknowledgement, then a snapshot of each product, in any order. *)
ServeSubscribe(products) ==
  \E order \in [1 .. Cardinality(products) -> products],
     bad \in SUBSET products :
    /\ \A i, j \in DOMAIN order : i # j => order[i] # order[j]
    /\ errors' = errors + Cardinality(bad) /\ errors' <= MaxErrors
    /\ feed' = feed \o <<[type |-> "subscriptions"]>>
                 \o [i \in DOMAIN order |-> Snapshot(order[i], order[i] \notin bad)]
    /\ subscribed' = subscribed \cup products

ServeUnsubscribe(products) ==
  /\ feed' = Append(feed, [type |-> "subscriptions"])
  /\ subscribed' = subscribed \ products
  /\ UNCHANGED errors

Refuse ==
  /\ feed' = Append(feed, [type |-> "error"])
  /\ UNCHANGED <<subscribed, errors>>

Serve(request) ==
  \/ /\ request.whole
     /\ IF request.type = "subscribe" THEN ServeSubscribe(request.products)
                                       ELSE ServeUnsubscribe(request.products)
     /\ refused' = refused \ request.products
  \/ /\ ~request.whole
     /\ Refuse
     /\ refused' = refused \cup request.products

ServeRequest ==
  /\ requests # <<>>
  /\ requests' = Tail(requests)
  /\ Serve(Head(requests))
  /\ UNCHANGED <<handlerVars, book, changes, mainVars, dirty>>

-----------------------------------------------------------------------------
(* The main thread.  onStart runs before the stream thread is started, the *)
(* other callbacks run inside feedStrategyForever.                         *)

(* subscribeProducts and unsubscribeProducts send nothing for no products. *)
(* The signature of the message is whole, or the digest's first zero byte  *)
(* has cut it.                                                             *)
Request(type, products) ==
  \/ products = {} /\ UNCHANGED <<requests, errors>>
  \/ /\ products # {}
     /\ \E whole \in BOOLEAN :
          /\ Allowed(whole)
          /\ requests' = Append(requests, [type |-> type, products |-> products,
                                           whole |-> whole])
          /\ errors' = IF whole THEN errors ELSE errors + 1

(* Mutant of UpdateUniverse: does not unsubscribe from the old universe. *)
UpdateUniverseNoUnsubscribe(universe) ==
  /\ Running /\ main = "ready"
  /\ updates < MaxUpdates /\ updates' = updates + 1
  /\ target' = universe
  /\ main' = "unsubscribed"
  /\ UNCHANGED <<handlerVars, exchangeVars, requests, feed, currentUniverse, errors, dirty>>

UpdateUniverse(universe) ==
  /\ Running /\ main = "ready"
  /\ updates < MaxUpdates /\ updates' = updates + 1
  /\ target' = universe
  /\ Request("unsubscribe", currentUniverse)
  /\ main' = "unsubscribed"
  /\ UNCHANGED <<handlerVars, exchangeVars, feed, currentUniverse, dirty>>

ReplaceUniverse ==
  /\ Running /\ main = "unsubscribed"
  /\ currentUniverse' = target
  /\ main' = "replaced"
  /\ UNCHANGED <<handlerVars, exchangeVars, requests, feed, target, updates, errors, dirty>>

Subscribe ==
  /\ Running /\ main = "replaced"
  /\ Request("subscribe", currentUniverse)
  /\ main' = "ready"
  /\ UNCHANGED <<handlerVars, exchangeVars, feed, currentUniverse, target, updates, dirty>>

(* onStart has returned: Adapter::start starts the threads. *)
StartStreaming ==
  /\ stream = "starting" /\ main = "ready"
  /\ stream' = "running"
  /\ UNCHANGED <<tickTracker, myOrderIds, eventQueue, exchangeVars, requests, feed,
                 mainVars, errors, dirty>>

(* feedStrategyForever: one event to the strategy's callback. *)
FeedStrategy ==
  /\ stream = "running" /\ main = "ready"
  /\ eventQueue # <<>>
  /\ eventQueue' = Tail(eventQueue)
  /\ UNCHANGED <<tickTracker, myOrderIds, stream, exchangeVars, requests, feed, mainVars,
                 errors, dirty>>

-----------------------------------------------------------------------------
(* The stream thread: streamForever reads and handles one message. *)
Dirty(m) ==
  CASE m.type = "snapshot" -> IF m.parsable THEN dirty \ {m.product} ELSE dirty \cup {m.product}
    [] m.type = "l2update" -> IF m.parsable THEN dirty ELSE dirty \cup {m.product}
    [] OTHER -> dirty

ReadMessage ==
  /\ stream = "running"
  /\ feed # <<>>
  /\ OnMessage(Head(feed))
  /\ feed' = Tail(feed)
  /\ dirty' = Dirty(Head(feed))
  /\ UNCHANGED <<exchangeVars, requests, mainVars, errors>>

-----------------------------------------------------------------------------
MainStep == ReplaceUniverse \/ Subscribe \/ StartStreaming \/ FeedStrategy

Next ==
  \/ \E p \in Products, quote \in Quotes, ok \in BOOLEAN :
        \/ \E side \in Sides : ChangeQuote(p, side, quote, ok)
        \/ MarketTrade(p, quote, ok)
  \/ ServeRequest
  \/ \E universe \in SUBSET Products : UpdateUniverse(universe)
  \/ MainStep
  \/ ReadMessage

(***************************************************************************)
(* The threads run on and the exchange serves requests; callbacks return.  *)
(* Nothing makes the market move or the strategy change its universe.      *)
(***************************************************************************)
Fairness == WF_vars(ServeRequest) /\ WF_vars(MainStep) /\ WF_vars(ReadMessage)

Spec == Init /\ [][Next]_vars /\ Fairness

-----------------------------------------------------------------------------
(* Properties                                                              *)

(***************************************************************************)
(* A tick carries the exchange's best bid and ask as they were after the   *)
(* very change that caused it, although the message names one side only:   *)
(* across changes of the universe, snapshots that overtake nothing, and    *)
(* updates of an earlier subscription still under way.  Only messages that *)
(* did not parse break this, until the next snapshot.                      *)
(***************************************************************************)
TicksAreExact ==
  [][LET m == Head(feed)
         e == eventQueue'[Len(eventQueue')]
     IN  /\ feed # <<>> /\ feed' = Tail(feed)
         /\ m.type = "l2update" /\ eventQueue' # eventQueue
         /\ m.product \notin dirty
         => [bid |-> e.tick.bid, ask |-> e.tick.ask] = m.book]_vars

(* The handler's view of a product is the exchange's. *)
InSync(p) ==
  /\ tickTracker[p] # NoTick
  /\ [bid |-> tickTracker[p].bid, ask |-> tickTracker[p].ask] = book[p]

(***************************************************************************)
(* Once all that was sent has arrived, the tracker agrees with the book of *)
(* every subscribed product, whatever was missed while updateUniverse had  *)
(* the product unsubscribed for a moment.                                  *)
(***************************************************************************)
TrackerCatchesUp ==
  stream = "running" /\ requests = <<>> /\ feed = <<>>
     => \A p \in subscribed \ dirty : InSync(p)

(***************************************************************************)
(* Between two calls of updateUniverse, when the exchange has answered the *)
(* requests, the feed is that of currentUniverse_, the products whose bars *)
(* the scheduler queries: also after a change from or to the empty         *)
(* universe, for which no message is sent, and after refusals.  Those      *)
(* products are excepted of which the last request was refused: onMessage  *)
(* only logs that, and nothing is asked again before the next call, which  *)
(* puts right a refused subscription, but not a refused unsubscription     *)
(* from a product that has left the universe.                              *)
(***************************************************************************)
SubscriptionFollowsUniverse ==
  main = "ready" /\ requests = <<>> =>
    \A p \in Products \ refused : p \in subscribed <=> p \in currentUniverse

(***************************************************************************)
(* include/cryptoconnect/adapters/coinbasepro/adapter.hpp:25, of           *)
(* currentUniverse_: "Tracks the current subscribed universe", here once   *)
(* the stream has read all that the exchange has sent, refusals included.  *)
(***************************************************************************)
TracksSubscribedUniverse ==
  main = "ready" /\ requests = <<>> /\ feed = <<>> => subscribed = currentUniverse

(***************************************************************************)
(* When the market comes to rest the tracker settles on its book: neither  *)
(* a full event queue nor a change of the universe stalls the stream       *)
(* thread for good.                                                        *)
(***************************************************************************)
TrackerSettles ==
  \A p \in Products :
    <>[](stream = "running" /\ p \in subscribed \ dirty => InSync(p))
=============================================================================
