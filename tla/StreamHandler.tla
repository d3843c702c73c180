---------------------------- MODULE StreamHandler ----------------------------
(***************************************************************************)
(* src/adapters/coinbasepro/stream/handler.cpp: what the stream thread     *)
(* does with one message of the exchange's feed.                           *)
(*                                                                         *)
(* A message is a record: its type, the fields its handler reads, and      *)
(* parsable, FALSE when a number or a date in it makes the conversion      *)
(* throw.  A field may also be absent (Absent), which fails an assertion   *)
(* of the JSON library and aborts the process.  Prices and volumes of one  *)
(* side of the book are one value, a quote; times are left out.            *)
(*                                                                         *)
(* eventQueue is the bounded FIFO that EventQueue implements: a full queue *)
(* blocks the stream thread inside enqueue, and since no other thread sees *)
(* the handler's state the whole handler is one step that waits for room.  *)
(***************************************************************************)
EXTENDS Naturals, Sequences

CONSTANTS
  Products,
  Quotes,      (* a best price with its volume                             *)
  OrderIds,    (* the ids of all orders, the user's and other people's     *)
  Absent,      (* a field the message lacks                                *)
  NoTick,      (* no entry in tickTracker_                                 *)
  Capacity     (* of the event queue                                       *)

ASSUME HandlerAssumption ==
  /\ Absent \notin Quotes
  /\ NoTick \notin [bid : Quotes, ask : Quotes, isBuySide : BOOLEAN]
  /\ Capacity \in Nat \ {0}

VARIABLES
  tickTracker, (* tickTracker_: the last tick of each product              *)
  myOrderIds,  (* myOrderIds_                                              *)
  eventQueue,  (* *eventQueue_                                             *)
  stream       (* the stream thread: starting, running, failed (an         *)
               (* exception left onMessage) or aborted (an assertion)      *)

handlerVars == <<tickTracker, myOrderIds, eventQueue, stream>>

Ticks == [bid : Quotes, ask : Quotes, isBuySide : BOOLEAN]

TickEvents == [kind : {"tick"}, product : Products, tick : Ticks]
TradeEvents == [kind : {"trade"}, product : Products, price : Quotes]
StatusEvents ==
  [kind : {"status"}, id : OrderIds, status : {"received", "open", "done"}, left : Nat]
TransactionEvents == [kind : {"transaction"}, id : OrderIds]

Events == TickEvents \cup TradeEvents \cup StatusEvents \cup TransactionEvents

HandlerTypeOK ==
  /\ tickTracker \in [Products -> Ticks \cup {NoTick}]
  /\ myOrderIds \subseteq OrderIds
  /\ eventQueue \in Seq(Events)
  /\ Len(eventQueue) <= Capacity
  /\ stream \in {"starting", "running", "failed", "aborted"}

HandlerInit ==
  /\ tickTracker = [p \in Products |-> NoTick]
  /\ myOrderIds = {}
  /\ eventQueue = <<>>
  /\ stream = "starting"

-----------------------------------------------------------------------------
Enqueue(e) ==
  /\ Len(eventQueue) < Capacity
  /\ eventQueue' = Append(eventQueue, e)

(* The exception is caught inside the handler: the message is dropped. *)
Drop == UNCHANGED handlerVars

(* It leaves onMessage and streamForever: the thread ends in onExit and    *)
(* exit(1).                                                                *)
Throw == stream' = "failed" /\ UNCHANGED <<tickTracker, eventQueue>>

(* RAPIDJSON_ASSERT: the process aborts. *)
Abort == stream' = "aborted" /\ UNCHANGED <<tickTracker, eventQueue>>

-----------------------------------------------------------------------------
(* Market data                                                             *)

(* Mutant of HandleSnapshot: a missing side is taken as it comes. *)
HandleSnapshotUnchecked(m) ==
  \/ ~m.parsable /\ Drop
  \/ /\ m.parsable
     /\ tickTracker' = [tickTracker EXCEPT
                          ![m.product] = [bid |-> m.bid, ask |-> m.ask, isBuySide |-> TRUE]]
     /\ UNCHANGED <<myOrderIds, eventQueue, stream>>

(* The arrays of asks and bids are read at index 0, though a side of the   *)
(* book may have no entry: the asks first, and the bids if the best ask    *)
(* has parsed.                                                             *)
LacksSide(m) == m.ask = Absent \/ (m.bid = Absent /\ m.parsable)

(* Mutant of HandleSnapshot: emplace, which keeps an existing entry. *)
HandleSnapshotEmplace(m) ==
  \/ LacksSide(m) /\ Abort /\ UNCHANGED myOrderIds
  \/ m.ask # Absent /\ ~m.parsable /\ Drop
  \/ /\ Absent \notin {m.bid, m.ask} /\ m.parsable
     /\ tickTracker' = [tickTracker EXCEPT
           ![m.product] = IF @ = NoTick
                            THEN [bid |-> m.bid, ask |-> m.ask, isBuySide |-> TRUE] ELSE @]
     /\ UNCHANGED <<myOrderIds, eventQueue, stream>>

HandleSnapshot(m) ==
  \/ LacksSide(m) /\ Abort /\ UNCHANGED myOrderIds
  \/ m.ask # Absent /\ ~m.parsable /\ Drop
  \/ /\ Absent \notin {m.bid, m.ask} /\ m.parsable
     /\ tickTracker' = [tickTracker EXCEPT
                          ![m.product] = [bid |-> m.bid, ask |-> m.ask, isBuySide |-> TRUE]]
     /\ UNCHANGED <<myOrderIds, eventQueue, stream>>

(* Mutant of NextTick: an update replaces the whole tick. *)
NextTickBothSides(tick, m) ==
  [bid |-> m.quote, ask |-> m.quote, isBuySide |-> m.side = "buy"]

(* The side that the update names, with the other side as it was. *)
NextTick(tick, m) ==
  IF m.side = "buy" THEN [tick EXCEPT !.bid = m.quote, !.isBuySide = TRUE]
                    ELSE [tick EXCEPT !.ask = m.quote, !.isBuySide = FALSE]

(* Mutant of HandleTick: the tracker keeps the snapshot's tick. *)
HandleTickUntracked(m) ==
  \/ tickTracker[m.product] = NoTick /\ Drop
  \/ tickTracker[m.product] # NoTick /\ ~m.parsable /\ Drop
  \/ /\ tickTracker[m.product] # NoTick /\ m.parsable
     /\ Enqueue([kind |-> "tick", product |-> m.product,
                 tick |-> NextTick(tickTracker[m.product], m)])
     /\ UNCHANGED <<tickTracker, myOrderIds, stream>>

(* No tick without a snapshot to build on. *)
HandleTick(m) ==
  \/ tickTracker[m.product] = NoTick /\ Drop
  \/ tickTracker[m.product] # NoTick /\ ~m.parsable /\ Drop
  \/ /\ tickTracker[m.product] # NoTick /\ m.parsable
     /\ tickTracker' = [tickTracker EXCEPT ![m.product] = NextTick(@, m)]
     /\ Enqueue([kind |-> "tick", product |-> m.product,
                 tick |-> tickTracker'[m.product]])
     /\ UNCHANGED <<myOrderIds, stream>>

HandleTrade(m) ==
  \/ ~m.parsable /\ Drop
  \/ /\ m.parsable
     /\ Enqueue([kind |-> "trade", product |-> m.product, price |-> m.price])
     /\ UNCHANGED <<tickTracker, myOrderIds, stream>>

-----------------------------------------------------------------------------
(* The user's orders                                                       *)

OrderStatus(m, status, left) ==
  [kind |-> "status", id |-> m.id, status |-> status, left |-> left]

(* Mutant of HandleOrderReceipt: a missing size is taken as it comes. *)
HandleOrderReceiptUnchecked(m) ==
  /\ myOrderIds' = myOrderIds \cup {m.id}
  /\ Enqueue(OrderStatus(m, "received", m.size))
  /\ UNCHANGED <<tickTracker, stream>>

(* The id is tracked before the rest of the message is read. *)
HandleOrderReceipt(m) ==
  /\ myOrderIds' = myOrderIds \cup {m.id}
  /\ \/ m.size = Absent /\ Abort
     \/ m.size # Absent /\ ~m.parsable /\ Throw
     \/ /\ m.size # Absent /\ m.parsable
        /\ Enqueue(OrderStatus(m, "received", m.size))
        /\ UNCHANGED <<tickTracker, stream>>

HandleOrderOpen(m) ==
  \/ ~m.parsable /\ Throw /\ UNCHANGED myOrderIds
  \/ /\ m.parsable
     /\ Enqueue(OrderStatus(m, "open", m.left))
     /\ UNCHANGED <<tickTracker, myOrderIds, stream>>

(* Mutant of HandleOrderDone: the id stays tracked. *)
HandleOrderDoneTracked(m) ==
  \/ ~m.parsable /\ Throw /\ UNCHANGED myOrderIds
  \/ /\ m.parsable
     /\ Enqueue(OrderStatus(m, "done", 0))
     /\ UNCHANGED <<tickTracker, myOrderIds, stream>>

(* Mutant of HandleOrderDone: catches the exception like the handlers of   *)
(* market data.                                                            *)
HandleOrderDoneCaught(m) ==
  /\ myOrderIds' = myOrderIds \ {m.id}
  /\ \/ ~m.parsable /\ UNCHANGED <<tickTracker, eventQueue, stream>>
     \/ /\ m.parsable
        /\ Enqueue(OrderStatus(m, "done", 0))
        /\ UNCHANGED <<tickTracker, stream>>

HandleOrderDone(m) ==
  /\ myOrderIds' = myOrderIds \ {m.id}
  /\ \/ ~m.parsable /\ Throw
     \/ /\ m.parsable
        /\ Enqueue(OrderStatus(m, "done", 0))
        /\ UNCHANGED <<tickTracker, stream>>

(* Mutant of HandleOrderMatch: always the taker's. *)
HandleOrderMatchTaker(m) ==
  \/ ~m.parsable /\ Throw /\ UNCHANGED myOrderIds
  \/ /\ m.parsable
     /\ Enqueue([kind |-> "transaction", id |-> m.taker])
     /\ UNCHANGED <<tickTracker, myOrderIds, stream>>

(* The transaction is the maker's if that is one of the user's orders,     *)
(* otherwise it is taken to be the taker's.                                *)
HandleOrderMatch(m) ==
  \/ ~m.parsable /\ Throw /\ UNCHANGED myOrderIds
  \/ /\ m.parsable
     /\ Enqueue([kind |-> "transaction",
                 id |-> IF m.maker \in myOrderIds THEN m.maker ELSE m.taker])
     /\ UNCHANGED <<tickTracker, myOrderIds, stream>>

-----------------------------------------------------------------------------
(* Acknowledgements, errors and unknown types are only logged. *)
OnMessage(m) ==
  \/ m.type = "snapshot" /\ HandleSnapshot(m)
  \/ m.type = "l2update" /\ HandleTick(m)
  \/ m.type = "ticker" /\ HandleTrade(m)
  \/ m.type = "received" /\ HandleOrderReceipt(m)
  \/ m.type = "open" /\ HandleOrderOpen(m)
  \/ m.type = "done" /\ HandleOrderDone(m)
  \/ m.type = "match" /\ HandleOrderMatch(m)
  \/ m.type \in {"subscriptions", "error"} /\ Drop
=============================================================================
