--------------------------- MODULE RestOrders_proofs ---------------------------
(***************************************************************************)
(* Proofs that, as long as one thread makes the calls, what a call reports *)
(* is what the exchange did for it, the shared connection is never a       *)
(* request or an answer behind, and no two orders get one client order id: *)
(* for any threads, orders and number of calls, refused requests, odd      *)
(* answers, digests with zero bytes and connections lost at any time.      *)
(* And that what an isolated request reports is true of it however many    *)
(* threads make calls at a time.                                           *)
(***************************************************************************)
EXTENDS RestOrders, SequenceTheorems, TLAPS

(* The calls there may be, and the answers. *)
Calls ==
  [op : Operations, order : OrderIds \cup {None}, number : 1 .. MaxCalls,
   clientId : 0 .. MaxCalls, isSigned : BOOLEAN]
Bodies ==
  [kind : {"object", "array", "string", "null"}, message : Messages \cup {None},
   ids : SUBSET OrderIds, fields : {"good", "absent", "malformed"}]

(* A call that names an order names one of the exchange's. *)
WellFormed(k) ==
  /\ k \in Calls
  /\ k.op \in {"place", "get", "cancel"} => k.order \in OrderIds
  /\ k.clientId < k.number

Requests == {k \in Calls : WellFormed(k)}

Labels == {"idle", "count", "connect", "sign", "encode", "send", "receive"}

SessionTypes ==
  /\ up \subseteq Connections
  /\ wire \in [Connections -> Seq(Requests)]
  /\ answers \in [Connections -> Seq(Bodies)]

ExchangeTypes ==
  /\ state \in [OrderIds -> {"none", "open", "done"}]
  /\ clientOids \in [OrderIds -> 0 .. MaxCalls \cup {None}]
  /\ effects \in [1 .. MaxCalls -> SUBSET OrderIds]
  /\ errors \in 0 .. MaxErrors

ClientTypes ==
  /\ calls \in 0 .. MaxCalls /\ uniqueOrderId \in 0 .. calls
  /\ digest \in [of : 0 .. MaxCalls, size : {"whole", "cut", "tiny"}]
  /\ process \in {"up", "aborted"} /\ overlapped \in BOOLEAN
  /\ pc \in [Threads -> Labels]
  /\ call \in [Threads -> Requests \cup {NoCall}]
  /\ result \in [Threads -> [code : Codes, ids : SUBSET OrderIds]]
  /\ \A t \in Threads : call[t].number <= calls /\ (call[t] = NoCall => pc[t] = "idle")

Types == SessionTypes /\ ExchangeTypes /\ ClientTypes

-----------------------------------------------------------------------------
(* What holds as long as one thread makes the calls.                       *)

Alone == \A t, u \in Threads : t # u => pc[t] = "idle" \/ pc[u] = "idle"

(* Calls are numbered, and nothing was done for a call to come. *)
Numbered ==
  /\ \A t, u \in Threads : t # u /\ call[t] # NoCall => call[t].number # call[u].number
  /\ \A n \in 1 .. MaxCalls : n > calls => effects[n] = {}

(* Each order got a number of its own, below the one to come. *)
ClientIds ==
  /\ \A o \in OrderIds : clientOids[o] = None \/ clientOids[o] < uniqueOrderId
  /\ \A o, p \in OrderIds : clientOids[o] # None /\ clientOids[o] = clientOids[p] => o = p
  /\ \A t \in Threads : pc[t] = "count" => call[t].clientId = uniqueOrderId
  /\ \A t \in Threads : pc[t] \notin {"idle", "count"} /\ call[t].op = "place"
                          => call[t].clientId < uniqueOrderId

(* The exchange has done nothing for the call of t yet. *)
Untouched(t) ==
  /\ effects[call[t].number] = {}
  /\ call[t].op = "place" =>
       \A o \in OrderIds : clientOids[o] = None \/ clientOids[o] # call[t].clientId

(* ids is what call k may report. *)
Truth(k, ids) ==
  CASE k.op \in {"get", "list"} -> \A o \in ids : state[o] # "none"
    [] k.op = "cancel" -> TRUE
    [] OTHER -> ids = effects[k.number]

Tells(k, outcome) == outcome = Aborted \/ outcome.code = "exception" \/ Truth(k, outcome.ids)

Quiet(c) == wire[c] = <<>> /\ answers[c] = <<>>

(* The request of t or its answer is under way, or the connection is lost. *)
Waiting(t, c) ==
  \/ wire[c] = <<call[t]>> /\ answers[c] = <<>> /\ c \in up /\ Untouched(t)
  \/ /\ wire[c] = <<>> /\ Len(answers[c]) = 1
     /\ Tells(call[t], Understood(call[t].op, answers[c][1]))
  \/ Quiet(c) /\ c \notin up

InStep ==
  process = "up" =>
    /\ \A c \in Connections :
         Quiet(c) \/ \E t \in Threads : pc[t] = "receive" /\ Connection(t) = c
    /\ \A t \in Threads : pc[t] = "receive" => Waiting(t, Connection(t))
    /\ \A t \in Threads : pc[t] \notin {"idle", "receive"} => Untouched(t)

Truthful == \A t \in Threads : Finished(t) => Truth(call[t], result[t].ids)

Solo == ~overlapped => Alone /\ Numbered /\ ClientIds /\ InStep /\ Truthful

IInv == Types /\ Solo

-----------------------------------------------------------------------------
(* Types                                                                   *)

LEMMA InitTypes == Init => Types
<1> SUFFICES ASSUME Init
             PROVE  Types
  OBVIOUS
<1>1. Shared \in Connections /\ MaxCalls \in Nat /\ MaxErrors \in Nat
  BY OrdersAssumption DEF Connections
<1>2. SessionTypes
  BY <1>1 DEF Init, SessionInit, SessionTypes
<1>3. ExchangeTypes
  <2>1. state \in [OrderIds -> {"none", "open", "done"}]
    BY DEF Init
  <2>2. clientOids \in [OrderIds -> 0 .. MaxCalls \cup {None}] /\ errors \in 0 .. MaxErrors
    BY <1>1 DEF Init
  <2>3. effects \in [1 .. MaxCalls -> SUBSET OrderIds]
    BY DEF Init
  <2> QED
    BY <2>1, <2>2, <2>3 DEF ExchangeTypes
<1>4. ClientTypes
  <2>1. calls = 0 /\ uniqueOrderId = 0 /\ calls \in 0 .. MaxCalls /\ uniqueOrderId \in 0 .. calls
    BY <1>1 DEF Init
  <2>2. digest \in [of : 0 .. MaxCalls, size : {"whole", "cut", "tiny"}]
    BY <1>1 DEF Init
  <2>3. pc \in [Threads -> Labels] /\ \A t \in Threads : pc[t] = "idle"
    BY DEF Init, Labels
  <2>4. result \in [Threads -> [code : Codes, ids : SUBSET OrderIds]]
    BY DEF Init, NoResult, Codes
  <2>5. call \in [Threads -> Requests \cup {NoCall}]
    BY DEF Init
  <2>6. \A t \in Threads : call[t].number <= calls /\ (call[t] = NoCall => pc[t] = "idle")
    <3>1. NoCall.number = 0 /\ \A t \in Threads : call[t] = NoCall
      BY DEF Init, NoCall
    <3>2. ASSUME NEW t \in Threads
          PROVE  call[t].number <= calls
      <4>1. call[t].number = 0
        BY <3>1, Zenon
      <4> QED
        BY <2>1, <4>1
    <3>3. \A t \in Threads : pc[t] = "idle"
      BY <2>3
    <3> QED
      BY <3>2, <3>3, Zenon
  <2>7. process = "up" /\ overlapped = FALSE
    BY DEF Init
  <2> QED
    BY <2>1, <2>2, <2>3, <2>4, <2>5, <2>6, <2>7 DEF ClientTypes
<1> QED
  BY <1>2, <1>3, <1>4 DEF Types

(* The call of a thread that is in one. *)
LEMMA CallOf ==
  ASSUME Types, NEW t \in Threads, pc[t] # "idle"
  PROVE  /\ call[t] \in Requests /\ call[t].op \in Operations
         /\ call[t].op \in {"place", "get", "cancel"} => call[t].order \in OrderIds
         /\ call[t].number \in 1 .. MaxCalls /\ call[t].number <= calls
         /\ call[t].clientId \in 0 .. MaxCalls /\ call[t].clientId < call[t].number
         /\ Connection(t) \in Connections
BY DEF Types, ClientTypes, Requests, WellFormed, Calls, Connection, Connections

(* The exception's part of a step. *)
LEMMA ThrowTypes ==
  ASSUME Types, NEW t \in Threads, Throw(t)
  PROVE  Types'
<1>1. SessionTypes'
  <2>1. /\ up' = up \/ up' = up \ {t}
        /\ wire' = wire \/ wire' = [wire EXCEPT ![t] = <<>>]
        /\ answers' = answers \/ answers' = [answers EXCEPT ![t] = <<>>]
    BY DEF Throw, Close, Connection
  <2>2. /\ up \subseteq Connections /\ wire \in [Connections -> Seq(Requests)]
        /\ answers \in [Connections -> Seq(Bodies)]
    BY DEF Types, SessionTypes
  <2>3. <<>> \in Seq(Requests) /\ <<>> \in Seq(Bodies)
    OBVIOUS
  <2>4. wire' \in [Connections -> Seq(Requests)] /\ answers' \in [Connections -> Seq(Bodies)]
    BY <2>1, <2>2, <2>3
  <2> QED
    BY <2>1, <2>2, <2>4 DEF SessionTypes
<1>2. ExchangeTypes'
  BY DEF Throw, exchangeVars, Types, ExchangeTypes
<1>3. ClientTypes'
  <2>1. pc' \in [Threads -> Labels] /\ \A u \in Threads : pc[u] = "idle" => pc'[u] = "idle"
    BY DEF Throw, Goto, Types, ClientTypes, Labels
  <2>2. result' \in [Threads -> [code : Codes, ids : SUBSET OrderIds]]
    BY DEF Throw, Types, ClientTypes, Codes
  <2> QED
    BY <2>1, <2>2 DEF Throw, Types, ClientTypes
<1> QED
  BY <1>1, <1>2, <1>3 DEF Types

LEMMA BeginTypes ==
  ASSUME Types, NEW t \in Threads, NEW op \in Operations, NEW o \in Arguments(op), Begin(t, op, o)
  PROVE  Types'
<1> DEFINE k == [op |-> op, order |-> o, number |-> calls + 1,
                 clientId |-> uniqueOrderId, isSigned |-> FALSE]
<1>1. /\ calls < MaxCalls /\ calls' = calls + 1 /\ call' = [call EXCEPT ![t] = k]
      /\ result' = [result EXCEPT ![t] = NoResult]
      /\ pc' = [pc EXCEPT ![t] = IF op = "place" THEN "count" ELSE AfterBody(op)]
      /\ overlapped' \in BOOLEAN
      /\ UNCHANGED <<sessionVars, exchangeVars, uniqueOrderId, digest, process>>
  BY DEF Begin, Goto
<1>2. MaxCalls \in Nat /\ calls \in 0 .. MaxCalls /\ uniqueOrderId \in 0 .. calls
  BY OrdersAssumption DEF Types, ClientTypes
<1>3. k \in Requests
  <2>1. op \in {"place", "get", "cancel"} => o \in OrderIds
    <3>1. NewOrders \subseteq OrderIds
      BY DEF NewOrders
    <3> QED
      BY <3>1 DEF Arguments
  <2>2. o \in OrderIds \cup {None}
    <3>1. op \notin {"place", "get", "cancel"} => o = None
      BY DEF Arguments
    <3> QED
      BY <2>1, <3>1
  <2>3. /\ k.op = op /\ k.order = o /\ k.number \in 1 .. MaxCalls /\ k.clientId \in 0 .. MaxCalls
        /\ k.clientId < k.number
    BY <1>1, <1>2
  <2>4. k \in Calls
    BY <1>1, <1>2, <2>2 DEF Calls
  <2> QED
    BY <2>1, <2>3, <2>4 DEF Requests, WellFormed
<1>4. k # NoCall /\ k.number = calls + 1
  BY <1>2 DEF NoCall
<1> HIDE DEF k
<1>5. ClientTypes'
  <2>1. call' \in [Threads -> Requests \cup {NoCall}]
    BY <1>1, <1>3 DEF Types, ClientTypes
  <2>2. pc' \in [Threads -> Labels]
    BY <1>1 DEF Types, ClientTypes, Labels, AfterBody
  <2>3. result' \in [Threads -> [code : Codes, ids : SUBSET OrderIds]]
    BY <1>1 DEF Types, ClientTypes, NoResult, Codes
  <2>4. calls' \in 0 .. MaxCalls /\ uniqueOrderId' \in 0 .. calls'
    BY <1>1, <1>2
  <2>5. ASSUME NEW u \in Threads
        PROVE  call'[u].number <= calls' /\ (call'[u] = NoCall => pc'[u] = "idle")
    <3>1. CASE u = t
      <4>1. call'[u] = k
        BY <1>1, <3>1 DEF Types, ClientTypes
      <4> QED
        BY <1>1, <1>2, <1>4, <4>1
    <3>2. CASE u # t
      <4>1. call'[u] = call[u] /\ pc'[u] = pc[u]
        BY <1>1, <3>2 DEF Types, ClientTypes
      <4>2. call[u].number <= calls /\ (call[u] = NoCall => pc[u] = "idle")
        BY DEF Types, ClientTypes
      <4>3. call[u].number \in Nat
        BY DEF Types, ClientTypes, Requests, WellFormed, Calls, NoCall
      <4> QED
        BY <1>1, <1>2, <4>1, <4>2, <4>3
    <3> QED
      BY <3>1, <3>2
  <2> QED
    BY <1>1, <2>1, <2>2, <2>3, <2>4, <2>5 DEF Types, ClientTypes
<1> QED
  BY <1>1, <1>5 DEF Types, SessionTypes, ExchangeTypes, sessionVars, exchangeVars

(* What Encode does to the call. *)
LEMMA Encoding ==
  ASSUME Types, NEW t \in Threads, Encode(t)
  PROVE  /\ pc[t] = "encode" /\ process = "up"
         /\ \/ Abort(t) /\ UNCHANGED answers
            \/ /\ pc' = [pc EXCEPT ![t] = "send"]
               /\ UNCHANGED <<sessionVars, exchangeVars, uniqueOrderId, digest, process, result,
                              calls, overlapped>>
               /\ call' \in [Threads -> Requests \cup {NoCall}]
               /\ \A u \in Threads : u # t => call'[u] = call[u]
               /\ call'[t] \in Requests
               /\ call'[t].op = call[t].op /\ call'[t].order = call[t].order
               /\ call'[t].number = call[t].number /\ call'[t].clientId = call[t].clientId
<1>1. pc[t] = "encode" /\ process = "up"
  BY DEF Encode, At
<1>2. call[t] \in Requests /\ call \in [Threads -> Requests \cup {NoCall}]
  BY <1>1, CallOf DEF Types, ClientTypes
<1>3. CASE ~(Abort(t) /\ UNCHANGED answers)
  <2> DEFINE b == digest.of = call[t].number /\ digest.size = "whole"
  <2>1. /\ call' = [call EXCEPT ![t].isSigned = b]
        /\ pc' = [pc EXCEPT ![t] = "send"]
        /\ UNCHANGED <<sessionVars, exchangeVars, uniqueOrderId, digest, process, result,
                       calls, overlapped>>
    BY <1>3 DEF Encode, Goto
  <2>2. b \in BOOLEAN
    OBVIOUS
  <2> HIDE DEF b
  <2>3. call' = [call EXCEPT ![t] = [op |-> call[t].op, order |-> call[t].order,
                                     number |-> call[t].number, clientId |-> call[t].clientId,
                                     isSigned |-> b]]
    <3> DEFINE k == call[t]
    <3>1. call' = [call EXCEPT ![t] = [k EXCEPT !.isSigned = b]]
      BY <2>1, Zenon
    <3>2. k \in Calls
      BY <1>2 DEF Requests
    <3> HIDE DEF k
    <3>3. [k EXCEPT !.isSigned = b]
            = [op |-> k.op, order |-> k.order, number |-> k.number, clientId |-> k.clientId,
               isSigned |-> b]
      BY <3>2 DEF Calls
    <3> QED
      BY <3>1, <3>3 DEF k
  <2> QED
    BY <1>1, <1>2, <2>1, <2>2, <2>3 DEF Requests, Calls, WellFormed
<1> QED
  BY <1>1, <1>3

(* What the exchange does with the next request on connection c, and what  *)
(* the client will make of the answer.                                     *)
Serving(c, r, ids, s, body) ==
  /\ wire[c] # <<>> /\ r = Head(wire[c]) /\ r \in Requests
  /\ ids \subseteq OrderIds /\ s \in {"open", "done"} /\ body \in Bodies
  /\ Answer(c, body) /\ UNCHANGED clientVars /\ errors' \in 0 .. MaxErrors
  /\ state' = [o \in OrderIds |-> IF o \in ids THEN s ELSE state[o]]
  /\ clientOids' = [o \in OrderIds |-> IF o \in ids /\ r.op = "place" THEN r.clientId
                                                                    ELSE clientOids[o]]
  /\ effects' = [effects EXCEPT ![r.number] = effects[r.number] \cup ids]
  /\ r.op = "place" => ids = {} \/ ids = {r.order}
  /\ \/ Understood(r.op, body) = Aborted
     \/ Understood(r.op, body).code = "exception"
     \/ CASE r.op \in {"get", "list"} -> \A o \in Understood(r.op, body).ids : state[o] # "none"
          [] r.op = "cancel" -> TRUE
          [] OTHER -> Understood(r.op, body).ids = ids

(* A request that changes nothing. *)
LEMMA ServingNothing ==
  ASSUME Types, NEW c, wire[c] # <<>>, NEW r, r = Head(wire[c]), r \in Requests,
         NEW body \in Bodies, Answer(c, body), UNCHANGED clientVars, errors' \in 0 .. MaxErrors,
         \/ UNCHANGED <<state, clientOids, effects>>
         \/ /\ state' = [o \in OrderIds |-> IF o \in {} THEN "none" ELSE state[o]]
            /\ clientOids' = [o \in OrderIds |-> IF o \in {} /\ r.op = "place" THEN r.clientId
                                                                             ELSE clientOids[o]]
            /\ effects' = [effects EXCEPT ![r.number] = @ \cup {}],
         \/ Understood(r.op, body) = Aborted
         \/ Understood(r.op, body).code = "exception"
         \/ CASE r.op \in {"get", "list"} ->
                   \A o \in Understood(r.op, body).ids : state[o] # "none"
              [] r.op = "cancel" -> TRUE
              [] OTHER -> Understood(r.op, body).ids = {}
  PROVE  Serving(c, r, {}, "open", body)
<1>1. /\ state = [o \in OrderIds |-> state[o]] /\ clientOids = [o \in OrderIds |-> clientOids[o]]
      /\ effects \in [1 .. MaxCalls -> SUBSET OrderIds] /\ r.number \in 1 .. MaxCalls
  BY DEF Types, ExchangeTypes, Requests, Calls
<1>2. effects = [effects EXCEPT ![r.number] = effects[r.number] \cup {}]
  BY <1>1
<1>3. UNCHANGED <<state, clientOids, effects>>
  BY <1>1, <1>2
<1> QED
  BY <1>1, <1>2, <1>3 DEF Serving

LEMMA BodyTypes ==
  ASSUME NEW kind \in {"object", "array", "string", "null"}, NEW message \in Messages \cup {None},
         NEW ids \in SUBSET OrderIds, NEW fields \in {"good", "absent", "malformed"}
  PROVE  Body(kind, message, ids, fields) \in Bodies
BY DEF Body, Bodies

LEMMA RefusalIsEmpty ==
  ASSUME NEW op \in Operations, NEW m \in Messages
  PROVE  Understood(op, Message(m)).ids = {}
<1>1. /\ Message(m).kind = "object" /\ Message(m).message = m /\ Message(m).ids = {}
      /\ Message(m).fields = "good"
  BY DEF Message, Body
<1>2. \A code, ids : Outcome(code, ids).ids = ids
  BY DEF Outcome
<1>3. OrderDetails(Message(m)).ids = {}
  BY <1>1, <1>2 DEF OrderDetails
<1>4. OrderResponse(Message(m)).ids = {}
  BY <1>1, <1>2 DEF OrderResponse
<1>5. Order(Message(m)).ids = {}
  BY <1>1, <1>2, <1>3 DEF Order
<1>6. AllOrders(Message(m)).ids = {} /\ Cancellations(Message(m)).ids = {}
  BY <1>1, <1>2 DEF AllOrders, Cancellations
<1>7. Cancellation(Message(m)).ids = {}
  BY <1>1, <1>2 DEF Cancellation
<1> QED
  BY <1>4, <1>5, <1>6, <1>7 DEF Understood

LEMMA PageAborts ==
  ASSUME NEW op \in Operations
  PROVE  Understood(op, Page) = Aborted
<1>1. Page.kind = "null" /\ Page.message = None
  BY DEF Page, Body
<1>2. OrderResponse(Page) = Aborted
  BY <1>1 DEF OrderResponse
<1>3. Order(Page) = Aborted
  BY <1>1 DEF Order
<1>4. AllOrders(Page) = Aborted
  BY <1>1 DEF AllOrders
<1>5. Cancellation(Page) = Aborted
  BY <1>1 DEF Cancellation
<1>6. Cancellations(Page) = Aborted
  BY <1>1 DEF Cancellations
<1> QED
  BY <1>2, <1>3, <1>4, <1>5, <1>6 DEF Understood

(* What each operation understands of the answer that carries it out. *)
LEMMA OrdersUnderstood ==
  ASSUME NEW ids \in SUBSET OrderIds
  PROVE  /\ Understood("place", Body("object", None, ids, "good")).ids = ids
         /\ Understood("get", Body("object", None, ids, "good")).ids = ids
         /\ Understood("list", Body("array", None, ids, "good")).ids = ids
         /\ Understood("cancelAll", Body("array", None, ids, "good")).ids = ids
         /\ Understood("cancelProduct", Body("array", None, ids, "good")).ids = ids
BY DEF Understood, OrderResponse, Order, OrderDetails, AllOrders, Cancellations, Outcome, Body

LEMMA FieldsUnderstood ==
  ASSUME NEW ids, NEW fields \in {"absent", "malformed"}
  PROVE  /\ \/ Understood("get", Body("object", None, ids, fields)) = Aborted
            \/ Understood("get", Body("object", None, ids, fields)).code = "exception"
         /\ \/ Understood("list", Body("array", None, ids, fields)) = Aborted
            \/ Understood("list", Body("array", None, ids, fields)).code = "exception"
BY DEF Understood, Order, OrderDetails, AllOrders, Outcome, Body

LEMMA RefusedIsServing ==
  ASSUME Types, NEW c, wire[c] # <<>>, NEW r, r = Head(wire[c]), r \in Requests,
         NEW m \in Messages, Refused(c, r, m)
  PROVE  Serving(c, r, {}, "open", Message(m))
<1>1. r.op \in Operations /\ Message(m) \in Bodies
  BY BodyTypes DEF Requests, Calls, Message
<1>2. Answer(c, Message(m)) /\ UNCHANGED clientVars /\ errors' \in 0 .. MaxErrors
  BY DEF Refused, Done, Types, ExchangeTypes
<1>3. /\ state' = [o \in OrderIds |-> IF o \in {} THEN "none" ELSE state[o]]
      /\ clientOids' = [o \in OrderIds |-> IF o \in {} /\ r.op = "place" THEN r.clientId
                                                                       ELSE clientOids[o]]
      /\ effects' = [effects EXCEPT ![r.number] = @ \cup {}]
  BY DEF Refused, Done
<1>4. Understood(r.op, Message(m)).ids = {}
  BY <1>1, RefusalIsEmpty
<1> QED
  BY <1>1, <1>2, <1>3, <1>4, ServingNothing

LEMMA OddTypes ==
  ASSUME Types, Odd
  PROVE  errors' \in 0 .. MaxErrors
BY OrdersAssumption DEF Odd, Types, ExchangeTypes

(* A request that is carried out. *)
LEMMA DoneIsServing ==
  ASSUME Types, NEW c, wire[c] # <<>>, NEW r, r = Head(wire[c]), r \in Requests,
         NEW ids \in SUBSET OrderIds, NEW s \in {"open", "done"}, NEW body \in Bodies,
         Done(c, r, ids, s, body), r.op = "place" => ids = {r.order},
         r.op \in {"place", "cancel", "cancelAll", "cancelProduct"},
         r.op = "cancel" \/ Understood(r.op, body).ids = ids
  PROVE  Serving(c, r, ids, s, body)
BY DEF Done, Serving, Types, ExchangeTypes

LEMMA QueryIsServing ==
  ASSUME Types, NEW c, wire[c] # <<>>, NEW r, r = Head(wire[c]), r \in Requests,
         NEW ids \in SUBSET OrderIds, \A o \in ids : state[o] # "none",
         NEW kind,
         \/ r.op = "get" /\ kind = "object"
         \/ r.op = "list" /\ kind = "array",
         ServeQuery(c, r, ids, kind)
  PROVE  \E body : Serving(c, r, {}, "open", body)
<1>1. CASE Done(c, r, {}, "none", Body(kind, None, ids, "good"))
  <2> DEFINE body == Body(kind, None, ids, "good")
  <2>1. body \in Bodies
    BY BodyTypes
  <2>2. Answer(c, body) /\ UNCHANGED clientVars /\ errors' \in 0 .. MaxErrors
    BY <1>1 DEF Done, Types, ExchangeTypes
  <2>3. /\ state' = [o \in OrderIds |-> IF o \in {} THEN "none" ELSE state[o]]
        /\ clientOids' = [o \in OrderIds |-> IF o \in {} /\ r.op = "place" THEN r.clientId
                                                                         ELSE clientOids[o]]
        /\ effects' = [effects EXCEPT ![r.number] = @ \cup {}]
    BY <1>1 DEF Done
  <2>4. Understood(r.op, body).ids = ids
    BY OrdersUnderstood
  <2> HIDE DEF body
  <2> QED
    BY <2>1, <2>2, <2>3, <2>4, ServingNothing
<1>2. CASE \E fields \in {"absent", "malformed"} :
             /\ ids # {} /\ Odd
             /\ Answer(c, Body(kind, None, ids, fields))
             /\ UNCHANGED <<clientVars, state, clientOids, effects>>
  <2>1. PICK fields \in {"absent", "malformed"} :
               /\ Odd /\ Answer(c, Body(kind, None, ids, fields))
               /\ UNCHANGED <<clientVars, state, clientOids, effects>>
    BY <1>2
  <2> DEFINE body == Body(kind, None, ids, fields)
  <2>2. body \in Bodies
    BY BodyTypes
  <2>3. Understood(r.op, body) = Aborted \/ Understood(r.op, body).code = "exception"
    BY FieldsUnderstood
  <2>4. errors' \in 0 .. MaxErrors
    BY <2>1, OddTypes
  <2> HIDE DEF body
  <2>5. Serving(c, r, {}, "open", body)
    BY <2>1, <2>2, <2>3, <2>4, ServingNothing DEF body
  <2> QED
    BY <2>5
<1> QED
  BY <1>1, <1>2 DEF ServeQuery

LEMMA ServeCases ==
  ASSUME Types, NEW c \in Connections, Serve(c)
  PROVE  \E r, ids, s, body : Serving(c, r, ids, s, body)
<1> DEFINE r == Head(wire[c])
<1>1. wire[c] # <<>> /\ wire[c] \in Seq(Requests)
  BY DEF Serve, Types, SessionTypes
<1>2. r \in Requests
  BY <1>1, HeadTailProperties
<1>3. /\ r.op \in Operations
      /\ r.op \in {"place", "get", "cancel"} => r.order \in OrderIds
  BY <1>2 DEF Requests, WellFormed, Calls
<1>4. \/ Refused(c, r, "unauthorized")
      \/ Served(c, r)
      \/ Odd /\ Answer(c, Page) /\ UNCHANGED <<clientVars, state, clientOids, effects>>
  BY DEF Serve
<1> HIDE DEF r
<1>5. r = Head(wire[c])
  BY DEF r
<1>6. ASSUME NEW m \in Messages, Refused(c, r, m)
      PROVE  \E ids, s, body : Serving(c, r, ids, s, body)
  BY <1>1, <1>2, <1>5, <1>6, RefusedIsServing
<1>7. "unauthorized" \in Messages /\ {"funds", "product", "other"} \subseteq Messages
  BY DEF Messages
<1>8. CASE Odd /\ Answer(c, Page) /\ UNCHANGED <<clientVars, state, clientOids, effects>>
  <2>1. Page \in Bodies
    BY BodyTypes DEF Page
  <2>2. Understood(r.op, Page) = Aborted
    BY <1>3, PageAborts
  <2>3. errors' \in 0 .. MaxErrors
    BY <1>8, OddTypes
  <2>4. Serving(c, r, {}, "open", Page)
    BY <1>1, <1>2, <1>5, <1>8, <2>1, <2>2, <2>3, ServingNothing
  <2> QED
    BY <2>4
<1>9. CASE Served(c, r)
  <2>1. CASE r.op = "place"
    <3>1. CASE \E m \in {"funds", "product", "other"} : Refused(c, r, m)
      BY <1>6, <1>7, <3>1
    <3>2. CASE Done(c, r, {r.order}, "open", Body("object", None, {r.order}, "good"))
      <4>1. Body("object", None, {r.order}, "good") \in Bodies /\ {r.order} \in SUBSET OrderIds
        BY <1>3, <2>1, BodyTypes
      <4>2. Understood(r.op, Body("object", None, {r.order}, "good")).ids = {r.order}
        BY <2>1, <4>1, OrdersUnderstood
      <4>3. Serving(c, r, {r.order}, "open", Body("object", None, {r.order}, "good"))
        BY <1>1, <1>2, <1>5, <2>1, <3>2, <4>1, <4>2, DoneIsServing
      <4> QED
        BY <4>3
    <3> QED
      BY <1>9, <2>1, <3>1, <3>2 DEF Served, ServePlace
  <2>2. CASE r.op = "get"
    <3>1. CASE state[r.order] = "none"
      BY <1>6, <1>7, <1>9, <2>2, <3>1 DEF Served
    <3>2. CASE state[r.order] # "none"
      <4>1. ServeQuery(c, r, {r.order}, "object") /\ {r.order} \in SUBSET OrderIds
        BY <1>3, <1>9, <2>2, <3>2 DEF Served
      <4>2. \A o \in {r.order} : state[o] # "none"
        BY <3>2
      <4>3. \E body : Serving(c, r, {}, "open", body)
        BY <1>1, <1>2, <1>5, <2>2, <4>1, <4>2, QueryIsServing
      <4> QED
        BY <4>3
    <3> QED
      BY <3>1, <3>2
  <2>3. CASE r.op = "list"
    <3> DEFINE ids == {o \in OrderIds : state[o] # "none"}
    <3>1. /\ ServeQuery(c, r, ids, "array") /\ ids \in SUBSET OrderIds
          /\ \A o \in ids : state[o] # "none"
      BY <1>9, <2>3 DEF Served
    <3> HIDE DEF ids
    <3>2. \E body : Serving(c, r, {}, "open", body)
      BY <1>1, <1>2, <1>5, <2>3, <3>1, QueryIsServing
    <3> QED
      BY <3>2
  <2>4. CASE r.op = "cancel"
    <3>1. CASE state[r.order] # "open"
      BY <1>6, <1>7, <1>9, <2>4, <3>1 DEF Served
    <3>2. CASE state[r.order] = "open"
      <4> DEFINE body == Body("string", None, {r.order}, "good")
      <4>1. Done(c, r, {r.order}, "done", body)
        BY <1>9, <2>4, <3>2 DEF Served, ServeCancel
      <4>2. body \in Bodies /\ {r.order} \in SUBSET OrderIds
        BY <1>3, <2>4, BodyTypes
      <4> HIDE DEF body
      <4>3. Serving(c, r, {r.order}, "done", body)
        BY <1>1, <1>2, <1>5, <2>4, <4>1, <4>2, DoneIsServing
      <4> QED
        BY <4>3
    <3> QED
      BY <3>1, <3>2
  <2>5. CASE r.op \in {"cancelAll", "cancelProduct"}
    <3> DEFINE ids == {o \in IF r.op = "cancelAll" THEN OrderIds ELSE OfProduct : state[o] = "open"}
               body == Body("array", None, ids, "good")
    <3>1. Done(c, r, ids, "done", body)
      BY <1>9, <2>5 DEF Served, ServeCancel
    <3>2. ids \in SUBSET OrderIds
      BY OrdersAssumption
    <3>3. body \in Bodies
      BY <3>2, BodyTypes
    <3> HIDE DEF ids
    <3>4. Understood(r.op, body).ids = ids
      BY <2>5, <3>2, OrdersUnderstood
    <3> HIDE DEF body
    <3>5. Serving(c, r, ids, "done", body)
      BY <1>1, <1>2, <1>5, <2>5, <3>1, <3>2, <3>3, <3>4, DoneIsServing
    <3> QED
      BY <3>5
  <2> QED
    BY <1>3, <2>1, <2>2, <2>3, <2>4, <2>5 DEF Operations
<1> QED
  BY <1>4, <1>6, <1>7, <1>8, <1>9

LEMMA UnderstoodTypes ==
  ASSUME NEW op \in Operations, NEW body \in Bodies
  PROVE  \/ Understood(op, body) = Aborted
         \/ Understood(op, body) \in [code : Codes, ids : SUBSET OrderIds]
<1> DEFINE Fine(outcome) == outcome = Aborted \/ outcome \in [code : Codes, ids : SUBSET OrderIds]
<1>1. body.ids \in SUBSET OrderIds /\ (body.message # None => body.message \in Messages)
  BY DEF Bodies
<1>2. \A code \in Codes, ids \in SUBSET OrderIds : Fine(Outcome(code, ids))
  BY DEF Outcome
<1>3. {"EMPTY", "SUCCESS", "exception"} \subseteq Codes /\ {} \in SUBSET OrderIds
  BY DEF Codes
<1>4. \A m \in Messages : CodeOf[m] \in Codes
  BY DEF CodeOf, Messages, Codes
<1>5. Fine(Aborted)
  OBVIOUS
<1> HIDE DEF Fine
<1>6. Fine(OrderResponse(body))
  BY <1>1, <1>2, <1>3, <1>4, <1>5 DEF OrderResponse
<1>7. Fine(OrderDetails(body))
  BY <1>1, <1>2, <1>3, <1>5 DEF OrderDetails
<1>8. Fine(Order(body))
  BY <1>2, <1>3, <1>5, <1>7 DEF Order
<1>9. Fine(AllOrders(body))
  BY <1>2, <1>3, <1>5, <1>7 DEF AllOrders
<1>10. Fine(Cancellation(body))
  BY <1>1, <1>2, <1>3, <1>5 DEF Cancellation
<1>11. Fine(Cancellations(body))
  BY <1>1, <1>2, <1>3, <1>5 DEF Cancellations
<1>12. Fine(Understood(op, body))
  BY <1>6, <1>8, <1>9, <1>10, <1>11 DEF Understood
<1> QED
  BY <1>12 DEF Fine

(* An answer is taken. *)
LEMMA ReadTypes ==
  ASSUME Types, NEW c \in Connections, Read(c)
  PROVE  /\ answers[c] # <<>> /\ Head(answers[c]) \in Bodies
         /\ answers' = [answers EXCEPT ![c] = Tail(answers[c])]
         /\ answers' \in [Connections -> Seq(Bodies)]
<1>1. answers[c] # <<>> /\ answers[c] \in Seq(Bodies)
  BY DEF Read, Types, SessionTypes
<1>2. Head(answers[c]) \in Bodies /\ Tail(answers[c]) \in Seq(Bodies)
  BY <1>1, HeadTailProperties
<1>3. answers' = [answers EXCEPT ![c] = Tail(answers[c])]
  BY DEF Read
<1> QED
  BY <1>1, <1>2, <1>3 DEF Types, SessionTypes

(* What Receive does. *)
LEMMA Receiving ==
  ASSUME Types, NEW t \in Threads, Receive(t)
  PROVE  /\ pc[t] = "receive" /\ process = "up"
         /\ \/ /\ Read(Connection(t)) /\ Abort(t)
            \/ /\ Read(Connection(t))
               /\ Return(t, Understood(call[t].op, Head(answers[Connection(t)])))
               /\ Understood(call[t].op, Head(answers[Connection(t)]))
                    \in [code : Codes, ids : SUBSET OrderIds]
            \/ /\ \/ Connection(t) \notin up /\ answers[Connection(t)] = <<>>
                  \/ Contended(t)
               /\ Throw(t)
<1>1. pc[t] = "receive" /\ process = "up"
  BY DEF Receive, At
<1>2. call[t].op \in Operations /\ Connection(t) \in Connections
  BY <1>1, CallOf
<1> DEFINE outcome == Understood(call[t].op, Head(answers[Connection(t)]))
<1>3. ASSUME Read(Connection(t))
      PROVE  outcome = Aborted \/ outcome \in [code : Codes, ids : SUBSET OrderIds]
  <2>1. Head(answers[Connection(t)]) \in Bodies
    BY <1>2, <1>3, ReadTypes
  <2> QED
    BY <1>2, <2>1, UnderstoodTypes
<1>4. \/ Read(Connection(t)) /\ (IF outcome = Aborted THEN Abort(t) ELSE Return(t, outcome))
      \/ /\ \/ Connection(t) \notin up /\ answers[Connection(t)] = <<>>
            \/ Contended(t)
         /\ Throw(t)
  BY DEF Receive
<1> HIDE DEF outcome
<1>5. \/ Read(Connection(t)) /\ Abort(t)
      \/ /\ Read(Connection(t)) /\ Return(t, outcome)
         /\ outcome \in [code : Codes, ids : SUBSET OrderIds]
      \/ /\ \/ Connection(t) \notin up /\ answers[Connection(t)] = <<>>
            \/ Contended(t)
         /\ Throw(t)
  BY <1>3, <1>4
<1> QED
  BY <1>1, <1>5 DEF outcome

LEMMA ReceiveTypes ==
  ASSUME Types, NEW t \in Threads, Receive(t)
  PROVE  Types'
<1> DEFINE c == Connection(t)
           outcome == Understood(call[t].op, Head(answers[c]))
<1>1. pc[t] = "receive" /\ c \in Connections
  BY Receiving, CallOf
<1>2. CASE Read(c) /\ Abort(t)
  <2>1. answers' \in [Connections -> Seq(Bodies)]
    BY <1>1, <1>2, ReadTypes
  <2> QED
    BY <1>2, <2>1 DEF Abort, Types, SessionTypes, ExchangeTypes, ClientTypes, exchangeVars
<1>3. CASE /\ Read(c) /\ Return(t, outcome)
           /\ outcome \in [code : Codes, ids : SUBSET OrderIds]
  <2> HIDE DEF outcome
  <2>1. answers' \in [Connections -> Seq(Bodies)]
    BY <1>1, <1>3, ReadTypes
  <2>2. /\ up' = up \/ up' = up \ {c}
        /\ wire' = wire \/ wire' = [wire EXCEPT ![c] = <<>>]
    BY <1>3 DEF Return, Close
  <2>3. /\ wire \in [Connections -> Seq(Requests)] /\ <<>> \in Seq(Requests)
        /\ up \subseteq Connections
    BY DEF Types, SessionTypes
  <2>4. wire' \in [Connections -> Seq(Requests)]
    BY <2>2, <2>3
  <2>5. SessionTypes'
    BY <2>1, <2>2, <2>3, <2>4 DEF SessionTypes
  <2>6. ExchangeTypes'
    BY <1>3 DEF Return, exchangeVars, Types, ExchangeTypes
  <2>7. pc' \in [Threads -> Labels] /\ \A u \in Threads : pc[u] = "idle" => pc'[u] = "idle"
    BY <1>3 DEF Return, Goto, Types, ClientTypes, Labels
  <2>8. result' \in [Threads -> [code : Codes, ids : SUBSET OrderIds]]
    BY <1>3 DEF Return, Types, ClientTypes
  <2>9. ClientTypes'
    BY <1>3, <2>7, <2>8 DEF Return, Types, ClientTypes
  <2> QED
    BY <2>5, <2>6, <2>9 DEF Types
<1>4. CASE Throw(t)
  BY <1>4, ThrowTypes
<1> QED
  BY <1>2, <1>3, <1>4, Receiving

LEMMA ServeTypes ==
  ASSUME Types, NEW c \in Connections, Serve(c)
  PROVE  Types'
<1>1. PICK r, ids, s, body : Serving(c, r, ids, s, body)
  BY ServeCases
<1>2. r.number \in 1 .. MaxCalls /\ r.clientId \in 0 .. MaxCalls /\ r \in Requests
  BY <1>1 DEF Serving, Requests, Calls
<1>3. SessionTypes'
  <2>1. /\ wire[c] # <<>> /\ wire[c] \in Seq(Requests) /\ answers[c] \in Seq(Bodies)
        /\ body \in Bodies
    BY <1>1 DEF Serving, Types, SessionTypes
  <2>2. Tail(wire[c]) \in Seq(Requests)
    BY <2>1, HeadTailProperties
  <2>3. Append(answers[c], body) \in Seq(Bodies)
    BY <2>1
  <2>4. /\ wire' = [wire EXCEPT ![c] = Tail(wire[c])]
        /\ answers' = [answers EXCEPT ![c] = Append(answers[c], body)]
        /\ up' = up
    BY <1>1 DEF Serving, Answer
  <2> QED
    BY <2>2, <2>3, <2>4 DEF Types, SessionTypes
<1>4. ExchangeTypes'
  <2>1. /\ state \in [OrderIds -> {"none", "open", "done"}]
        /\ clientOids \in [OrderIds -> 0 .. MaxCalls \cup {None}]
        /\ effects \in [1 .. MaxCalls -> SUBSET OrderIds]
    BY DEF Types, ExchangeTypes
  <2>2. /\ state' = [o \in OrderIds |-> IF o \in ids THEN s ELSE state[o]]
        /\ s \in {"open", "done"} /\ ids \subseteq OrderIds /\ errors' \in 0 .. MaxErrors
    BY <1>1 DEF Serving
  <2>3. clientOids' = [o \in OrderIds |-> IF o \in ids /\ r.op = "place" THEN r.clientId
                                                                         ELSE clientOids[o]]
    BY <1>1 DEF Serving
  <2>4. effects' = [effects EXCEPT ![r.number] = effects[r.number] \cup ids]
    BY <1>1 DEF Serving
  <2>5. state' \in [OrderIds -> {"none", "open", "done"}]
    BY <2>1, <2>2
  <2>6. clientOids' \in [OrderIds -> 0 .. MaxCalls \cup {None}]
    BY <1>2, <2>1, <2>3
  <2>7. effects' \in [1 .. MaxCalls -> SUBSET OrderIds]
    BY <1>2, <2>1, <2>2, <2>4
  <2> QED
    BY <2>2, <2>5, <2>6, <2>7 DEF ExchangeTypes
<1>5. ClientTypes'
  BY <1>1 DEF Serving, clientVars, Types, ClientTypes
<1> QED
  BY <1>3, <1>4, <1>5 DEF Types

LEMMA NextTypes == Types /\ [Next]_vars => Types'
<1> SUFFICES ASSUME Types, [Next]_vars
             PROVE  Types'
  OBVIOUS
<1>1. ASSUME NEW t \in Threads, Count(t)
      PROVE  Types'
  <2>1. pc[t] = "count" /\ pc' = [pc EXCEPT ![t] = AfterBody(call[t].op)]
    BY <1>1 DEF Count, At, Goto
  <2>2. /\ call[t].number \in Nat /\ call[t].clientId \in Nat
        /\ call[t].number <= calls /\ call[t].clientId < call[t].number
    BY <2>1, CallOf
  <2>3. calls \in 0 .. MaxCalls /\ MaxCalls \in Nat
    BY OrdersAssumption DEF Types, ClientTypes
  <2>4. uniqueOrderId' \in 0 .. calls
    BY <1>1, <2>2, <2>3 DEF Count
  <2>5. pc' \in [Threads -> Labels] /\ \A u \in Threads : pc[u] = "idle" => pc'[u] = "idle"
    BY <2>1 DEF Types, ClientTypes, Labels, AfterBody
  <2>6. ClientTypes'
    BY <1>1, <2>4, <2>5 DEF Count, Types, ClientTypes
  <2> QED
    BY <1>1, <2>6 DEF Count, Types, SessionTypes, ExchangeTypes, sessionVars, exchangeVars
<1>2. ASSUME NEW t \in Threads, Open(t)
      PROVE  Types'
  <2>1. CASE Throw(t)
    BY <2>1, ThrowTypes
  <2>2. CASE ~Throw(t)
    <3>1. /\ pc[t] = "connect" /\ Connect(t) /\ pc' = [pc EXCEPT ![t] = "sign"]
          /\ UNCHANGED <<exchangeVars, uniqueOrderId, digest, process, call, result, calls,
                         overlapped>>
      BY <1>2, <2>2 DEF Open, At, Goto
    <3>2. pc' \in [Threads -> Labels] /\ \A u \in Threads : pc[u] = "idle" => pc'[u] = "idle"
      BY <3>1 DEF Types, ClientTypes, Labels
    <3>3. ClientTypes'
      BY <3>1, <3>2 DEF Types, ClientTypes
    <3>4. SessionTypes'
      BY <3>1 DEF Connect, Connections, Types, SessionTypes
    <3> QED
      BY <3>1, <3>3, <3>4 DEF Types, ExchangeTypes, exchangeVars
  <2> QED
    BY <2>1, <2>2
<1>3. ASSUME NEW t \in Threads, Sign(t)
      PROVE  Types'
  <2>1. PICK size \in {"whole", "cut", "tiny"} :
               /\ digest' = [of |-> call[t].number, size |-> size]
               /\ errors' = errors + IF size = "whole" THEN 0 ELSE 1
               /\ errors' <= MaxErrors
    BY <1>3 DEF Sign
  <2>2. pc[t] = "sign" /\ pc' = [pc EXCEPT ![t] = "encode"]
    BY <1>3 DEF Sign, At, Goto
  <2>3. call[t].number \in 1 .. MaxCalls
    BY <2>2, CallOf
  <2>4. digest' \in [of : 0 .. MaxCalls, size : {"whole", "cut", "tiny"}]
    BY <2>1, <2>3
  <2>5. errors' \in 0 .. MaxErrors
    BY <2>1, OrdersAssumption DEF Types, ExchangeTypes
  <2>6. pc' \in [Threads -> Labels] /\ \A u \in Threads : pc[u] = "idle" => pc'[u] = "idle"
    BY <2>2 DEF Types, ClientTypes, Labels
  <2>7. ClientTypes'
    BY <1>3, <2>4, <2>6 DEF Sign, Types, ClientTypes
  <2>8. ExchangeTypes'
    BY <1>3, <2>5 DEF Sign, Types, ExchangeTypes
  <2> QED
    BY <1>3, <2>7, <2>8 DEF Sign, Types, SessionTypes, sessionVars
<1>4. ASSUME NEW t \in Threads, Encode(t)
      PROVE  Types'
  <2>1. CASE Abort(t) /\ UNCHANGED answers
    BY <2>1 DEF Abort, Types, SessionTypes, ExchangeTypes, ClientTypes, exchangeVars
  <2>2. CASE ~(Abort(t) /\ UNCHANGED answers)
    <3>1. /\ pc' = [pc EXCEPT ![t] = "send"]
          /\ UNCHANGED <<sessionVars, exchangeVars, uniqueOrderId, digest, process, result,
                         calls, overlapped>>
          /\ call' \in [Threads -> Requests \cup {NoCall}]
          /\ \A u \in Threads : u # t => call'[u] = call[u]
          /\ call'[t] \in Requests /\ call'[t].number = call[t].number
      BY <1>4, <2>2, Encoding
    <3>2. pc[t] = "encode"
      BY <1>4, Encoding
    <3>3. pc' \in [Threads -> Labels] /\ \A u \in Threads : u # t => pc'[u] = pc[u]
      BY <3>1 DEF Types, ClientTypes, Labels
    <3>4. call'[t] # NoCall
      <4>1. call'[t].number \in 1 .. MaxCalls
        BY <3>1 DEF Requests, Calls
      <4> QED
        BY <4>1, OrdersAssumption DEF NoCall
    <3>5. \A u \in Threads : call'[u].number <= calls /\ (call'[u] = NoCall => pc'[u] = "idle")
      BY <3>1, <3>3, <3>4 DEF Types, ClientTypes
    <3>6. ClientTypes'
      BY <3>1, <3>3, <3>5 DEF Types, ClientTypes
    <3> QED
      BY <3>1, <3>6 DEF Types, SessionTypes, ExchangeTypes, sessionVars, exchangeVars
  <2> QED
    BY <2>1, <2>2
<1>5. ASSUME NEW t \in Threads, Send(t)
      PROVE  Types'
  <2>1. CASE Throw(t)
    BY <2>1, ThrowTypes
  <2>2. CASE ~Throw(t)
    <3> DEFINE c == Connection(t)
               k == call[t]
    <3>1. /\ pc[t] = "send" /\ Write(c, k) /\ pc' = [pc EXCEPT ![t] = "receive"]
          /\ UNCHANGED <<exchangeVars, uniqueOrderId, digest, process, call, result, calls,
                         overlapped>>
      BY <1>5, <2>2 DEF Send, At, Goto
    <3>2. k \in Requests /\ c \in Connections
      BY <3>1, CallOf
    <3> HIDE DEF c, k
    <3>3. SessionTypes'
      <4>1. wire \in [Connections -> Seq(Requests)] /\ wire[c] \in Seq(Requests)
        BY <3>2 DEF Types, SessionTypes
      <4>2. Append(wire[c], k) \in Seq(Requests)
        BY <3>2, <4>1
      <4>3. wire' = [wire EXCEPT ![c] = Append(wire[c], k)] /\ UNCHANGED <<up, answers>>
        BY <3>1 DEF Write
      <4> QED
        BY <4>1, <4>2, <4>3 DEF Types, SessionTypes
    <3>4. pc' \in [Threads -> Labels] /\ \A u \in Threads : pc[u] = "idle" => pc'[u] = "idle"
      BY <3>1 DEF Types, ClientTypes, Labels
    <3>5. ClientTypes'
      BY <3>1, <3>4 DEF Types, ClientTypes
    <3> QED
      BY <3>1, <3>3, <3>5 DEF Types, ExchangeTypes, exchangeVars
  <2> QED
    BY <2>1, <2>2
<1>6. ASSUME NEW c \in Connections, LoseConnection(c)
      PROVE  Types'
  <2>1. /\ up' = up \ {c} /\ wire' = [wire EXCEPT ![c] = <<>>]
        /\ answers' = answers \/ answers' = [answers EXCEPT ![c] = <<>>]
        /\ UNCHANGED <<clientVars, exchangeVars>>
    BY <1>6 DEF LoseConnection, Lose
  <2>2. /\ up \subseteq Connections /\ wire \in [Connections -> Seq(Requests)]
        /\ answers \in [Connections -> Seq(Bodies)]
        /\ <<>> \in Seq(Requests) /\ <<>> \in Seq(Bodies)
    BY DEF Types, SessionTypes
  <2>3. SessionTypes'
    BY <2>1, <2>2 DEF SessionTypes
  <2> QED
    BY <2>1, <2>3 DEF Types, ExchangeTypes, ClientTypes, clientVars, exchangeVars
<1>7. CASE UNCHANGED vars
  BY <1>7 DEF vars, sessionVars, clientVars, exchangeVars, Types, SessionTypes, ExchangeTypes,
              ClientTypes
<1> QED
  BY <1>1, <1>2, <1>3, <1>4, <1>5, <1>6, <1>7, BeginTypes, ReceiveTypes, ServeTypes
  DEF Next, Step, Exchange

-----------------------------------------------------------------------------
(* The steps, as long as one thread makes the calls.                       *)

LEMMA InitSolo == Init => Solo
<1> SUFFICES ASSUME Init
             PROVE  Alone /\ Numbered /\ ClientIds /\ InStep /\ Truthful
  BY DEF Solo
<1>1. \A t \in Threads : pc[t] = "idle" /\ call[t] = NoCall
  BY DEF Init
<1>2. Alone
  BY <1>1 DEF Alone
<1>3. Numbered
  BY <1>1 DEF Init, Numbered
<1>4. ClientIds
  BY <1>1 DEF Init, ClientIds
<1>5. InStep
  BY <1>1 DEF Init, SessionInit, InStep, Quiet
<1>6. Truthful
  BY <1>1 DEF Truthful, Finished, NoCall
<1> QED
  BY <1>2, <1>3, <1>4, <1>5, <1>6

(* A step of the one thread that is in a call. *)
ClientStep(t) ==
  /\ pc[t] # "idle" /\ process = "up"
  /\ UNCHANGED <<state, clientOids, effects, calls, overlapped>>
  /\ \A u \in Threads \ {t} : pc'[u] = pc[u] /\ call'[u] = call[u] /\ result'[u] = result[u]
  /\ call'[t].op = call[t].op /\ call'[t].number = call[t].number
  /\ call'[t].clientId = call[t].clientId
  /\ \A c \in Connections \ {Connection(t)} : wire'[c] = wire[c] /\ answers'[c] = answers[c]

(* What such a step has to see to. *)
LEMMA ClientKeeps ==
  ASSUME Types, Solo, ~overlapped, NEW t \in Threads, ClientStep(t), ClientIds',
         process' = "up" =>
           /\ pc'[t] = "receive" => Waiting(t, Connection(t))'
           /\ pc'[t] # "receive" =>
                wire'[Connection(t)] = <<>> /\ answers'[Connection(t)] = <<>>
           /\ pc'[t] \notin {"idle", "receive"} => Untouched(t)',
         pc'[t] = "idle" => result'[t].code = "exception" \/ Truth(call[t], result'[t].ids)
  PROVE  Solo'
<1>1. Alone /\ Numbered /\ InStep /\ Truthful
  BY DEF Solo
<1>2. \A u \in Threads \ {t} : pc[u] = "idle" /\ pc'[u] = "idle"
  BY <1>1 DEF Alone, ClientStep
<1>3. \A u \in Threads : /\ call'[u].op = call[u].op /\ call'[u].number = call[u].number
                         /\ Connection(u)' = Connection(u)
  BY DEF ClientStep, Connection
<1>4. call[t] # NoCall
  BY DEF Types, ClientTypes, ClientStep
<1>5. Alone'
  BY <1>2 DEF Alone
<1>6. Numbered'
  <2>1. \A u, v \in Threads : u # v /\ call'[u] # NoCall => call'[u].number # call'[v].number
    <3> SUFFICES ASSUME NEW u \in Threads, NEW v \in Threads, u # v, call'[u] # NoCall
                 PROVE  call[u].number # call[v].number
      BY <1>3
    <3>1. call[u] # NoCall
      BY <1>4 DEF ClientStep
    <3> QED
      BY <1>1, <3>1 DEF Numbered
  <2>2. \A n \in 1 .. MaxCalls : n > calls' => effects'[n] = {}
    BY <1>1 DEF Numbered, ClientStep
  <2> QED
    BY <2>1, <2>2 DEF Numbered
<1>7. InStep'
  <2> SUFFICES ASSUME process' = "up"
               PROVE  /\ \A c \in Connections :
                           \/ wire'[c] = <<>> /\ answers'[c] = <<>>
                           \/ \E u \in Threads : pc'[u] = "receive" /\ Connection(u)' = c
                      /\ \A u \in Threads : pc'[u] = "receive" => Waiting(u, Connection(u))'
                      /\ \A u \in Threads : pc'[u] \notin {"idle", "receive"} => Untouched(u)'
    BY DEF InStep, Quiet
  <2>1. ASSUME NEW c \in Connections
        PROVE  \/ wire'[c] = <<>> /\ answers'[c] = <<>>
               \/ \E u \in Threads : pc'[u] = "receive" /\ Connection(u)' = c
    <3>1. CASE c = Connection(t)
      BY <1>3, <3>1
    <3>2. CASE c # Connection(t)
      <4>1. ~\E u \in Threads : pc[u] = "receive" /\ Connection(u) = c
        BY <1>2, <3>2
      <4>2. wire[c] = <<>> /\ answers[c] = <<>>
        BY <1>1, <4>1 DEF InStep, Quiet, ClientStep
      <4> QED
        BY <3>2, <4>2 DEF ClientStep
    <3> QED
      BY <3>1, <3>2
  <2>2. ASSUME NEW u \in Threads, pc'[u] = "receive"
        PROVE  Waiting(u, Connection(u))'
    <3>1. u = t
      BY <1>2, <2>2
    <3> QED
      BY <2>2, <3>1
  <2>3. ASSUME NEW u \in Threads, pc'[u] \notin {"idle", "receive"}
        PROVE  Untouched(u)'
    <3>1. u = t
      BY <1>2, <2>3
    <3> QED
      BY <2>3, <3>1
  <2> QED
    BY <2>1, <2>2, <2>3
<1>8. Truthful'
  <2> SUFFICES ASSUME NEW u \in Threads, pc'[u] = "idle", call'[u].op # None,
                      result'[u].code # "exception"
               PROVE  Truth(call[u], result[u].ids)'
    BY DEF Truthful, Finished
  <2>1. Truth(call[u], result'[u].ids)
    <3>1. CASE u = t
      BY <3>1
    <3>2. CASE u # t
      <4>1. Finished(u) /\ result'[u] = result[u]
        BY <1>2, <3>2 DEF Finished, ClientStep
      <4> QED
        BY <1>1, <4>1 DEF Truthful
    <3> QED
      BY <3>1, <3>2
  <2> QED
    BY <1>3, <2>1 DEF Truth, ClientStep
<1> QED
  BY <1>5, <1>6, <1>7, <1>8 DEF Solo

(* An exception with nothing left on the connection. *)
LEMMA ThrowSolo ==
  ASSUME Types, Solo, ~overlapped, NEW t \in Threads, pc[t] # "idle", process = "up",
         Quiet(Connection(t)), Throw(t)
  PROVE  Solo'
<1> DEFINE c == Connection(t)
<1>1. /\ c \in Connections /\ wire \in [Connections -> Seq(Requests)]
      /\ answers \in [Connections -> Seq(Bodies)]
  BY CallOf DEF Types, SessionTypes
<1>2. /\ pc' = [pc EXCEPT ![t] = "idle"]
      /\ result' = [result EXCEPT ![t] = [code |-> "exception", ids |-> {}]]
      /\ UNCHANGED <<exchangeVars, uniqueOrderId, digest, process, call, calls, overlapped>>
  BY DEF Throw, Goto
<1>3. wire' = wire \/ wire' = [wire EXCEPT ![c] = <<>>]
  BY DEF Throw, Close
<1>4. answers' = answers \/ answers' = [answers EXCEPT ![c] = <<>>]
  BY DEF Throw, Connection
<1>5. wire'[c] = <<>> /\ answers'[c] = <<>>
  BY <1>1, <1>3, <1>4 DEF Quiet
<1>6. \A d \in Connections \ {c} : wire'[d] = wire[d] /\ answers'[d] = answers[d]
  BY <1>1, <1>3, <1>4
<1> HIDE DEF c
<1>7. pc'[t] = "idle" /\ result'[t].code = "exception"
  BY <1>2 DEF Types, ClientTypes
<1>8. \A u \in Threads \ {t} : pc'[u] = pc[u] /\ call'[u] = call[u] /\ result'[u] = result[u]
  BY <1>2 DEF Types, ClientTypes
<1>9. ClientStep(t)
  BY <1>2, <1>6, <1>8 DEF ClientStep, exchangeVars, c
<1>10. ClientIds'
  <2>1. ClientIds
    BY DEF Solo
  <2>2. \A u \in Threads : pc'[u] = pc[u] \/ pc'[u] = "idle"
    BY <1>7, <1>8
  <2> QED
    BY <1>2, <2>1, <2>2 DEF ClientIds, exchangeVars
<1> QED
  BY <1>5, <1>7, <1>9, <1>10, ClientKeeps DEF c

LEMMA BeginSolo ==
  ASSUME Types, Solo, NEW t \in Threads, NEW op \in Operations, NEW o \in Arguments(op),
         Begin(t, op, o), ~overlapped'
  PROVE  Solo'
<1> DEFINE k == [op |-> op, order |-> o, number |-> calls + 1,
                 clientId |-> uniqueOrderId, isSigned |-> FALSE]
<1>1. /\ pc[t] = "idle" /\ process = "up" /\ ~overlapped /\ \A u \in Threads \ {t} : pc[u] = "idle"
      /\ calls < MaxCalls /\ calls' = calls + 1 /\ call' = [call EXCEPT ![t] = k]
      /\ result' = [result EXCEPT ![t] = NoResult]
      /\ pc' = [pc EXCEPT ![t] = IF op = "place" THEN "count" ELSE AfterBody(op)]
      /\ UNCHANGED <<sessionVars, exchangeVars, uniqueOrderId, digest, process>>
  BY DEF Begin, Goto, At
<1>2. MaxCalls \in Nat /\ calls \in 0 .. MaxCalls /\ uniqueOrderId \in 0 .. calls
  BY OrdersAssumption DEF Types, ClientTypes
<1>3. k.op = op /\ k.number = calls + 1 /\ k.clientId = uniqueOrderId
  OBVIOUS
<1> HIDE DEF k
<1>4. Alone /\ Numbered /\ ClientIds /\ InStep /\ Truthful
  BY <1>1 DEF Solo
<1>5. /\ pc'[t] \notin {"idle", "receive"} /\ (pc'[t] = "count" <=> op = "place")
      /\ call'[t] = k
      /\ \A u \in Threads \ {t} : pc'[u] = "idle" /\ call'[u] = call[u] /\ result'[u] = result[u]
  BY <1>1 DEF Types, ClientTypes, AfterBody
<1>6. \A u \in Threads : call[u].number \in Nat /\ call[u].number <= calls
  BY DEF Types, ClientTypes, Requests, WellFormed, Calls, NoCall
<1>7. calls + 1 \in 1 .. MaxCalls /\ effects[calls + 1] = {}
  BY <1>1, <1>2, <1>4 DEF Numbered
<1>8. Alone'
  BY <1>5 DEF Alone
<1>9. Numbered'
  <2>1. \A u, v \in Threads : u # v /\ call'[u] # NoCall => call'[u].number # call'[v].number
    <3> SUFFICES ASSUME NEW u \in Threads, NEW v \in Threads, u # v, call'[u] # NoCall
                 PROVE  call'[u].number # call'[v].number
      OBVIOUS
    <3>1. CASE u = t
      <4>1. call'[u].number = calls + 1 /\ call'[v].number = call[v].number
        BY <1>3, <1>5, <3>1
      <4> QED
        BY <1>2, <1>6, <4>1
    <3>2. CASE v = t
      <4>1. call'[v].number = calls + 1 /\ call'[u].number = call[u].number
        BY <1>3, <1>5, <3>2
      <4> QED
        BY <1>2, <1>6, <4>1
    <3>3. CASE u # t /\ v # t
      BY <1>4, <1>5, <3>3 DEF Numbered
    <3> QED
      BY <3>1, <3>2, <3>3
  <2>2. \A n \in 1 .. MaxCalls : n > calls' => effects'[n] = {}
    BY <1>1, <1>2, <1>4 DEF Numbered, exchangeVars
  <2> QED
    BY <2>1, <2>2 DEF Numbered
<1>10. ClientIds'
  <2>1. /\ \A p \in OrderIds : clientOids'[p] = None \/ clientOids'[p] < uniqueOrderId'
        /\ \A p, q \in OrderIds : clientOids'[p] # None /\ clientOids'[p] = clientOids'[q] => p = q
    BY <1>1, <1>4 DEF ClientIds, exchangeVars
  <2>2. \A u \in Threads : pc'[u] = "count" => call'[u].clientId = uniqueOrderId'
    BY <1>1, <1>3, <1>5
  <2>3. \A u \in Threads : pc'[u] \notin {"idle", "count"} => call'[u].op # "place"
    BY <1>3, <1>5
  <2> QED
    BY <2>1, <2>2, <2>3 DEF ClientIds
<1>11. InStep'
  <2>1. \A c \in Connections : wire'[c] = <<>> /\ answers'[c] = <<>>
    BY <1>1, <1>4 DEF InStep, Quiet, sessionVars
  <2>2. \A u \in Threads : pc'[u] # "receive"
    BY <1>5
  <2>3. ASSUME NEW u \in Threads, pc'[u] \notin {"idle", "receive"}
        PROVE  Untouched(u)'
    <3>1. call'[u] = k
      BY <1>5, <2>3
    <3>2. effects'[call'[u].number] = {}
      BY <1>1, <1>3, <1>7, <3>1 DEF exchangeVars
    <3>3. \A p \in OrderIds : clientOids'[p] = None \/ clientOids'[p] # call'[u].clientId
      <4> SUFFICES ASSUME NEW p \in OrderIds, clientOids[p] # None
                   PROVE  clientOids[p] # uniqueOrderId
        BY <1>1, <1>3, <3>1 DEF exchangeVars
      <4>1. clientOids[p] < uniqueOrderId /\ clientOids[p] \in 0 .. MaxCalls
        BY <1>4 DEF ClientIds, Types, ExchangeTypes
      <4> QED
        BY <1>2, <4>1
    <3> QED
      BY <3>2, <3>3 DEF Untouched
  <2> QED
    BY <2>1, <2>2, <2>3 DEF InStep, Quiet
<1>12. Truthful'
  <2> SUFFICES ASSUME NEW u \in Threads, pc'[u] = "idle", call'[u].op # None,
                      result'[u].code # "exception"
               PROVE  Truth(call[u], result[u].ids)'
    BY DEF Truthful, Finished
  <2>1. u # t /\ call'[u] = call[u] /\ result'[u] = result[u]
    BY <1>5
  <2>2. Truth(call[u], result[u].ids)
    BY <1>1, <1>4, <2>1 DEF Truthful, Finished
  <2> QED
    BY <1>1, <2>1, <2>2 DEF Truth, exchangeVars
<1> QED
  BY <1>8, <1>9, <1>10, <1>11, <1>12 DEF Solo

(* What a thread in a call finds, unless it waits for an answer. *)
LEMMA InACall ==
  ASSUME Types, Solo, ~overlapped, process = "up", NEW t \in Threads, pc[t] # "idle"
  PROVE  /\ pc[t] # "receive" => Quiet(Connection(t)) /\ Untouched(t)
         /\ pc[t] = "receive" => Waiting(t, Connection(t))
         /\ ~Contended(t)
         /\ call[t] \in Requests /\ Connection(t) \in Connections
         /\ ClientIds
<1>1. Alone /\ InStep /\ ClientIds
  BY DEF Solo
<1>2. call[t] \in Requests /\ Connection(t) \in Connections
  BY CallOf
<1>3. \A u \in Threads \ {t} : pc[u] = "idle"
  BY <1>1 DEF Alone
<1>4. ~Contended(t)
  BY <1>3 DEF Contended
<1>5. pc[t] # "receive" => Quiet(Connection(t))
  BY <1>1, <1>2, <1>3 DEF InStep
<1> QED
  BY <1>1, <1>2, <1>4, <1>5 DEF InStep

LEMMA CountSolo ==
  ASSUME Types, Solo, NEW t \in Threads, Count(t), ~overlapped'
  PROVE  Solo'
<1>1. /\ pc[t] = "count" /\ process = "up" /\ uniqueOrderId' = call[t].clientId + 1
      /\ pc' = [pc EXCEPT ![t] = AfterBody(call[t].op)]
      /\ UNCHANGED <<sessionVars, exchangeVars, digest, process, call, result, calls, overlapped>>
  BY DEF Count, At, Goto
<1>2. ~overlapped /\ Solo
  BY <1>1
<1>3. Quiet(Connection(t)) /\ Untouched(t) /\ ClientIds /\ Connection(t) \in Connections
  BY <1>1, <1>2, InACall
<1>4. /\ pc'[t] \notin {"idle", "count", "receive"}
      /\ \A u \in Threads \ {t} : pc'[u] = pc[u] /\ pc[u] = "idle"
  BY <1>1, <1>2 DEF Types, ClientTypes, AfterBody, Solo, Alone
<1>5. /\ uniqueOrderId \in Nat /\ call[t].clientId = uniqueOrderId
      /\ uniqueOrderId' = uniqueOrderId + 1
  <2>1. call[t].clientId = uniqueOrderId
    BY <1>1, <1>3 DEF ClientIds
  <2>2. uniqueOrderId \in Nat
    BY DEF Types, ClientTypes
  <2> QED
    BY <1>1, <2>1, <2>2
<1>6. ClientIds'
  <2>1. ASSUME NEW o \in OrderIds
        PROVE  clientOids'[o] = None \/ clientOids'[o] < uniqueOrderId'
    <3>1. /\ clientOids[o] = None \/ clientOids[o] < uniqueOrderId
          /\ clientOids[o] = None \/ clientOids[o] \in 0 .. MaxCalls
      BY <1>3 DEF ClientIds, Types, ExchangeTypes
    <3>2. clientOids' = clientOids
      BY <1>1 DEF exchangeVars
    <3> QED
      BY <1>5, <3>1, <3>2
  <2>2. \A o, p \in OrderIds : clientOids'[o] # None /\ clientOids'[o] = clientOids'[p] => o = p
    BY <1>1, <1>3 DEF ClientIds, exchangeVars
  <2>3. \A u \in Threads : pc'[u] # "count"
    BY <1>4
  <2>4. \A u \in Threads : pc'[u] \notin {"idle", "count"} => call'[u].clientId < uniqueOrderId'
    BY <1>1, <1>4, <1>5
  <2> QED
    BY <2>1, <2>2, <2>3, <2>4 DEF ClientIds
<1>7. ClientStep(t)
  BY <1>1, <1>4 DEF ClientStep, exchangeVars, sessionVars
<1>8. /\ wire'[Connection(t)] = <<>> /\ answers'[Connection(t)] = <<>>
      /\ Untouched(t)'
  BY <1>1, <1>3 DEF Quiet, Untouched, exchangeVars, sessionVars
<1> QED
  BY <1>2, <1>4, <1>6, <1>7, <1>8, ClientKeeps

(* A step that leaves the client order ids and the numbers alone. *)
LEMMA IdsKept ==
  ASSUME Types, ClientIds, NEW t \in Threads, pc[t] # "idle", ClientStep(t),
         UNCHANGED uniqueOrderId, pc'[t] # "count", pc[t] # "count"
  PROVE  ClientIds'
BY DEF ClientIds, ClientStep

LEMMA OpenSolo ==
  ASSUME Types, Solo, NEW t \in Threads, Open(t), ~overlapped'
  PROVE  Solo'
<1>1. pc[t] = "connect" /\ process = "up" /\ ~overlapped
  BY DEF Open, At, Throw
<1>2. Quiet(Connection(t)) /\ Untouched(t) /\ ClientIds /\ Connection(t) \in Connections
  BY <1>1, InACall
<1>3. CASE Throw(t)
  BY <1>1, <1>2, <1>3, ThrowSolo
<1>4. CASE ~Throw(t)
  <2>1. /\ pc' = [pc EXCEPT ![t] = "sign"] /\ UNCHANGED <<wire, answers>>
        /\ UNCHANGED <<exchangeVars, uniqueOrderId, digest, process, call, result, calls,
                       overlapped>>
    BY <1>4 DEF Open, Goto, Connect
  <2>2. pc'[t] = "sign" /\ \A u \in Threads \ {t} : pc'[u] = pc[u]
    BY <2>1 DEF Types, ClientTypes
  <2>3. ClientStep(t)
    BY <1>1, <2>1, <2>2 DEF ClientStep, exchangeVars
  <2>4. ClientIds'
    BY <1>1, <1>2, <2>1, <2>2, <2>3, IdsKept
  <2>5. /\ wire'[Connection(t)] = <<>> /\ answers'[Connection(t)] = <<>>
        /\ Untouched(t)'
    BY <1>2, <2>1 DEF Quiet, Untouched, exchangeVars
  <2> QED
    BY <1>1, <2>2, <2>3, <2>4, <2>5, ClientKeeps
<1> QED
  BY <1>3, <1>4

LEMMA SignSolo ==
  ASSUME Types, Solo, NEW t \in Threads, Sign(t), ~overlapped'
  PROVE  Solo'
<1>1. /\ pc[t] = "sign" /\ process = "up" /\ pc' = [pc EXCEPT ![t] = "encode"] /\ ~overlapped
      /\ UNCHANGED <<sessionVars, state, clientOids, effects, uniqueOrderId, process, call, result,
                     calls, overlapped>>
  BY DEF Sign, At, Goto
<1>2. Quiet(Connection(t)) /\ Untouched(t) /\ ClientIds /\ Connection(t) \in Connections
  BY <1>1, InACall
<1>3. pc'[t] = "encode" /\ \A u \in Threads \ {t} : pc'[u] = pc[u]
  BY <1>1 DEF Types, ClientTypes
<1>4. ClientStep(t)
  BY <1>1, <1>3 DEF ClientStep, sessionVars
<1>5. ClientIds'
  BY <1>1, <1>2, <1>3, <1>4, IdsKept
<1>6. /\ wire'[Connection(t)] = <<>> /\ answers'[Connection(t)] = <<>>
      /\ Untouched(t)'
  BY <1>1, <1>2 DEF Quiet, Untouched, sessionVars
<1> QED
  BY <1>1, <1>3, <1>4, <1>5, <1>6, ClientKeeps

LEMMA EncodeSolo ==
  ASSUME Types, Solo, NEW t \in Threads, Encode(t), ~overlapped'
  PROVE  Solo'
<1>1. pc[t] = "encode" /\ process = "up"
  BY Encoding
<1>2. ~overlapped
  BY Encoding DEF Abort
<1>3. Quiet(Connection(t)) /\ Untouched(t) /\ ClientIds /\ Connection(t) \in Connections
  BY <1>1, <1>2, InACall
<1>4. CASE Abort(t) /\ UNCHANGED answers
  <2>1. ClientStep(t)
    BY <1>1, <1>4 DEF ClientStep, Abort, exchangeVars
  <2>2. ClientIds'
    BY <1>1, <1>3, <1>4, <2>1, IdsKept DEF Abort
  <2>3. process' = "aborted" /\ pc'[t] = "encode"
    BY <1>1, <1>4 DEF Abort
  <2> QED
    BY <1>2, <2>1, <2>2, <2>3, ClientKeeps
<1>5. CASE ~(Abort(t) /\ UNCHANGED answers)
  <2>1. /\ pc' = [pc EXCEPT ![t] = "send"]
        /\ UNCHANGED <<sessionVars, exchangeVars, uniqueOrderId, digest, process, result, calls,
                       overlapped>>
        /\ \A u \in Threads : u # t => call'[u] = call[u]
        /\ call'[t].op = call[t].op /\ call'[t].number = call[t].number
        /\ call'[t].clientId = call[t].clientId
    BY <1>5, Encoding
  <2>2. pc'[t] = "send" /\ \A u \in Threads \ {t} : pc'[u] = pc[u]
    BY <2>1 DEF Types, ClientTypes
  <2>3. ClientStep(t)
    BY <1>1, <2>1, <2>2 DEF ClientStep, exchangeVars, sessionVars
  <2>4. ClientIds'
    BY <1>1, <1>3, <2>1, <2>2, <2>3, IdsKept
  <2>5. Connection(t)' = Connection(t)
    BY <2>1 DEF Connection
  <2>6. /\ wire'[Connection(t)] = <<>> /\ answers'[Connection(t)] = <<>>
        /\ Untouched(t)'
    BY <1>3, <2>1 DEF Quiet, Untouched, exchangeVars, sessionVars
  <2> QED
    BY <1>2, <2>2, <2>3, <2>4, <2>5, <2>6, ClientKeeps
<1> QED
  BY <1>4, <1>5

LEMMA SendSolo ==
  ASSUME Types, Solo, NEW t \in Threads, Send(t), ~overlapped'
  PROVE  Solo'
<1> DEFINE c == Connection(t)
           k == call[t]
<1>1. pc[t] = "send" /\ process = "up" /\ ~overlapped
  BY DEF Send, At, Throw
<1>2. Quiet(c) /\ Untouched(t) /\ ClientIds /\ c \in Connections /\ k \in Requests
  BY <1>1, InACall
<1>3. CASE Throw(t)
  BY <1>1, <1>2, <1>3, ThrowSolo
<1>4. CASE ~Throw(t)
  <2>1. /\ Write(c, k) /\ pc' = [pc EXCEPT ![t] = "receive"]
        /\ UNCHANGED <<exchangeVars, uniqueOrderId, digest, process, call, result, calls,
                       overlapped>>
    BY <1>4 DEF Send, Goto
  <2>2. pc'[t] = "receive" /\ \A u \in Threads \ {t} : pc'[u] = pc[u]
    BY <2>1 DEF Types, ClientTypes
  <2>3. /\ c \in up' /\ answers' = answers
        /\ wire' = [wire EXCEPT ![c] = Append(wire[c], k)]
    BY <2>1 DEF Write
  <2>4. wire'[c] = <<k>> /\ \A d \in Connections \ {c} : wire'[d] = wire[d]
    <3>1. wire \in [Connections -> Seq(Requests)] /\ wire[c] = <<>>
      BY <1>2 DEF Types, SessionTypes, Quiet
    <3>2. Append(<<>>, k) = <<k>>
      OBVIOUS
    <3> QED
      BY <1>2, <2>3, <3>1, <3>2
  <2>5. ClientStep(t)
    BY <1>1, <2>1, <2>2, <2>3, <2>4 DEF ClientStep, exchangeVars
  <2>6. ClientIds'
    BY <1>1, <1>2, <2>1, <2>2, <2>5, IdsKept
  <2>7. Waiting(t, c)'
    <3>1. Untouched(t)' /\ Connection(t)' = c /\ call'[t] = k
      BY <1>2, <2>1 DEF Untouched, exchangeVars, Connection
    <3>2. answers'[c] = <<>>
      BY <1>2, <2>3 DEF Quiet
    <3> HIDE DEF c, k
    <3> QED
      BY <2>3, <2>4, <3>1, <3>2 DEF Waiting, c, k
  <2> QED
    BY <1>1, <2>2, <2>5, <2>6, <2>7, ClientKeeps
<1> QED
  BY <1>3, <1>4

LEMMA ReceiveSolo ==
  ASSUME Types, Solo, NEW t \in Threads, Receive(t), ~overlapped'
  PROVE  Solo'
<1> DEFINE c == Connection(t)
           outcome == Understood(call[t].op, Head(answers[c]))
<1>1. pc[t] = "receive" /\ process = "up"
  BY Receiving
<1>2. ~overlapped
  BY Receiving DEF Abort, Return, Throw
<1>3. Waiting(t, c) /\ ClientIds /\ ~Contended(t) /\ c \in Connections
  BY <1>1, <1>2, InACall
<1>4. ASSUME NEW b \in Seq(Bodies), Len(b) = 1
      PROVE  Head(b) = b[1] /\ Tail(b) = <<>>
  <2>1. b # <<>>
    BY <1>4
  <2>2. Tail(b) \in Seq(Bodies) /\ Len(Tail(b)) = 0
    BY <1>4, <2>1, HeadTailProperties
  <2>3. Tail(b) = <<>>
    BY <2>2, EmptySeq
  <2> QED
    BY <2>1, <2>3
<1>5. answers[c] \in Seq(Bodies) /\ answers \in [Connections -> Seq(Bodies)]
  BY <1>3 DEF Types, SessionTypes
<1>6. CASE Read(c) /\ Abort(t)
  <2>1. answers' = [answers EXCEPT ![c] = Tail(answers[c])]
    BY <1>3, <1>6, ReadTypes
  <2>2. \A d \in Connections \ {c} : answers'[d] = answers[d]
    BY <1>5, <2>1
  <2>3. ClientStep(t)
    BY <1>1, <1>6, <2>2 DEF ClientStep, Abort, exchangeVars
  <2>4. process' = "aborted" /\ pc'[t] = "receive" /\ uniqueOrderId' = uniqueOrderId
    BY <1>1, <1>6 DEF Abort
  <2>5. ClientIds'
    BY <1>1, <1>3, <2>3, <2>4, IdsKept
  <2> QED
    BY <1>2, <2>3, <2>4, <2>5, ClientKeeps
<1>7. CASE /\ Read(c) /\ Return(t, outcome)
           /\ outcome \in [code : Codes, ids : SUBSET OrderIds]
  <2>1. /\ answers[c] # <<>> /\ answers' = [answers EXCEPT ![c] = Tail(answers[c])]
    BY <1>3, <1>7, ReadTypes
  <2>2. /\ wire[c] = <<>> /\ Len(answers[c]) = 1
        /\ Tells(call[t], Understood(call[t].op, answers[c][1]))
    BY <1>3, <2>1 DEF Waiting, Quiet
  <2>3. Head(answers[c]) = answers[c][1] /\ Tail(answers[c]) = <<>>
    BY <1>4, <1>5, <2>2
  <2>4. Tells(call[t], outcome)
    BY <2>2, <2>3
  <2>5. outcome.code \in Codes /\ outcome # Aborted
    BY <1>7 DEF Codes, Aborted
  <2> HIDE DEF outcome
  <2>6. outcome.code = "exception" \/ Truth(call[t], outcome.ids)
    BY <2>4, <2>5 DEF Tells
  <2>7. /\ pc' = [pc EXCEPT ![t] = "idle"] /\ result' = [result EXCEPT ![t] = outcome]
        /\ UNCHANGED <<exchangeVars, uniqueOrderId, digest, process, call, calls, overlapped>>
    BY <1>7 DEF Return, Goto
  <2>8. wire' = wire \/ wire' = [wire EXCEPT ![c] = <<>>]
    BY <1>7 DEF Return, Close
  <2>9. /\ answers'[c] = <<>> /\ wire'[c] = <<>>
        /\ \A d \in Connections \ {c} : wire'[d] = wire[d] /\ answers'[d] = answers[d]
    <3>1. wire \in [Connections -> Seq(Requests)]
      BY DEF Types, SessionTypes
    <3> QED
      BY <1>3, <1>5, <2>1, <2>2, <2>3, <2>8, <3>1
  <2>10. /\ pc'[t] = "idle" /\ result'[t] = outcome
         /\ \A u \in Threads \ {t} : pc'[u] = pc[u] /\ result'[u] = result[u]
    BY <2>7 DEF Types, ClientTypes
  <2>11. ClientStep(t)
    BY <1>1, <2>7, <2>9, <2>10 DEF ClientStep, exchangeVars
  <2>12. ClientIds'
    BY <1>1, <1>3, <2>7, <2>10, <2>11, IdsKept
  <2> QED
    BY <1>2, <2>6, <2>9, <2>10, <2>11, <2>12, ClientKeeps
<1>8. CASE /\ \/ c \notin up /\ answers[c] = <<>>
              \/ Contended(t)
           /\ Throw(t)
  <2>1. c \notin up /\ answers[c] = <<>>
    BY <1>3, <1>8
  <2>2. Len(answers[c]) # 1
    BY <2>1
  <2>3. Quiet(c)
    BY <1>3, <2>1, <2>2 DEF Waiting, Quiet
  <2> QED
    BY <1>1, <1>2, <1>8, <2>3, ThrowSolo
<1> QED
  BY <1>6, <1>7, <1>8, Receiving

(* The connection on which something is under way. *)
LEMMA UnderWay ==
  ASSUME Types, Solo, ~overlapped, process = "up", NEW c \in Connections, ~Quiet(c)
  PROVE  \E t \in Threads :
           /\ pc[t] = "receive" /\ Connection(t) = c /\ Waiting(t, c)
           /\ \A u \in Threads \ {t} : pc[u] = "idle"
           /\ \A d \in Connections \ {c} : Quiet(d)
<1>1. Alone /\ InStep
  BY DEF Solo
<1>2. PICK t \in Threads : pc[t] = "receive" /\ Connection(t) = c
  BY <1>1 DEF InStep
<1>3. Waiting(t, c)
  BY <1>1, <1>2 DEF InStep
<1>4. \A u \in Threads \ {t} : pc[u] = "idle"
  BY <1>1, <1>2 DEF Alone
<1>5. \A d \in Connections \ {c} : Quiet(d)
  BY <1>1, <1>2, <1>4 DEF InStep
<1> QED
  BY <1>2, <1>3, <1>4, <1>5

LEMMA ServeSolo ==
  ASSUME Types, Solo, process = "up", NEW c \in Connections, Serve(c), ~overlapped'
  PROVE  Solo'
<1>1. PICK r, ids, s, body : Serving(c, r, ids, s, body)
  BY ServeCases
<1>2. /\ ~overlapped
      /\ UNCHANGED <<uniqueOrderId, digest, process, pc, call, result, calls, overlapped>>
  BY <1>1 DEF Serving, clientVars
<1>3. wire[c] # <<>>
  BY <1>1 DEF Serving
<1>4. PICK t \in Threads :
             /\ pc[t] = "receive" /\ Connection(t) = c /\ Waiting(t, c)
             /\ \A u \in Threads \ {t} : pc[u] = "idle"
             /\ \A d \in Connections \ {c} : Quiet(d)
  BY <1>2, <1>3, UnderWay DEF Quiet
<1>5. /\ wire[c] = <<call[t]>> /\ answers[c] = <<>> /\ c \in up
      /\ effects[call[t].number] = {}
      /\ call[t].op = "place" =>
           \A o \in OrderIds : clientOids[o] = None \/ clientOids[o] # call[t].clientId
  BY <1>3, <1>4 DEF Waiting, Quiet, Untouched
<1>6. r = call[t] /\ r \in Requests
  <2>1. Head(<<call[t]>>) = call[t]
    OBVIOUS
  <2> QED
    BY <1>1, <1>5, <2>1 DEF Serving
<1>7. /\ state' = [o \in OrderIds |-> IF o \in ids THEN s ELSE state[o]]
      /\ clientOids' = [o \in OrderIds |-> IF o \in ids /\ r.op = "place" THEN r.clientId
                                                                        ELSE clientOids[o]]
      /\ effects' = [effects EXCEPT ![r.number] = effects[r.number] \cup ids]
      /\ s \in {"open", "done"} /\ ids \subseteq OrderIds
  BY <1>1 DEF Serving
<1>8. /\ r.number \in 1 .. MaxCalls /\ r.number <= calls /\ call[t] # NoCall
  <2>1. r.number \in 1 .. MaxCalls /\ r.number <= calls
    BY <1>4, <1>6, CallOf
  <2>2. call[t] # NoCall
    BY <1>4 DEF Types, ClientTypes
  <2> QED
    BY <2>1, <2>2
<1>9. \A o \in OrderIds : state[o] # "none" => state'[o] # "none"
  BY <1>7
<1>10. /\ effects'[r.number] = ids
       /\ \A n \in 1 .. MaxCalls : n # r.number => effects'[n] = effects[n]
  BY <1>5, <1>6, <1>7, <1>8 DEF Types, ExchangeTypes
<1>11. Alone /\ Numbered /\ ClientIds /\ InStep /\ Truthful
  BY <1>2 DEF Solo
<1>12. Alone'
  BY <1>2, <1>11 DEF Alone
<1>13. Numbered'
  <2>1. \A n \in 1 .. MaxCalls : n > calls => effects'[n] = {}
    <3>1. calls \in Nat
      BY OrdersAssumption DEF Types, ClientTypes
    <3> QED
      BY <1>8, <1>10, <1>11, <3>1 DEF Numbered
  <2> QED
    BY <1>2, <1>11, <2>1 DEF Numbered
<1>14. ClientIds'
  <2>1. \A u \in Threads : /\ pc[u] = "count" => call[u].clientId = uniqueOrderId
                           /\ pc[u] \notin {"idle", "count"} /\ call[u].op = "place"
                                => call[u].clientId < uniqueOrderId
    BY <1>11 DEF ClientIds
  <2>2. CASE r.op # "place"
    <3>1. clientOids' = clientOids
      BY <1>7, <2>2 DEF Types, ExchangeTypes
    <3> QED
      BY <1>2, <1>11, <3>1 DEF ClientIds
  <2>3. CASE r.op = "place"
    <3>1. ids = {} \/ ids = {r.order}
      BY <1>1, <2>3 DEF Serving
    <3>2. r.clientId < uniqueOrderId
      BY <1>4, <1>6, <2>1, <2>3
    <3>3. \A o \in OrderIds : clientOids'[o] = IF o \in ids THEN r.clientId ELSE clientOids[o]
      BY <1>7, <2>3
    <3>4. \A o \in OrderIds : clientOids'[o] = None \/ clientOids'[o] < uniqueOrderId
      BY <1>11, <3>2, <3>3 DEF ClientIds
    <3>5. ASSUME NEW o \in OrderIds, NEW p \in OrderIds, clientOids'[o] # None,
                 clientOids'[o] = clientOids'[p]
          PROVE  o = p
      <4>1. \A q \in OrderIds : clientOids[q] = None \/ clientOids[q] # r.clientId
        BY <1>5, <1>6, <2>3
      <4>2. CASE o \in ids /\ p \in ids
        BY <3>1, <4>2
      <4>3. CASE o \in ids /\ p \notin ids
        BY <3>3, <3>5, <4>1, <4>3
      <4>4. CASE o \notin ids /\ p \in ids
        BY <3>3, <3>5, <4>1, <4>4
      <4>5. CASE o \notin ids /\ p \notin ids
        BY <1>11, <3>3, <3>5, <4>5 DEF ClientIds
      <4> QED
        BY <4>2, <4>3, <4>4, <4>5
    <3> QED
      BY <1>2, <2>1, <3>4, <3>5 DEF ClientIds
  <2> QED
    BY <2>2, <2>3
<1>15. InStep'
  <2>1. /\ wire' = [wire EXCEPT ![c] = Tail(wire[c])]
        /\ answers' = [answers EXCEPT ![c] = Append(answers[c], body)] /\ up' = up
    BY <1>1 DEF Serving, Answer
  <2>2. Tail(<<call[t]>>) = <<>> /\ Append(<<>>, body) = <<body>> /\ Len(<<body>>) = 1
        /\ <<body>>[1] = body
    OBVIOUS
  <2>3. /\ wire'[c] = <<>> /\ answers'[c] = <<body>>
        /\ \A d \in Connections \ {c} : wire'[d] = wire[d] /\ answers'[d] = answers[d]
    BY <1>5, <2>1, <2>2 DEF Types, SessionTypes
  <2>4. \A u \in Threads : Connection(u)' = Connection(u)
    BY <1>2 DEF Connection
  <2>5. Tells(call[t], Understood(call[t].op, body))'
    <3> DEFINE told == Understood(r.op, body)
    <3>1. \/ told = Aborted
          \/ told.code = "exception"
          \/ CASE r.op \in {"get", "list"} -> \A o \in told.ids : state[o] # "none"
               [] r.op = "cancel" -> TRUE
               [] OTHER -> told.ids = ids
      BY <1>1 DEF Serving
    <3>2. told = Aborted \/ told.ids \subseteq OrderIds
      <4>1. r.op \in Operations /\ body \in Bodies
        BY <1>1, <1>6 DEF Serving, Requests, Calls
      <4> QED
        BY <4>1, UnderstoodTypes
    <3>3. told = Understood(call'[t].op, body) /\ call'[t] = r
      BY <1>2, <1>6
    <3> HIDE DEF told
    <3>4. \/ told = Aborted
          \/ told.code = "exception"
          \/ CASE r.op \in {"get", "list"} -> \A o \in told.ids : state'[o] # "none"
               [] r.op = "cancel" -> TRUE
               [] OTHER -> told.ids = effects'[r.number]
      BY <1>9, <1>10, <3>1, <3>2
    <3>5. Tells(r, told)'
      BY <1>2, <1>6, <3>3, <3>4 DEF Tells, Truth
    <3> QED
      BY <1>6, <3>3, <3>5
  <2>6. Waiting(t, c)'
    BY <2>2, <2>3, <2>5 DEF Waiting
  <2>7. \A d \in Connections : Quiet(d)' \/ (pc'[t] = "receive" /\ Connection(t)' = d)
    BY <1>2, <1>4, <2>3, <2>4 DEF Quiet
  <2>8. \A u \in Threads : pc'[u] = "receive" => u = t
    BY <1>2, <1>4
  <2>9. \A u \in Threads : pc'[u] \in {"idle", "receive"}
    BY <1>2, <1>4
  <2> QED
    BY <1>4, <2>4, <2>6, <2>7, <2>8, <2>9 DEF InStep
<1>16. Truthful'
  <2> SUFFICES ASSUME NEW u \in Threads, pc'[u] = "idle", call'[u].op # None,
                      result'[u].code # "exception"
               PROVE  Truth(call[u], result[u].ids)'
    BY DEF Truthful, Finished
  <2>1. Truth(call[u], result[u].ids) /\ u # t
    BY <1>2, <1>4, <1>11 DEF Truthful, Finished
  <2>2. /\ call[u].number # r.number /\ call[u].number \in 1 .. MaxCalls
        /\ result[u].ids \subseteq OrderIds
    <3>1. call[u] # NoCall
      BY <1>2 DEF NoCall
    <3>2. call[u].number \in 1 .. MaxCalls /\ result[u].ids \subseteq OrderIds
      BY <3>1 DEF Types, ClientTypes, Requests, Calls
    <3> QED
      BY <1>6, <1>8, <1>11, <2>1, <3>2 DEF Numbered
  <2>3. effects'[call[u].number] = effects[call[u].number]
    BY <1>10, <2>2
  <2> QED
    BY <1>2, <1>9, <2>1, <2>2, <2>3 DEF Truth
<1> QED
  BY <1>12, <1>13, <1>14, <1>15, <1>16 DEF Solo

LEMMA LoseSolo ==
  ASSUME Types, Solo, process = "up", NEW c \in Connections, LoseConnection(c), ~overlapped'
  PROVE  Solo'
<1>1. /\ c \in up /\ up' = up \ {c} /\ wire' = [wire EXCEPT ![c] = <<>>]
      /\ answers' = answers \/ answers' = [answers EXCEPT ![c] = <<>>]
      /\ UNCHANGED <<clientVars, exchangeVars>>
  BY DEF LoseConnection, Lose
<1>2. /\ ~overlapped
      /\ UNCHANGED <<uniqueOrderId, digest, process, pc, call, result, calls, overlapped,
                     state, clientOids, effects>>
  BY <1>1 DEF clientVars, exchangeVars
<1>3. Alone /\ Numbered /\ ClientIds /\ InStep /\ Truthful
  BY <1>2 DEF Solo
<1>4. Alone' /\ Numbered' /\ ClientIds' /\ Truthful'
  <2>1. Alone'
    BY <1>2, <1>3 DEF Alone
  <2>2. Numbered'
    BY <1>2, <1>3 DEF Numbered
  <2>3. ClientIds'
    BY <1>2, <1>3 DEF ClientIds
  <2>4. Truthful'
    BY <1>2, <1>3 DEF Truthful, Finished, Truth
  <2> QED
    BY <2>1, <2>2, <2>3, <2>4
<1>5. InStep'
  <2>1. /\ wire'[c] = <<>> /\ (answers'[c] = answers[c] \/ answers'[c] = <<>>)
        /\ \A d \in Connections \ {c} : wire'[d] = wire[d] /\ answers'[d] = answers[d]
    BY <1>1 DEF Types, SessionTypes
  <2>2. \A u \in Threads : Connection(u)' = Connection(u)
    BY <1>2 DEF Connection
  <2>3. \A d \in Connections : Quiet(d) => Quiet(d)'
    BY <2>1 DEF Quiet
  <2>4. \A d \in Connections :
          Quiet(d)' \/ \E u \in Threads : pc'[u] = "receive" /\ Connection(u)' = d
    BY <1>2, <1>3, <2>2, <2>3 DEF InStep
  <2>5. \A u \in Threads : pc'[u] \notin {"idle", "receive"} => Untouched(u)'
    BY <1>2, <1>3 DEF InStep, Untouched
  <2>6. ASSUME NEW u \in Threads, NEW d \in Connections, pc[u] = "receive", Connection(u) = d
        PROVE  Waiting(u, d)'
    <3>1. Waiting(u, d)
      BY <1>3, <2>6 DEF InStep
    <3>2. call'[u] = call[u] /\ (Untouched(u) => Untouched(u)')
      BY <1>2 DEF Untouched
    <3>3. CASE d # c
      <4>1. wire'[d] = wire[d] /\ answers'[d] = answers[d] /\ (d \in up <=> d \in up')
        BY <1>1, <2>1, <3>3
      <4> QED
        BY <1>2, <3>1, <3>2, <4>1 DEF Waiting, Quiet, Tells, Truth
    <3>4. CASE d = c
      <4>1. c \notin up'
        BY <1>1
      <4>2. CASE answers'[c] = <<>>
        BY <2>1, <3>4, <4>1, <4>2 DEF Waiting, Quiet
      <4>3. CASE answers'[c] # <<>>
        <5>1. /\ answers'[c] = answers[c] /\ Len(answers[c]) = 1
              /\ Tells(call[u], Understood(call[u].op, answers[c][1]))
          BY <1>1, <2>1, <3>1, <3>4, <4>3 DEF Waiting, Quiet
        <5> QED
          BY <1>2, <2>1, <3>2, <3>4, <5>1 DEF Waiting, Tells, Truth
      <4> QED
        BY <4>2, <4>3
    <3> QED
      BY <3>3, <3>4
  <2>7. ASSUME NEW u \in Threads, pc[u] = "receive"
        PROVE  Waiting(u, Connection(u))'
    <3>1. Connection(u) \in Connections
      BY <2>7, CallOf
    <3> QED
      BY <2>2, <2>6, <2>7, <3>1 DEF Waiting
  <2> QED
    BY <1>2, <2>4, <2>5, <2>7 DEF InStep
<1> QED
  BY <1>4, <1>5 DEF Solo

LEMMA NextSolo == IInv /\ [Next]_vars => Solo'
<1> SUFFICES ASSUME Types, Solo, [Next]_vars, ~overlapped'
             PROVE  Solo'
  BY DEF IInv, Solo
<1>1. CASE UNCHANGED vars
  <2>1. /\ UNCHANGED <<up, wire, answers, uniqueOrderId, digest, process, pc, call, result, calls>>
        /\ UNCHANGED <<overlapped, state, clientOids, effects>>
    BY <1>1 DEF vars, sessionVars, clientVars, exchangeVars
  <2> QED
    BY <2>1 DEF Solo, Alone, Numbered, ClientIds, InStep, Truthful, Finished, Truth, Waiting, Tells,
                Untouched, Quiet, Connection
<1> QED
  BY <1>1, BeginSolo, CountSolo, OpenSolo, SignSolo, EncodeSolo, SendSolo, ReceiveSolo, ServeSolo,
     LoseSolo
  DEF Next, Step, Exchange

(* The inductive invariant. *)
THEOREM Invariance == Spec => []IInv
<1>1. Init => IInv
  BY InitTypes, InitSolo DEF IInv
<1>2. IInv /\ [Next]_vars => IInv'
  BY NextTypes, NextSolo DEF IInv
<1> QED
  BY <1>1, <1>2, PTL DEF Spec

-----------------------------------------------------------------------------
(* The properties of the connector.                                        *)

(* Every call, result, connection and order is what the types say. *)
THEOREM TypeCorrect == Spec => []TypeOK
<1>1. IInv => TypeOK
  <2> SUFFICES ASSUME Types
               PROVE  TypeOK
    BY DEF IInv
  <2>1. uniqueOrderId \in 0 .. MaxCalls
    BY OrdersAssumption DEF Types, ClientTypes
  <2>2. ASSUME NEW t \in Threads
        PROVE  /\ call[t].op \in Operations \cup {None}
               /\ call[t].clientId \in 0 .. MaxCalls
               /\ call[t].isSigned \in BOOLEAN
    <3>1. CASE call[t] \in Requests
      BY <3>1 DEF Requests, Calls
    <3>2. CASE call[t] = NoCall
      BY <3>2, OrdersAssumption DEF NoCall
    <3> QED
      BY <3>1, <3>2 DEF Types, ClientTypes
  <2>3. \A t \in Threads : result[t].code \in Codes /\ result[t].ids \subseteq OrderIds
    BY DEF Types, ClientTypes
  <2> QED
    BY <2>1, <2>2, <2>3 DEF TypeOK, Types, SessionTypes, ExchangeTypes, ClientTypes, Labels
<1> QED
  BY <1>1, Invariance, PTL

(* parseOrderResponse and its like, connector.cpp: as long as one thread   *)
(* makes the calls, what placeOrder and the cancellations of all orders    *)
(* report is what the exchange did for that very call, and every order     *)
(* that getOrder or getAllOrders reports exists, whatever is refused,      *)
(* malformed or lost on the way.                                           *)
THEOREM OutcomesAreTrue == Spec => []OutcomeIsTrue
<1>1. IInv => OutcomeIsTrue
  BY DEF IInv, Solo, Truthful, Truth, OutcomeIsTrue
<1> QED
  BY <1>1, Invariance, PTL

(* Session::get, post and del: as long as one thread makes the calls, the  *)
(* shared connection is empty whenever no call uses it, so that the next   *)
(* answer that is read from it is the answer to the next request.          *)
THEOREM SharedConnectionStaysInStep == Spec => []ConnectionInStep
<1>1. IInv => ConnectionInStep
  <2> SUFFICES ASSUME Solo, ~overlapped, process = "up",
                      \A t \in Threads : pc[t] = "idle" \/ Connection(t) # Shared
               PROVE  wire[Shared] = <<>> /\ answers[Shared] = <<>>
    BY DEF IInv, ConnectionInStep
  <2>1. Shared \in Connections
    BY DEF Connections
  <2> QED
    BY <2>1 DEF Solo, InStep, Quiet
<1> QED
  BY <1>1, Invariance, PTL

(* uniqueOrderId_++ in placeOrder: with one thread, no two orders carry    *)
(* the same client order id, however many of the placements are refused or *)
(* go unanswered.                                                          *)
THEOREM ClientIdsStayDistinct == Spec => []ClientIdsDistinct
<1>1. IInv => ClientIdsDistinct
  BY DEF IInv, Solo, ClientIds, ClientIdsDistinct
<1> QED
  BY <1>1, Invariance, PTL

-----------------------------------------------------------------------------
(* Isolated requests, whatever other threads do meanwhile.                 *)

(* The call of t has, or had, a connection of its own. *)
Sole(t) == call[t] # NoCall /\ call[t].op \in Isolated

(* The connection named for t carries nothing but the isolated call of t. *)
Own(t) ==
  process = "up" =>
    /\ Quiet(t) \/ (pc[t] = "receive" /\ Sole(t))
    /\ pc[t] = "receive" /\ Sole(t) => Waiting(t, t)
    /\ pc[t] \notin {"idle", "receive"} /\ Sole(t) => Untouched(t)

Reported(t) == Finished(t) /\ Sole(t) => Truth(call[t], result[t].ids)

(* A request on the shared connection is nobody's isolated call. *)
Foreign(r) == r.number <= calls /\ \A t \in Threads : Sole(t) => r.number # call[t].number

Strangers == \A i \in 1 .. Len(wire[Shared]) : Foreign(wire[Shared][i])

Apart ==
  /\ Numbered
  /\ Strangers
  /\ \A t \in Threads : Own(t) /\ Reported(t)

LEMMA InitApart == Init => Apart
<1> SUFFICES ASSUME Init
             PROVE  Apart
  OBVIOUS
<1>1. /\ \A t \in Threads : call[t] = NoCall /\ pc[t] = "idle"
      /\ \A c \in Connections : Quiet(c)
      /\ \A n \in 1 .. MaxCalls : effects[n] = {}
  BY DEF Init, SessionInit, Quiet
<1>2. Numbered
  BY <1>1 DEF Numbered
<1>3. Len(wire[Shared]) = 0
  BY <1>1 DEF Quiet, Connections
<1>4. \A t \in Threads : Own(t) /\ Reported(t)
  BY <1>1 DEF Own, Reported, Sole, Connections
<1> QED
  BY <1>2, <1>3, <1>4 DEF Apart, Strangers

(* A step that leaves thread u and its connection alone. *)
LEMMA LeftAlone ==
  ASSUME Types, NEW u \in Threads, Own(u), Reported(u),
         pc'[u] = pc[u], call'[u] = call[u], result'[u] = result[u],
         process' = "up" => /\ process = "up" /\ (u \in up' <=> u \in up)
                            /\ wire'[u] = wire[u] /\ answers'[u] = answers[u],
         \A o \in OrderIds : state[o] # "none" => state'[o] # "none",
         Sole(u) => effects'[call[u].number] = effects[call[u].number]
  PROVE  Own(u)' /\ Reported(u)'
<1>1. Sole(u)' <=> Sole(u)
  BY DEF Sole
<1>2. Sole(u) => call[u].op \in {"get", "cancel", "cancelProduct"} /\ call[u].op \in Operations
  BY DEF Sole, Isolated, Operations
<1>3. Sole(u) /\ Untouched(u) => Untouched(u)'
  BY <1>2 DEF Untouched
<1>4. result[u].ids \subseteq OrderIds
  BY DEF Types, ClientTypes
<1>5. Reported(u)'
  <2> SUFFICES ASSUME Finished(u)', Sole(u)'
               PROVE  Truth(call[u], result[u].ids)'
    BY DEF Reported
  <2>1. Finished(u) /\ Sole(u)
    BY <1>1 DEF Finished
  <2>2. Truth(call[u], result[u].ids)
    BY <2>1 DEF Reported
  <2>3. \A o \in result[u].ids : state[o] # "none" => state'[o] # "none"
    BY <1>4
  <2> QED
    BY <1>2, <2>1, <2>2, <2>3 DEF Truth
<1>6. Own(u)'
  <2> SUFFICES ASSUME process' = "up"
               PROVE  /\ Quiet(u)' \/ (pc'[u] = "receive" /\ Sole(u)')
                      /\ pc'[u] = "receive" /\ Sole(u)' => Waiting(u, u)'
                      /\ pc'[u] \notin {"idle", "receive"} /\ Sole(u)' => Untouched(u)'
    BY DEF Own
  <2>1. Quiet(u)' <=> Quiet(u)
    BY DEF Quiet
  <2>2. ASSUME pc[u] = "receive", Sole(u)
        PROVE  Waiting(u, u)'
    <3>1. Waiting(u, u)
      BY <2>2 DEF Own
    <3>2. ASSUME Len(answers[u]) = 1, Tells(call[u], Understood(call[u].op, answers[u][1]))
          PROVE  Tells(call[u], Understood(call[u].op, answers[u][1]))'
      <4> DEFINE told == Understood(call[u].op, answers[u][1])
      <4>1. answers[u] \in Seq(Bodies)
        BY DEF Types, SessionTypes, Connections
      <4>2. answers[u][1] \in Bodies
        BY <3>2, <4>1
      <4>3. told = Aborted \/ told.ids \subseteq OrderIds
        BY <1>2, <2>2, <4>2, UnderstoodTypes
      <4>4. told' = told
        OBVIOUS
      <4>5. told = Aborted \/ told.code = "exception" \/ Truth(call[u], told.ids)
        BY <3>2 DEF Tells
      <4> HIDE DEF told
      <4>6. CASE Truth(call[u], told.ids) /\ told # Aborted
        <5>1. \A o \in told.ids : state[o] # "none" => state'[o] # "none"
          BY <4>3, <4>6
        <5>2. Truth(call[u], told.ids)'
          BY <1>2, <2>2, <4>4, <4>6, <5>1 DEF Truth
        <5> QED
          BY <4>4, <5>2 DEF Tells, told
      <4> QED
        BY <4>4, <4>5, <4>6 DEF Tells, told
    <3> QED
      BY <1>3, <2>1, <2>2, <3>1, <3>2 DEF Waiting
  <2> QED
    BY <1>1, <1>3, <2>1, <2>2 DEF Own
<1> QED
  BY <1>5, <1>6

(* A request that is on the shared connection after a step. *)
Later(r) == r.number <= calls' /\ \A t \in Threads : Sole(t)' => r.number # call'[t].number

LEMMA StillStrangers ==
  ASSUME \A i \in 1 .. Len(wire'[Shared]) : Later(wire'[Shared][i])
  PROVE  Strangers'
BY DEF Strangers, Foreign, Later

(* A step of thread t that changes nothing at the exchange: what is on     *)
(* other connections stays, and t itself is accounted for.                 *)
LEMMA OwnStep ==
  ASSUME Types, Apart, NEW t \in Threads, UNCHANGED <<state, clientOids, effects, calls>>,
         process' = "up" => process = "up",
         \A u \in Threads \ {t} :
           /\ pc'[u] = pc[u] /\ call'[u] = call[u] /\ result'[u] = result[u]
           /\ process' = "up" => /\ u \in up' <=> u \in up
                                 /\ wire'[u] = wire[u] /\ answers'[u] = answers[u],
         /\ call'[t].number = call[t].number /\ call'[t].op = call[t].op
         /\ call'[t] = NoCall <=> call[t] = NoCall,
         \/ wire'[Shared] = wire[Shared]
         \/ /\ call[t] # NoCall /\ ~Sole(t) /\ call[t].number <= calls
            /\ wire[Shared] \in Seq(Requests)
            /\ wire'[Shared] = Append(wire[Shared], call[t]),
         Own(t)' /\ Reported(t)'
  PROVE  Apart'
<1>1. \A u \in Threads : Sole(u)' <=> Sole(u)
  BY DEF Sole
<1>2. \A u \in Threads : call'[u].number = call[u].number /\ (call'[u] = NoCall <=> call[u] = NoCall)
  OBVIOUS
<1>3. Numbered'
  BY <1>2 DEF Apart, Numbered
<1>4. ASSUME NEW r, Foreign(r)
      PROVE  Later(r)
  BY <1>1, <1>2, <1>4 DEF Foreign, Later
<1>5. Strangers'
  <2>1. CASE wire'[Shared] = wire[Shared]
    BY <1>4, <2>1, StillStrangers DEF Apart, Strangers
  <2>2. CASE /\ call[t] # NoCall /\ ~Sole(t) /\ call[t].number <= calls
             /\ wire[Shared] \in Seq(Requests)
             /\ wire'[Shared] = Append(wire[Shared], call[t])
    <3>1. Foreign(call[t])
      BY <2>2 DEF Foreign, Apart, Numbered
    <3>2. /\ Len(wire'[Shared]) = Len(wire[Shared]) + 1 /\ Len(wire[Shared]) \in Nat
          /\ \A i \in 1 .. Len(wire[Shared]) : wire'[Shared][i] = wire[Shared][i]
          /\ wire'[Shared][Len(wire[Shared]) + 1] = call[t]
      BY <2>2
    <3>3. \A i \in 1 .. Len(wire'[Shared]) : Foreign(wire'[Shared][i])
      BY <3>1, <3>2 DEF Apart, Strangers
    <3> QED
      BY <1>4, <3>3, StillStrangers
  <2> QED
    BY <2>1, <2>2
<1>6. ASSUME NEW u \in Threads
      PROVE  Own(u)' /\ Reported(u)'
  <2>1. CASE u = t
    BY <2>1
  <2>2. CASE u # t
    BY <2>2, LeftAlone DEF Apart
  <2> QED
    BY <2>1, <2>2
<1> QED
  BY <1>3, <1>5, <1>6 DEF Apart

(* The connection of an isolated call, and of any other. *)
LEMMA OwnConnection ==
  ASSUME Types, NEW t \in Threads, pc[t] # "idle"
  PROVE  /\ call[t] # NoCall /\ call[t].number <= calls /\ t # Shared
         /\ Sole(t) => Connection(t) = t
         /\ ~Sole(t) => Connection(t) = Shared
BY SessionAssumption DEF Types, ClientTypes, Sole, Connection

(* An isolated call shares its connection with nobody. *)
LEMMA Uncontended ==
  ASSUME NEW t \in Threads, Connection(t) = t
  PROVE  ~Contended(t)
BY SessionAssumption DEF Contended, Connection

LEMMA ThrowApart ==
  ASSUME Types, Apart, NEW t \in Threads, process = "up", pc[t] # "idle", Throw(t)
  PROVE  Apart'
<1>1. /\ t # Shared /\ Sole(t) => Connection(t) = t
      /\ ~Sole(t) => Connection(t) = Shared
  BY OwnConnection
<1>2. /\ UNCHANGED <<state, clientOids, effects, calls, call, process>>
      /\ result' = [result EXCEPT ![t] = [code |-> "exception", ids |-> {}]]
      /\ pc' = [pc EXCEPT ![t] = "idle"]
  BY DEF Throw, Goto, exchangeVars
<1>3. /\ pc'[t] = "idle" /\ result'[t].code = "exception"
      /\ \A u \in Threads \ {t} : pc'[u] = pc[u] /\ result'[u] = result[u]
  BY <1>2 DEF Types, ClientTypes
<1>4. /\ \A c \in Connections \ {t} : /\ c \in up' <=> c \in up
                                      /\ wire'[c] = wire[c] /\ answers'[c] = answers[c]
      /\ Quiet(t)'
  <2>1. CASE Sole(t)
    <3>1. /\ up' = up \ {t} /\ wire' = [wire EXCEPT ![t] = <<>>]
          /\ answers' = [answers EXCEPT ![t] = <<>>]
      BY <1>1, <2>1, OwnConnection DEF Throw, Close
    <3> QED
      BY <3>1 DEF Quiet, Types, SessionTypes, Connections
  <2>2. CASE ~Sole(t)
    <3>1. UNCHANGED <<up, wire, answers>>
      BY <1>1, <2>2 DEF Throw, Close
    <3>2. Quiet(t)
      BY <2>2 DEF Apart, Own
    <3> QED
      BY <3>1, <3>2 DEF Quiet
  <2> QED
    BY <2>1, <2>2
<1>5. Own(t)' /\ Reported(t)'
  BY <1>3, <1>4 DEF Own, Reported, Finished
<1>6. Shared \in Connections \ {t} /\ Threads \subseteq Connections
  BY OwnConnection DEF Connections
<1> QED
  BY <1>2, <1>3, <1>4, <1>5, <1>6, OwnStep

LEMMA BeginApart ==
  ASSUME Types, Apart, NEW t \in Threads, NEW op \in Operations, NEW o \in Arguments(op),
         Begin(t, op, o)
  PROVE  Apart'
<1> DEFINE k == [op |-> op, order |-> o, number |-> calls + 1,
                 clientId |-> uniqueOrderId, isSigned |-> FALSE]
<1>1. /\ process = "up" /\ pc[t] = "idle" /\ calls < MaxCalls /\ calls' = calls + 1
      /\ call' = [call EXCEPT ![t] = k] /\ result' = [result EXCEPT ![t] = NoResult]
      /\ pc' = [pc EXCEPT ![t] = IF op = "place" THEN "count" ELSE AfterBody(op)]
      /\ UNCHANGED <<up, wire, answers, state, clientOids, effects, process>>
  BY DEF Begin, Goto, At, sessionVars, exchangeVars
<1>2. MaxCalls \in Nat /\ calls \in 0 .. MaxCalls
  BY OrdersAssumption DEF Types, ClientTypes
<1>3. k # NoCall /\ k.number = calls + 1 /\ k.op = op
  BY <1>2 DEF NoCall
<1> HIDE DEF k
<1>4. /\ call'[t] = k /\ pc'[t] \notin {"idle", "receive"}
      /\ \A u \in Threads \ {t} : call'[u] = call[u] /\ pc'[u] = pc[u] /\ result'[u] = result[u]
  BY <1>1 DEF Types, ClientTypes, AfterBody
<1>5. \A u \in Threads : call[u].number \in Nat /\ call[u].number <= calls
  BY OrdersAssumption DEF Types, ClientTypes, Requests, Calls, NoCall
<1>6. Numbered'
  <2>1. ASSUME NEW u \in Threads, NEW v \in Threads, u # v, call'[u] # NoCall
        PROVE  call'[u].number # call'[v].number
    <3>1. CASE u = t
      BY <1>2, <1>3, <1>4, <1>5, <2>1, <3>1
    <3>2. CASE v = t
      BY <1>2, <1>3, <1>4, <1>5, <2>1, <3>2
    <3>3. CASE u # t /\ v # t
      BY <1>4, <2>1, <3>3 DEF Apart, Numbered
    <3> QED
      BY <3>1, <3>2, <3>3
  <2>2. \A n \in 1 .. MaxCalls : n > calls' => effects'[n] = {}
    BY <1>1, <1>2 DEF Apart, Numbered
  <2> QED
    BY <2>1, <2>2 DEF Numbered
<1>7. Strangers'
  <2> SUFFICES ASSUME NEW i \in 1 .. Len(wire[Shared])
               PROVE  Later(wire[Shared][i])
    BY <1>1, StillStrangers
  <2> DEFINE r == wire[Shared][i]
  <2>1. wire[Shared] \in Seq(Requests)
    BY DEF Types, SessionTypes, Connections
  <2>2. r \in Requests
    BY <2>1
  <2>3. r.number \in Nat /\ Foreign(r)
    BY <2>2 DEF Requests, Calls, Apart, Strangers
  <2> HIDE DEF r
  <2>5. r.number <= calls /\ \A u \in Threads : Sole(u) => r.number # call[u].number
    BY <2>3 DEF Foreign
  <2>6. r.number <= calls'
    BY <1>1, <1>2, <2>3, <2>5
  <2>7. ASSUME NEW u \in Threads, Sole(u)'
        PROVE  r.number # call'[u].number
    <3>1. CASE u = t
      BY <1>2, <1>3, <1>4, <2>3, <2>5, <3>1
    <3>2. CASE u # t
      BY <1>4, <2>5, <2>7, <3>2 DEF Sole
    <3> QED
      BY <3>1, <3>2
  <2>8. Later(r)
    BY <2>6, <2>7 DEF Later
  <2> QED
    BY <2>8 DEF r
<1>8. ASSUME NEW u \in Threads
      PROVE  Own(u)' /\ Reported(u)'
  <2>1. CASE u = t
    <3>1. Quiet(t)'
      BY <1>1 DEF Apart, Own, Quiet
    <3>2. Sole(t)' => Untouched(t)'
      <4>1. effects'[call'[t].number] = {}
        BY <1>1, <1>2, <1>3, <1>4 DEF Apart, Numbered
      <4>2. Sole(t)' => call'[t].op # "place"
        BY DEF Sole, Isolated
      <4> QED
        BY <4>1, <4>2 DEF Untouched
    <3> QED
      BY <1>4, <2>1, <3>1, <3>2 DEF Own, Reported, Finished
  <2>2. CASE u # t
    BY <1>1, <1>4, <2>2, LeftAlone DEF Apart
  <2> QED
    BY <2>1, <2>2
<1> QED
  BY <1>6, <1>7, <1>8 DEF Apart

LEMMA OpenApart ==
  ASSUME Types, Apart, NEW t \in Threads, Open(t)
  PROVE  Apart'
<1>1. process = "up" /\ pc[t] = "connect"
  BY DEF Open, At
<1>2. CASE Throw(t)
  BY <1>1, <1>2, ThrowApart
<1>3. CASE ~Throw(t)
  <2>1. /\ pc' = [pc EXCEPT ![t] = "sign"] /\ up' = up \cup {t}
        /\ UNCHANGED <<wire, answers, state, clientOids, effects, process, call, result, calls>>
    BY <1>3 DEF Open, Connect, Goto, exchangeVars
  <2>2. /\ pc'[t] = "sign" /\ \A u \in Threads \ {t} : pc'[u] = pc[u]
    BY <2>1 DEF Types, ClientTypes
  <2>3. Own(t)' /\ Reported(t)'
    BY <1>1, <2>1, <2>2 DEF Apart, Own, Reported, Finished, Quiet, Sole, Untouched
  <2> QED
    BY <2>1, <2>2, <2>3, OwnStep
<1> QED
  BY <1>2, <1>3

(* A step of t between the start of a call and its request. *)
LEMMA BeforeTheRequest ==
  ASSUME Types, Apart, NEW t \in Threads, pc[t] \notin {"idle", "receive"},
         pc'[t] \notin {"idle", "receive"},
         \A u \in Threads \ {t} : pc'[u] = pc[u] /\ call'[u] = call[u],
         /\ call'[t].number = call[t].number /\ call'[t].op = call[t].op
         /\ call'[t].clientId = call[t].clientId /\ call'[t] # NoCall,
         UNCHANGED <<up, wire, answers, state, clientOids, effects, process, result, calls>>
  PROVE  Apart'
<1>1. call[t] # NoCall
  BY OwnConnection
<1>2. Own(t)' /\ Reported(t)'
  <2>1. Own(t) /\ (Sole(t)' => Sole(t))
    BY <1>1 DEF Apart, Sole
  <2>2. Untouched(t) => Untouched(t)'
    BY DEF Untouched
  <2> QED
    BY <2>1, <2>2 DEF Own, Reported, Finished, Quiet
<1> QED
  BY <1>1, <1>2, OwnStep

LEMMA AbortApart ==
  ASSUME Types, Apart, NEW t \in Threads, pc[t] # "idle", Abort(t)
  PROVE  Apart'
<1>1. /\ process' = "aborted"
      /\ UNCHANGED <<wire, state, clientOids, effects, pc, call, result, calls>>
  BY DEF Abort, exchangeVars
<1>2. Own(t)' /\ Reported(t)'
  BY <1>1 DEF Own, Reported, Finished
<1> QED
  BY <1>1, <1>2, OwnStep

LEMMA SendApart ==
  ASSUME Types, Apart, NEW t \in Threads, Send(t)
  PROVE  Apart'
<1>1. process = "up" /\ pc[t] = "send"
  BY DEF Send, At
<1>2. CASE Throw(t)
  BY <1>1, <1>2, ThrowApart
<1>3. CASE ~Throw(t)
  <2> DEFINE c == Connection(t)
             k == call[t]
  <2>1. /\ Write(c, k) /\ pc' = [pc EXCEPT ![t] = "receive"]
        /\ UNCHANGED <<state, clientOids, effects, process, call, result, calls>>
    BY <1>3 DEF Send, Goto, exchangeVars
  <2>2. /\ k # NoCall /\ k.number <= calls /\ t # Shared
        /\ Sole(t) => c = t
        /\ ~Sole(t) => c = Shared
    BY <1>1, OwnConnection
  <2>3. /\ pc'[t] = "receive" /\ \A u \in Threads \ {t} : pc'[u] = pc[u]
    BY <2>1 DEF Types, ClientTypes
  <2>4. c \in up /\ wire' = [wire EXCEPT ![c] = Append(wire[c], k)] /\ UNCHANGED <<up, answers>>
    BY <2>1 DEF Write
  <2>5. Quiet(t) /\ (Sole(t) => Untouched(t))
    BY <1>1 DEF Apart, Own
  <2>6. (Sole(t)' <=> Sole(t)) /\ (Untouched(t)' <=> Untouched(t)) /\ call'[t] = k
    BY <2>1 DEF Sole, Untouched
  <2> HIDE DEF c, k
  <2>7. CASE Sole(t)
    <3>1. wire'[t] = <<k>> /\ \A d \in Connections \ {t} : wire'[d] = wire[d]
      <4>1. wire[t] = <<>> /\ Append(<<>>, k) = <<k>>
        BY <2>5 DEF Quiet
      <4> QED
        BY <2>2, <2>4, <2>7, <4>1 DEF Types, SessionTypes, Connections
    <3>2. Waiting(t, t)'
      BY <2>2, <2>4, <2>5, <2>6, <2>7, <3>1 DEF Waiting, Quiet
    <3>3. Own(t)' /\ Reported(t)'
      BY <2>3, <2>6, <2>7, <3>2 DEF Own, Reported, Finished
    <3>4. wire'[Shared] = wire[Shared]
      BY <2>2, <3>1 DEF Connections
    <3> QED
      BY <2>1, <2>3, <2>4, <3>1, <3>3, <3>4, OwnStep DEF Connections
  <2>8. CASE ~Sole(t)
    <3>1. /\ wire'[Shared] = Append(wire[Shared], k) /\ wire[Shared] \in Seq(Requests)
          /\ \A d \in Threads : wire'[d] = wire[d]
      BY <2>2, <2>4, <2>8, SessionAssumption DEF Types, SessionTypes, Connections
    <3>2. Own(t)' /\ Reported(t)'
      BY <2>3, <2>4, <2>5, <2>6, <2>8, <3>1 DEF Own, Reported, Finished, Quiet
    <3> QED
      BY <2>1, <2>2, <2>3, <2>4, <2>8, <3>1, <3>2, OwnStep DEF k
  <2> QED
    BY <2>7, <2>8
<1> QED
  BY <1>2, <1>3

LEMMA ReceiveApart ==
  ASSUME Types, Apart, NEW t \in Threads, Receive(t)
  PROVE  Apart'
<1> DEFINE c == Connection(t)
           outcome == Understood(call[t].op, Head(answers[c]))
<1>1. process = "up" /\ pc[t] = "receive"
  BY DEF Receive, At
<1>2. /\ call[t] # NoCall /\ t # Shared /\ c \in Connections
      /\ Sole(t) => c = t
      /\ ~Sole(t) => c = Shared
  BY <1>1, OwnConnection DEF Connections
<1>3. CASE Read(c) /\ Abort(t)
  BY <1>1, <1>3, AbortApart
<1>4. CASE /\ \/ c \notin up /\ answers[c] = <<>>
              \/ Contended(t)
           /\ Throw(t)
  BY <1>1, <1>4, ThrowApart
<1>5. CASE Read(c) /\ Return(t, outcome) /\ outcome \in [code : Codes, ids : SUBSET OrderIds]
  <2>1. answers[c] # <<>> /\ answers' = [answers EXCEPT ![c] = Tail(answers[c])]
    BY <1>2, <1>5, ReadTypes
  <2>2. Own(t) /\ (Sole(t) => Waiting(t, t))
    BY <1>1 DEF Apart, Own
  <2>3. Sole(t) => /\ wire[t] = <<>> /\ Len(answers[t]) = 1
                   /\ Tells(call[t], Understood(call[t].op, answers[t][1]))
    BY <1>2, <2>1, <2>2 DEF Waiting, Quiet
  <2>4. outcome # Aborted
    BY <1>5 DEF Aborted, Codes
  <2>5. Sole(t) => outcome.code = "exception" \/ Truth(call[t], outcome.ids)
    <3> SUFFICES ASSUME Sole(t)
                 PROVE  outcome.code = "exception" \/ Truth(call[t], outcome.ids)
      OBVIOUS
    <3>1. Head(answers[c]) = answers[t][1]
      BY <1>2, <2>3 DEF Types, SessionTypes
    <3> QED
      BY <2>3, <2>4, <3>1 DEF Tells
  <2> HIDE DEF c, outcome
  <2>6. /\ result' = [result EXCEPT ![t] = outcome] /\ pc' = [pc EXCEPT ![t] = "idle"]
        /\ UNCHANGED <<state, clientOids, effects, process, call, calls>>
        /\ Close(c)
    BY <1>5 DEF Return, Goto, exchangeVars, c
  <2>7. /\ pc'[t] = "idle" /\ result'[t] = outcome
        /\ \A u \in Threads \ {t} : pc'[u] = pc[u] /\ result'[u] = result[u]
    BY <2>6 DEF Types, ClientTypes
  <2>8. (Sole(t)' <=> Sole(t)) /\ \A ids : Truth(call[t], ids)' <=> Truth(call[t], ids)
    BY <2>6 DEF Sole, Truth
  <2>9. Reported(t)'
    <3>1. CASE outcome.code = "exception"
      BY <2>7, <3>1 DEF Reported, Finished
    <3>2. CASE Truth(call[t], outcome.ids)
      BY <2>6, <2>7, <3>2 DEF Reported, Truth
    <3>3. CASE ~Sole(t)
      BY <2>8, <3>3 DEF Reported
    <3> QED
      BY <2>5, <3>1, <3>2, <3>3
  <2>10. /\ \A d \in Connections \ {t} : wire'[d] = wire[d] /\ (d \in up' <=> d \in up)
         /\ \A d \in Threads \ {t} : answers'[d] = answers[d]
         /\ Quiet(t)'
    <3>1. CASE Sole(t)
      <4>1. /\ c = t /\ up' = up \ {t} /\ wire' = [wire EXCEPT ![t] = <<>>]
            /\ answers' = [answers EXCEPT ![t] = Tail(answers[t])]
        BY <1>2, <2>1, <2>6, <3>1 DEF Close, c
      <4>2. Tail(answers[t]) = <<>>
        <5>1. answers[t] \in Seq(Bodies) /\ Len(answers[t]) = 1
          BY <2>3, <3>1 DEF Types, SessionTypes, Connections
        <5>2. answers[t] # <<>>
          BY <1>2, <2>1, <3>1
        <5>3. Tail(answers[t]) \in Seq(Bodies) /\ Len(Tail(answers[t])) = 1 - 1
          BY <5>1, <5>2, HeadTailProperties
        <5>4. Len(Tail(answers[t])) = 0 /\ \A q \in Seq(Bodies) : q # <<>> => Len(q) # 0
          BY <5>3
        <5> QED
          BY <5>3, <5>4, Zenon
      <4> QED
        BY <4>1, <4>2 DEF Quiet, Types, SessionTypes, Connections
    <3>2. CASE ~Sole(t)
      <4>1. /\ c = Shared /\ UNCHANGED <<up, wire>>
            /\ \A d \in Threads : answers'[d] = answers[d]
        BY <1>2, <2>1, <2>6, <3>2, SessionAssumption DEF Close, c, Types, SessionTypes, Connections
      <4>2. Quiet(t)
        BY <1>1, <2>2, <3>2 DEF Own
      <4> QED
        BY <4>1, <4>2 DEF Quiet
    <3> QED
      BY <3>1, <3>2
  <2>11. Own(t)'
    BY <2>7, <2>10 DEF Own
  <2>12. wire'[Shared] = wire[Shared]
    BY <1>2, <2>10 DEF Connections
  <2> QED
    BY <2>6, <2>7, <2>9, <2>10, <2>11, <2>12, OwnStep DEF Connections
<1> QED
  BY <1>3, <1>4, <1>5, Receiving

(* A request that the exchange takes off connection c belongs to an        *)
(* isolated call if c does, and else to none.                              *)
LEMMA Taken ==
  ASSUME Types, Apart, process = "up", NEW c \in Connections, wire[c] # <<>>
  PROVE  /\ Head(wire[c]).number <= calls
         /\ \A u \in Threads : Sole(u) /\ u # c => Head(wire[c]).number # call[u].number
         /\ c \in Threads => /\ pc[c] = "receive" /\ Sole(c) /\ c \in up
                             /\ wire[c] = <<call[c]>> /\ answers[c] = <<>> /\ Untouched(c)
<1>1. wire[c] \in Seq(Requests)
  BY DEF Types, SessionTypes
<1>2. Head(wire[c]) = wire[c][1] /\ 1 \in 1 .. Len(wire[c])
  BY <1>1
<1>3. CASE c = Shared
  BY <1>2, <1>3, SessionAssumption DEF Apart, Strangers, Foreign
<1>4. CASE c \in Threads
  <2>1. pc[c] = "receive" /\ Sole(c) /\ Waiting(c, c)
    BY <1>4 DEF Apart, Own, Quiet
  <2>2. wire[c] = <<call[c]>> /\ answers[c] = <<>> /\ c \in up /\ Untouched(c)
    BY <2>1 DEF Waiting, Quiet
  <2>3. Head(wire[c]) = call[c]
    BY <1>2, <2>2
  <2>4. call[c].number <= calls /\ call[c] # NoCall
    BY <1>4, <2>1, OwnConnection
  <2>5. \A u \in Threads : u # c => call[c].number # call[u].number
    BY <1>4, <2>4 DEF Apart, Numbered
  <2> QED
    BY <2>1, <2>2, <2>3, <2>4, <2>5
<1> QED
  BY <1>3, <1>4 DEF Connections

LEMMA ServeApart ==
  ASSUME Types, Apart, process = "up", NEW c \in Connections, Serve(c)
  PROVE  Apart'
<1>1. PICK r, ids, s, body : Serving(c, r, ids, s, body)
  BY ServeCases
<1>2. UNCHANGED <<process, pc, call, result, calls>>
  BY <1>1 DEF Serving, clientVars
<1>3. /\ wire[c] # <<>> /\ r = Head(wire[c]) /\ r \in Requests /\ body \in Bodies
      /\ state' = [o \in OrderIds |-> IF o \in ids THEN s ELSE state[o]]
      /\ effects' = [effects EXCEPT ![r.number] = effects[r.number] \cup ids]
      /\ s \in {"open", "done"} /\ ids \subseteq OrderIds
  BY <1>1 DEF Serving
<1>4. /\ wire' = [wire EXCEPT ![c] = Tail(wire[c])]
      /\ answers' = [answers EXCEPT ![c] = Append(answers[c], body)] /\ up' = up
  BY <1>1 DEF Serving, Answer
<1>5. /\ wire'[c] = Tail(wire[c]) /\ answers'[c] = Append(answers[c], body)
      /\ \A d \in Connections \ {c} : wire'[d] = wire[d] /\ answers'[d] = answers[d]
  BY <1>4 DEF Types, SessionTypes
<1>6. \A o \in OrderIds : state[o] # "none" => state'[o] # "none"
  BY <1>3
<1>7. /\ r.number \in 1 .. MaxCalls /\ wire[c] \in Seq(Requests)
      /\ \A n \in 1 .. MaxCalls : n # r.number => effects'[n] = effects[n]
      /\ effects'[r.number] = effects[r.number] \cup ids
  BY <1>3 DEF Types, ExchangeTypes, SessionTypes, Requests, Calls
<1>8. \A u \in Threads : Sole(u) => call[u].number \in 1 .. MaxCalls
  BY DEF Types, ClientTypes, Requests, Calls, Sole
<1>9. /\ r.number <= calls
      /\ \A u \in Threads : Sole(u) /\ u # c => r.number # call[u].number
      /\ c \in Threads => /\ pc[c] = "receive" /\ Sole(c) /\ c \in up
                          /\ wire[c] = <<call[c]>> /\ answers[c] = <<>> /\ Untouched(c)
  BY <1>3, Taken
<1>10. Numbered'
  <2>1. \A n \in 1 .. MaxCalls : n > calls => effects'[n] = {}
    <3>1. calls \in Nat
      BY OrdersAssumption DEF Types, ClientTypes
    <3> QED
      BY <1>7, <1>9, <3>1 DEF Apart, Numbered
  <2> QED
    BY <1>2, <2>1 DEF Apart, Numbered
<1>11. Strangers'
  <2>1. \A q : Foreign(q) => Later(q)
    BY <1>2 DEF Foreign, Later, Sole
  <2>2. CASE c # Shared
    <3>1. wire'[Shared] = wire[Shared]
      BY <1>5, <2>2 DEF Connections
    <3> QED
      BY <2>1, <3>1, StillStrangers DEF Apart, Strangers
  <2>3. CASE c = Shared
    <3>1. /\ Len(Tail(wire[Shared])) = Len(wire[Shared]) - 1 /\ Len(wire[Shared]) \in Nat
          /\ \A i \in 1 .. Len(Tail(wire[Shared])) : Tail(wire[Shared])[i] = wire[Shared][i + 1]
      BY <1>3, <1>7, <2>3
    <3>2. ASSUME NEW i \in 1 .. Len(wire'[Shared])
          PROVE  Later(wire'[Shared][i])
      <4>1. i + 1 \in 1 .. Len(wire[Shared]) /\ wire'[Shared][i] = wire[Shared][i + 1]
        <5>1. wire'[Shared] = Tail(wire[Shared])
          BY <1>5, <2>3
        <5>2. i \in 1 .. (Len(wire[Shared]) - 1)
          BY <3>1, <5>1
        <5> QED
          BY <3>1, <5>1, <5>2
      <4>2. Foreign(wire[Shared][i + 1])
        BY <4>1 DEF Apart, Strangers
      <4> QED
        BY <2>1, <4>1, <4>2
    <3> QED
      BY <3>2, StillStrangers
  <2> QED
    BY <2>2, <2>3
<1>12. ASSUME NEW u \in Threads
       PROVE  Own(u)' /\ Reported(u)'
  <2>1. CASE u # c
    <3>1. Own(u) /\ Reported(u) /\ u \in Connections \ {c}
      BY <2>1 DEF Apart, Connections
    <3>2. Sole(u) => effects'[call[u].number] = effects[call[u].number]
      BY <1>7, <1>8, <1>9, <2>1
    <3> QED
      BY <1>2, <1>4, <1>5, <1>6, <3>1, <3>2, LeftAlone
  <2>2. CASE u = c
    <3>1. /\ pc[u] = "receive" /\ Sole(u) /\ u \in up
          /\ wire[u] = <<call[u]>> /\ answers[u] = <<>> /\ effects[call[u].number] = {}
      BY <1>9, <2>2 DEF Untouched
    <3>2. r = call[u] /\ effects'[r.number] = ids
      <4>1. Head(<<call[u]>>) = call[u]
        OBVIOUS
      <4>2. r = call[u]
        BY <1>3, <2>2, <3>1, <4>1
      <4> QED
        BY <1>7, <3>1, <4>2
    <3>3. wire'[u] = <<>> /\ answers'[u] = <<body>> /\ Len(<<body>>) = 1 /\ <<body>>[1] = body
      <4>1. Tail(<<call[u]>>) = <<>> /\ Append(<<>>, body) = <<body>>
        OBVIOUS
      <4> QED
        BY <1>5, <2>2, <3>1, <4>1
    <3>4. Tells(call[u], Understood(call[u].op, body))'
      <4> DEFINE told == Understood(r.op, body)
      <4>1. \/ told = Aborted
            \/ told.code = "exception"
            \/ CASE r.op \in {"get", "list"} -> \A o \in told.ids : state[o] # "none"
                 [] r.op = "cancel" -> TRUE
                 [] OTHER -> told.ids = ids
        BY <1>1 DEF Serving
      <4>2. told = Aborted \/ told.ids \subseteq OrderIds
        <5>1. r.op \in Operations
          BY <1>3 DEF Requests, Calls
        <5> QED
          BY <1>3, <5>1, UnderstoodTypes
      <4>3. told = Understood(call'[u].op, body) /\ call'[u] = r
        BY <1>2, <3>2
      <4> HIDE DEF told
      <4>4. \/ told = Aborted
            \/ told.code = "exception"
            \/ CASE r.op \in {"get", "list"} -> \A o \in told.ids : state'[o] # "none"
                 [] r.op = "cancel" -> TRUE
                 [] OTHER -> told.ids = effects'[r.number]
        BY <1>6, <3>2, <4>1, <4>2
      <4>5. Tells(r, told)'
        BY <1>2, <3>2, <4>3, <4>4 DEF Tells, Truth
      <4> QED
        BY <3>2, <4>3, <4>5
    <3>5. Waiting(u, u)'
      BY <3>3, <3>4 DEF Waiting
    <3>6. pc'[u] = "receive" /\ Sole(u)'
      BY <1>2, <3>1 DEF Sole
    <3> QED
      BY <3>5, <3>6 DEF Own, Reported, Finished
  <2> QED
    BY <2>1, <2>2
<1> QED
  BY <1>10, <1>11, <1>12 DEF Apart

LEMMA LoseApart ==
  ASSUME Types, Apart, process = "up", NEW c \in Connections, LoseConnection(c)
  PROVE  Apart'
<1>1. /\ c \in up /\ up' = up \ {c} /\ wire' = [wire EXCEPT ![c] = <<>>]
      /\ answers' = answers \/ answers' = [answers EXCEPT ![c] = <<>>]
      /\ UNCHANGED <<process, pc, call, result, calls, state, clientOids, effects>>
  BY DEF LoseConnection, Lose, clientVars, exchangeVars
<1>2. /\ wire'[c] = <<>> /\ (answers'[c] = answers[c] \/ answers'[c] = <<>>)
      /\ \A d \in Connections \ {c} : wire'[d] = wire[d] /\ answers'[d] = answers[d]
  BY <1>1 DEF Types, SessionTypes
<1>3. Numbered'
  BY <1>1 DEF Apart, Numbered
<1>4. Strangers'
  <2>1. \A q : Foreign(q) => Later(q)
    BY <1>1 DEF Foreign, Later, Sole
  <2>2. CASE c # Shared
    <3>1. wire'[Shared] = wire[Shared]
      BY <1>2, <2>2 DEF Connections
    <3> QED
      BY <2>1, <3>1, StillStrangers DEF Apart, Strangers
  <2>3. CASE c = Shared
    <3>1. Len(wire'[Shared]) = 0
      BY <1>2, <2>3
    <3> QED
      BY <3>1, StillStrangers
  <2> QED
    BY <2>2, <2>3
<1>5. ASSUME NEW u \in Threads
      PROVE  Own(u)' /\ Reported(u)'
  <2>1. Own(u) /\ Reported(u)
    BY DEF Apart
  <2>2. CASE u # c
    <3>1. u \in Connections \ {c}
      BY <2>2 DEF Connections
    <3> QED
      BY <1>1, <1>2, <2>1, <2>2, <3>1, LeftAlone
  <2>3. CASE u = c
    <3>1. Reported(u)'
      BY <1>1, <2>1 DEF Reported, Finished, Sole, Truth
    <3>2. (Sole(u)' <=> Sole(u)) /\ (Untouched(u)' <=> Untouched(u))
      BY <1>1 DEF Sole, Untouched
    <3>3. Quiet(u) => Quiet(u)'
      BY <1>2, <2>3 DEF Quiet
    <3>4. ASSUME process = "up", pc[u] = "receive", Sole(u)
          PROVE  Waiting(u, u)'
      <4>1. Waiting(u, u) /\ u \notin up'
        BY <1>1, <2>1, <2>3, <3>4 DEF Own
      <4>2. CASE answers'[u] = <<>>
        BY <1>2, <2>3, <4>1, <4>2 DEF Waiting, Quiet
      <4>3. CASE answers'[u] # <<>>
        <5>1. /\ answers'[u] = answers[u] /\ Len(answers[u]) = 1
              /\ Tells(call[u], Understood(call[u].op, answers[u][1]))
          BY <1>2, <2>3, <4>1, <4>3 DEF Waiting, Quiet
        <5> QED
          BY <1>1, <1>2, <2>3, <5>1 DEF Waiting, Tells, Truth
      <4> QED
        BY <4>2, <4>3
    <3> QED
      BY <1>1, <2>1, <3>1, <3>2, <3>3, <3>4 DEF Own
  <2> QED
    BY <2>2, <2>3
<1> QED
  BY <1>3, <1>4, <1>5 DEF Apart

LEMMA NextApart == Types /\ Apart /\ [Next]_vars => Apart'
<1> SUFFICES ASSUME Types, Apart, [Next]_vars
             PROVE  Apart'
  OBVIOUS
<1>1. CASE UNCHANGED vars
  <2>1. UNCHANGED <<up, wire, answers, process, pc, call, result, calls, state, clientOids, effects>>
    BY <1>1 DEF vars, sessionVars, clientVars, exchangeVars
  <2> QED
    BY <2>1 DEF Apart, Numbered, Strangers, Foreign, Own, Reported, Sole, Finished, Truth, Waiting,
                Tells, Untouched, Quiet
<1>2. ASSUME NEW t \in Threads, Count(t)
      PROVE  Apart'
  <2>1. /\ pc[t] = "count" /\ pc' = [pc EXCEPT ![t] = AfterBody(call[t].op)]
        /\ UNCHANGED <<up, wire, answers, state, clientOids, effects, process, call, result, calls>>
    BY <1>2 DEF Count, At, Goto, sessionVars, exchangeVars
  <2>2. /\ pc'[t] \notin {"idle", "receive"}
        /\ \A u \in Threads \ {t} : pc'[u] = pc[u]
    BY <2>1 DEF Types, ClientTypes, AfterBody
  <2>3. call[t] # NoCall
    BY <2>1, OwnConnection
  <2> QED
    BY <2>1, <2>2, <2>3, BeforeTheRequest
<1>3. ASSUME NEW t \in Threads, Sign(t)
      PROVE  Apart'
  <2>1. /\ pc[t] = "sign" /\ pc' = [pc EXCEPT ![t] = "encode"]
        /\ UNCHANGED <<up, wire, answers, state, clientOids, effects, process, call, result, calls>>
    BY <1>3 DEF Sign, At, Goto, sessionVars
  <2>2. /\ pc'[t] \notin {"idle", "receive"}
        /\ \A u \in Threads \ {t} : pc'[u] = pc[u]
    BY <2>1 DEF Types, ClientTypes
  <2>3. call[t] # NoCall
    BY <2>1, OwnConnection
  <2> QED
    BY <2>1, <2>2, <2>3, BeforeTheRequest
<1>4. ASSUME NEW t \in Threads, Encode(t)
      PROVE  Apart'
  <2>1. pc[t] = "encode"
    BY <1>4, Encoding
  <2>2. CASE Abort(t)
    BY <2>1, <2>2, AbortApart
  <2>3. CASE ~Abort(t)
    <3>1. /\ pc' = [pc EXCEPT ![t] = "send"]
          /\ UNCHANGED <<up, wire, answers, state, clientOids, effects, process, result, calls>>
          /\ \A u \in Threads : u # t => call'[u] = call[u]
          /\ call'[t] \in Requests
          /\ call'[t].op = call[t].op
          /\ call'[t].number = call[t].number /\ call'[t].clientId = call[t].clientId
      BY <1>4, <2>3, Encoding DEF sessionVars, exchangeVars
    <3>2. /\ pc'[t] \notin {"idle", "receive"}
          /\ \A u \in Threads \ {t} : pc'[u] = pc[u]
      BY <3>1 DEF Types, ClientTypes
    <3>3. call'[t] # NoCall
      <4>1. call'[t].number \in 1 .. MaxCalls
        BY <3>1 DEF Requests, Calls
      <4> QED
        BY <4>1, OrdersAssumption DEF NoCall
    <3> QED
      BY <2>1, <3>1, <3>2, <3>3, BeforeTheRequest
  <2> QED
    BY <2>2, <2>3
<1> QED
  BY <1>1, <1>2, <1>3, <1>4, BeginApart, OpenApart, SendApart, ReceiveApart, ServeApart, LoseApart
  DEF Next, Step, Exchange

(* Session::getIsolated and delIsolated: whatever other threads do on the  *)
(* shared session, or in isolated requests of their own, an isolated       *)
(* request is answered on its own connection, so that what getOrder and    *)
(* the cancellation of a product's orders report is true of that call.     *)
THEOREM IsolatedCallsAreTrue == Spec => []IsolatedIsTrue
<1>1. Init => Types /\ Apart
  BY InitTypes, InitApart
<1>2. Types /\ Apart /\ [Next]_vars => (Types /\ Apart)'
  BY NextTypes, NextApart
<1>3. Apart => IsolatedIsTrue
  <2> SUFFICES ASSUME Apart, NEW t \in Threads, Finished(t),
                      call[t].op \in {"get", "cancelProduct"}
               PROVE  CASE call[t].op = "get" -> \A o \in result[t].ids : state[o] # "none"
                        [] call[t].op = "cancelProduct" -> result[t].ids = effects[call[t].number]
                        [] OTHER -> TRUE
    BY DEF IsolatedIsTrue
  <2>1. Sole(t)
    BY DEF Finished, Sole, NoCall, Isolated
  <2>2. Truth(call[t], result[t].ids)
    BY <2>1 DEF Apart, Reported
  <2> QED
    BY <2>2 DEF Truth
<1> QED
  BY <1>1, <1>2, <1>3, PTL DEF Spec
=============================================================================
