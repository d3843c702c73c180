----------------------------- MODULE RestOrders ------------------------------
(***************************************************************************)
(* src/adapters/coinbasepro/rest/connector.cpp: the requests about the     *)
(* user's orders, on HttpSession, signed by auth.cpp, and the exchange     *)
(* that serves them (external).                                            *)
(*                                                                         *)
(* Threads are those that call the strategy: the main thread in its        *)
(* callbacks, and a failed thread in onExit.  A call goes through          *)
(*   count     uniqueOrderId_++ (placeOrder only)                          *)
(*   connect   the connection of an isolated request                       *)
(*   sign      HMAC into its static buffer                                 *)
(*   encode    the buffer into the header                                  *)
(*   send, receive                                                         *)
(*                                                                         *)
(* The body of an answer is a JSON value: its kind, the message of an      *)
(* object that has one, the orders it names, and the state of the fields   *)
(* of an order.  A body that is no JSON (a gateway's page) leaves the      *)
(* document null.                                                          *)
(***************************************************************************)
EXTENDS HttpSession, FiniteSets

CONSTANTS
  OrderIds,
  OfProduct,  (* the orders of the product in a cancellation by product    *)
  None,
  MaxCalls,   (* bound: calls in all                                       *)
  MaxErrors   (* bound: odd answers and digests with a zero byte           *)

ASSUME OrdersAssumption ==
  /\ OfProduct \subseteq OrderIds /\ None \notin OrderIds
  /\ MaxCalls \in Nat /\ MaxErrors \in Nat

VARIABLES
  state,          (* exchange: the orders                                  *)
  clientOids,     (* exchange: the client order ids of the orders          *)
  uniqueOrderId,  (* uniqueOrderId_                                        *)
  digest,         (* the static buffer of HMAC                             *)
  process,        (* up, or aborted                                        *)
  pc, call, result, (* by thread                                           *)
  calls, errors,  (* counters for the bounds                               *)
  effects,        (* history: the orders each call placed or canceled      *)
  overlapped      (* history: two calls have been under way at a time      *)

clientVars == <<uniqueOrderId, digest, process, pc, call, result, calls, overlapped>>
exchangeVars == <<state, clientOids, effects, errors>>
vars == <<sessionVars, clientVars, exchangeVars>>

Operations == {"place", "get", "list", "cancel", "cancelAll", "cancelProduct"}
Isolated == {"get", "cancel", "cancelProduct"}
Messages == {"funds", "product", "unauthorized", "other"}
Codes == {"EMPTY", "SUCCESS", "INSUFFICIENT_FUNDS", "INVALID_PRODUCT", "UNAUTHORIZED",
          "UNFORESEEN_FAILURE", "exception"}

(* Mutant of Connection: the copy of a session has the same stream. *)
ConnectionShared(t) == Shared

Connection(t) == IF call[t].op \in Isolated THEN t ELSE Shared

TypeOK ==
  /\ up \subseteq Connections
  /\ state \in [OrderIds -> {"none", "open", "done"}]
  /\ clientOids \in [OrderIds -> 0 .. MaxCalls \cup {None}]
  /\ uniqueOrderId \in 0 .. MaxCalls
  /\ digest \in [of : 0 .. MaxCalls, size : {"whole", "cut", "tiny"}]
  /\ process \in {"up", "aborted"}
  /\ pc \in [Threads -> {"idle", "count", "connect", "sign", "encode", "send", "receive"}]
  /\ \A t \in Threads : /\ call[t].op \in Operations \cup {None}
                        /\ call[t].clientId \in 0 .. MaxCalls
                        /\ call[t].isSigned \in BOOLEAN
                        /\ result[t].code \in Codes /\ result[t].ids \subseteq OrderIds
  /\ calls \in 0 .. MaxCalls /\ errors \in 0 .. MaxErrors
  /\ effects \in [1 .. MaxCalls -> SUBSET OrderIds]
  /\ overlapped \in BOOLEAN

NoCall == [op |-> None, order |-> None, number |-> 0, clientId |-> 0, isSigned |-> FALSE]
NoResult == [code |-> "EMPTY", ids |-> {}]

Init ==
  /\ SessionInit
  /\ \E s \in {"none", "open"} : state = [o \in OrderIds |-> s]  \* by an earlier process
  /\ clientOids = [o \in OrderIds |-> None]
  /\ uniqueOrderId = 0
  /\ digest = [of |-> 0, size |-> "whole"]
  /\ process = "up"
  /\ pc = [t \in Threads |-> "idle"]
  /\ call = [t \in Threads |-> NoCall] /\ result = [t \in Threads |-> NoResult]
  /\ calls = 0 /\ errors = 0
  /\ effects = [n \in 1 .. MaxCalls |-> {}]
  /\ overlapped = FALSE

-----------------------------------------------------------------------------
(* Up to the request                                                       *)

At(t, label) == process = "up" /\ pc[t] = label
Goto(t, label) == pc' = [pc EXCEPT ![t] = label]

AfterBody(op) == IF op \in Isolated THEN "connect" ELSE "sign"

Begin(t, op, o) ==
  /\ At(t, "idle")
  /\ calls < MaxCalls /\ calls' = calls + 1
  /\ call' = [call EXCEPT ![t] = [op |-> op, order |-> o, number |-> calls',
                                  clientId |-> uniqueOrderId, isSigned |-> FALSE]]
  /\ result' = [result EXCEPT ![t] = NoResult]
  /\ Goto(t, IF op = "place" THEN "count" ELSE AfterBody(op))
  /\ overlapped' = (overlapped \/ \E u \in Threads \ {t} : pc[u] # "idle")
  /\ UNCHANGED <<sessionVars, exchangeVars, uniqueOrderId, digest, process>>

(* Mutant of Count: counts once in the caller and once in here. *)
CountTwice(t) ==
  /\ At(t, "count")
  /\ uniqueOrderId' = call[t].clientId + 2
  /\ Goto(t, AfterBody(call[t].op))
  /\ UNCHANGED <<sessionVars, exchangeVars, digest, process, call, result, calls, overlapped>>

(* Mutant of Count: forgets to count. *)
CountNever(t) ==
  /\ At(t, "count")
  /\ Goto(t, AfterBody(call[t].op))
  /\ UNCHANGED <<sessionVars, exchangeVars, uniqueOrderId, digest, process, call, result,
                 calls, overlapped>>

(* The increment, which is not atomic: the value was read in Begin. *)
Count(t) ==
  /\ At(t, "count")
  /\ uniqueOrderId' = call[t].clientId + 1
  /\ Goto(t, AfterBody(call[t].op))
  /\ UNCHANGED <<sessionVars, exchangeVars, digest, process, call, result, calls, overlapped>>

(* An exception leaves the call; the copy of the session is destroyed. *)
Throw(t) ==
  /\ result' = [result EXCEPT ![t] = [code |-> "exception", ids |-> {}]]
  /\ Goto(t, "idle")
  /\ Close(Connection(t))
  /\ answers' = IF Connection(t) = Shared THEN answers ELSE [answers EXCEPT ![t] = <<>>]
  /\ UNCHANGED <<exchangeVars, uniqueOrderId, digest, process, call, calls, overlapped>>

Open(t) ==
  /\ At(t, "connect")
  /\ \/ /\ Connect(t)
        /\ Goto(t, "sign")
        /\ UNCHANGED <<exchangeVars, uniqueOrderId, digest, process, call, result, calls,
                       overlapped>>
     \/ Throw(t)

(* The digest is one of all digests: it may have a zero byte, also among   *)
(* its first two.                                                          *)
Sign(t) ==
  /\ At(t, "sign")
  /\ \E size \in {"whole", "cut", "tiny"} :
       /\ digest' = [of |-> call[t].number, size |-> size]
       /\ errors' = errors + IF size = "whole" THEN 0 ELSE 1
       /\ errors' <= MaxErrors
  /\ Goto(t, "encode")
  /\ UNCHANGED <<sessionVars, state, clientOids, effects, uniqueOrderId, process, call,
                 result, calls, overlapped>>

Abort(t) ==
  /\ process' = "aborted"
  /\ UNCHANGED <<exchangeVars, up, wire, uniqueOrderId, digest, pc, call, result, calls,
                 overlapped>>

(* The string ends at the first zero byte of the digest; encoding one of   *)
(* less than two bytes runs out of its buffer.                             *)
Encode(t) ==
  /\ At(t, "encode")
  /\ \/ digest.size = "tiny" /\ Abort(t) /\ UNCHANGED answers
     \/ /\ digest.size # "tiny"
        /\ call' = [call EXCEPT ![t].isSigned =
                      digest.of = call[t].number /\ digest.size = "whole"]
        /\ Goto(t, "send")
        /\ UNCHANGED <<sessionVars, exchangeVars, uniqueOrderId, digest, process, result,
                       calls, overlapped>>

(* Another thread is using the same connection: anything may fail. *)
Contended(t) ==
  \E u \in Threads \ {t} : pc[u] \in {"send", "receive"} /\ Connection(u) = Connection(t)

Send(t) ==
  /\ At(t, "send")
  /\ \/ /\ Write(Connection(t), call[t])
        /\ Goto(t, "receive")
        /\ UNCHANGED <<exchangeVars, uniqueOrderId, digest, process, call, result, calls,
                       overlapped>>
     \/ (Connection(t) \notin up \/ Contended(t)) /\ Throw(t)

-----------------------------------------------------------------------------
(* From the answer: Aborted stands for an assertion of the JSON library    *)
(* that fails, which ends the process.                                     *)

Aborted == [code |-> "abort", ids |-> {}]
Outcome(code, ids) == [code |-> code, ids |-> ids]

CodeOf == [funds |-> "INSUFFICIENT_FUNDS", product |-> "INVALID_PRODUCT",
           unauthorized |-> "UNAUTHORIZED", other |-> "UNFORESEEN_FAILURE"]

(* parseOrderResponse: HasMember asserts that the document is an object. *)
OrderResponse(body) ==
  CASE body.kind # "object" -> Aborted
    [] body.message # None -> Outcome(CodeOf[body.message], {})
    [] OTHER -> Outcome("SUCCESS", body.ids)

(* parseOrderDetails: an absent field fails an assertion, a malformed      *)
(* number throws.                                                          *)
OrderDetails(body) ==
  CASE body.fields = "absent" -> Aborted
    [] body.fields = "malformed" -> Outcome("exception", {})
    [] OTHER -> Outcome("SUCCESS", body.ids)

(* getOrder: a message leaves the output as it was. *)
Order(body) ==
  CASE body.kind # "object" -> Aborted
    [] body.message # None -> Outcome("EMPTY", {})
    [] OTHER -> OrderDetails(body)

(* getAllOrders: on what is neither an object nor an array, GetString      *)
(* asserts a string.                                                       *)
AllOrders(body) ==
  CASE body.kind \in {"object", "string"} -> Outcome("EMPTY", {})
    [] body.kind = "null" -> Aborted
    [] OTHER -> OrderDetails(body)

(* cancelOrder: a cancellation is answered with a plain string. *)
Cancellation(body) ==
  CASE body.kind # "object" -> Aborted
    [] body.message # None -> Outcome("EMPTY", {})
    [] OTHER -> Outcome("SUCCESS", body.ids)

(* Mutant of Cancellations: keeps the first id only. *)
CancellationsFirst(body) ==
  CASE body.kind \in {"object", "string"} -> Outcome("EMPTY", {})
    [] body.kind = "null" -> Aborted
    [] OTHER -> Outcome("SUCCESS", {o \in body.ids : o = CHOOSE p \in body.ids : TRUE})

(* cancelAllOrders *)
Cancellations(body) ==
  CASE body.kind \in {"object", "string"} -> Outcome("EMPTY", {})
    [] body.kind = "null" -> Aborted
    [] OTHER -> Outcome("SUCCESS", body.ids)

Understood(op, body) ==
  CASE op = "place" -> OrderResponse(body)
    [] op = "get" -> Order(body)
    [] op = "list" -> AllOrders(body)
    [] op = "cancel" -> Cancellation(body)
    [] OTHER -> Cancellations(body)

Return(t, outcome) ==
  /\ result' = [result EXCEPT ![t] = outcome]
  /\ Goto(t, "idle")
  /\ Close(Connection(t))
  /\ UNCHANGED <<exchangeVars, uniqueOrderId, digest, process, call, calls, overlapped>>

(* Mutant of Receive: waits on when the connection has been closed. *)
ReceiveOnly(t) ==
  /\ At(t, "receive")
  /\ Read(Connection(t))
  /\ LET outcome == Understood(call[t].op, Head(answers[Connection(t)]))
     IN IF outcome = Aborted THEN Abort(t) ELSE Return(t, outcome)

Receive(t) ==
  /\ At(t, "receive")
  /\ \/ /\ Read(Connection(t))
        /\ LET outcome == Understood(call[t].op, Head(answers[Connection(t)]))
           IN IF outcome = Aborted THEN Abort(t) ELSE Return(t, outcome)
     \/ /\ \/ Connection(t) \notin up /\ answers[Connection(t)] = <<>>
           \/ Contended(t)
        /\ Throw(t)

-----------------------------------------------------------------------------
(* The exchange                                                            *)

Body(kind, message, ids, fields) ==
  [kind |-> kind, message |-> message, ids |-> ids, fields |-> fields]
Message(m) == Body("object", m, {}, "good")
Page == Body("null", None, {}, "good")

(* The request r is carried out: the orders it puts into state s, and the  *)
(* answer.                                                                 *)
Done(c, r, ids, s, body) ==
  /\ state' = [o \in OrderIds |-> IF o \in ids THEN s ELSE state[o]]
  /\ clientOids' = [o \in OrderIds |-> IF o \in ids /\ r.op = "place" THEN r.clientId
                                                                     ELSE clientOids[o]]
  /\ effects' = [effects EXCEPT ![r.number] = @ \cup ids]
  /\ Answer(c, body)
  /\ UNCHANGED <<clientVars, errors>>

Refused(c, r, m) == Done(c, r, {}, "none", Message(m))

Odd == errors < MaxErrors /\ errors' = errors + 1

ServePlace(c, r) ==
  \/ /\ state[r.order] = "none"
     /\ Done(c, r, {r.order}, "open", Body("object", None, {r.order}, "good"))
  \/ \E m \in {"funds", "product", "other"} : Refused(c, r, m)

ServeQuery(c, r, ids, kind) ==
  \/ Done(c, r, {}, "none", Body(kind, None, ids, "good"))
  \/ \E fields \in {"absent", "malformed"} :
       /\ ids # {} /\ Odd
       /\ Answer(c, Body(kind, None, ids, fields))
       /\ UNCHANGED <<clientVars, state, clientOids, effects>>

ServeCancel(c, r, ids, body) == Done(c, r, ids, "done", body)

Served(c, r) ==
  CASE r.op = "place" -> ServePlace(c, r)
    [] r.op = "get" -> IF state[r.order] = "none" THEN Refused(c, r, "other")
                                                  ELSE ServeQuery(c, r, {r.order}, "object")
    [] r.op = "list" -> ServeQuery(c, r, {o \in OrderIds : state[o] # "none"}, "array")
    [] r.op = "cancel" ->
         IF state[r.order] = "open"
           THEN ServeCancel(c, r, {r.order}, Body("string", None, {r.order}, "good"))
           ELSE Refused(c, r, "other")
    [] OTHER ->
         LET ids == {o \in IF r.op = "cancelAll" THEN OrderIds ELSE OfProduct :
                              state[o] = "open"}
         IN ServeCancel(c, r, ids, Body("array", None, ids, "good"))

Serve(c) ==
  /\ wire[c] # <<>>
  /\ LET r == Head(wire[c]) IN
       \/ ~r.isSigned /\ Refused(c, r, "unauthorized")
       \/ r.isSigned /\ Served(c, r)
       \/ /\ Odd
          /\ Answer(c, Page)
          /\ UNCHANGED <<clientVars, state, clientOids, effects>>

LoseConnection(c) == Lose(c) /\ UNCHANGED <<clientVars, exchangeVars>>

-----------------------------------------------------------------------------
Step(t) == Count(t) \/ Open(t) \/ Sign(t) \/ Encode(t) \/ Send(t) \/ Receive(t)

Exchange(c) == Serve(c) \/ LoseConnection(c)

(* The order that the exchange would name next. *)
NewOrders == {o \in OrderIds : state[o] = "none" /\ \A t \in Threads : call[t].order # o}

Arguments(op) ==
  CASE op = "place" -> IF NewOrders = {} THEN {} ELSE {CHOOSE o \in NewOrders : TRUE}
    [] op \in {"get", "cancel"} -> OrderIds
    [] OTHER -> {None}

(* Nothing is modelled beyond the end of the process. *)
Next ==
  \/ \E t \in Threads, op \in Operations : \E o \in Arguments(op) : Begin(t, op, o)
  \/ \E t \in Threads : Step(t)
  \/ process = "up" /\ \E c \in Connections : Exchange(c)

(* Somebody waits for an answer on connection c. *)
Awaited(c) == \E t \in Threads : pc[t] = "receive" /\ Connection(t) = c

(***************************************************************************)
(* The threads run on, and who waits for an answer gets one or has the     *)
(* connection closed (there is no timeout: else a call never returns).     *)
(***************************************************************************)
Fairness ==
  /\ \A t \in Threads : WF_vars(Step(t))
  /\ \A c \in Connections : WF_vars(Awaited(c) /\ Exchange(c))

Spec == Init /\ [][Next]_vars /\ Fairness

-----------------------------------------------------------------------------
(* Properties                                                              *)

Finished(t) == pc[t] = "idle" /\ call[t].op # None /\ result[t].code # "exception"

(* As long as one thread makes the calls: what placeOrder and              *)
(* cancelAllOrders report is what the exchange did for this very call, and *)
(* an order that was read exists.  (After an exception nothing is known.)  *)
OutcomeIsTrue ==
  ~overlapped => \A t \in Threads : Finished(t) =>
    CASE call[t].op \in {"get", "list"} ->
           \A o \in result[t].ids : state[o] # "none"
      [] call[t].op = "cancel" -> TRUE
      [] OTHER -> result[t].ids = effects[call[t].number]

(* session.hpp:84, of isolated requests: a separate session "facilitates   *)
(* multithreading".  Whatever other threads do meanwhile, such a request   *)
(* gets its own answer: what it reports is what the exchange did for it.   *)
(* It may have to report a refusal, though: its signature is taken from    *)
(* the one static buffer all the same.                                     *)
IsolatedIsTrue ==
  \A t \in Threads : Finished(t) =>
    CASE call[t].op = "get" -> \A o \in result[t].ids : state[o] # "none"
      [] call[t].op = "cancelProduct" -> result[t].ids = effects[call[t].number]
      [] OTHER -> TRUE

(* The shared session is never a request or an answer behind: unless it is *)
(* closed, nothing is left on it when no call is under way, so that the    *)
(* next answer read is that of the next request.                           *)
ConnectionInStep ==
  /\ ~overlapped
  /\ Shared \in up
  /\ process = "up"
  /\ \A t \in Threads : pc[t] = "idle" \/ Connection(t) # Shared
  => wire[Shared] = <<>> /\ answers[Shared] = <<>>

(* The orders that one process has placed with one thread carry different  *)
(* client order ids.                                                       *)
ClientIdsDistinct ==
  ~overlapped => \A o, p \in OrderIds :
    clientOids[o] # None /\ clientOids[o] = clientOids[p] => o = p

(* A call comes back, if only by an exception or by the end of the         *)
(* process, even when two threads take each other's answers.               *)
CallsReturn ==
  \A t \in Threads : pc[t] # "idle" ~> pc[t] = "idle" \/ process = "aborted"

(* connector.cpp:511: the answer to a cancellation is a plain string, and  *)
(* cancelOrder then returns true (connector.cpp:529).                      *)
CancellationReturns ==
  [][\A t \in Threads :
       /\ At(t, "receive") /\ call[t].op = "cancel"
       /\ answers[t] # <<>> /\ Head(answers[t]).kind = "string"
       => process' = "up"]_vars
=============================================================================
