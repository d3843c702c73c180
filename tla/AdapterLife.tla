---------------------------- MODULE AdapterLife -----------------------------
(***************************************************************************)
(* The life of the process: the construction of the adapter (base.cpp,     *)
(* adapter.hpp), start and the threads it makes (adapter.cpp), what the    *)
(* strategy may call from its callbacks, and how each thread fails         *)
(* (exceptions.hpp).                                                       *)
(*                                                                         *)
(* Three ends are told apart.  The process has exited when a thread inside *)
(* withHandler has failed, called onExit and then exit(1).  It has been    *)
(* terminated when an exception left a thread, an assertion of the JSON    *)
(* library failed, or memory was misused.                                  *)
(*                                                                         *)
(* The contents of messages and the times of queries are those of          *)
(* MarketData and BarsScheduler; here a message is what it does to its     *)
(* thread, and the query threads matter for the universe they iterate      *)
(* over, without a lock, while the main thread may replace it.             *)
(***************************************************************************)
EXTENDS Naturals

CONSTANTS
  Products,
  Capacity,    (* bound of the event queue                                *)
  MaxUpdates,  (* bound: calls of updateUniverse                           *)
  MaxRefreshes, (* bound: calls of getAvailableUniverse                    *)
  MaxBatches,  (* bound: batches of bar queries                            *)
  MaxMessages  (* bound: messages that lead to an event or to a failure    *)

ASSUME LifeAssumption ==
  /\ Capacity \in Nat
  /\ MaxUpdates \in Nat /\ MaxRefreshes \in Nat /\ MaxBatches \in Nat /\ MaxMessages \in Nat

VARIABLES
  process,          (* up, exited or terminated                            *)
  main,             (* the main thread                                     *)
  operation,        (* the call of the adapter its callback is in          *)
  stream, querying, keepAlive, (* the other threads                        *)
  socket,           (* none, up or closed                                  *)
  currentUniverse,  (* currentUniverse_                                    *)
  target,           (* the argument of updateUniverse                      *)
  productMap,       (* the keys of productMap_                             *)
  available,        (* the universe that getAvailableUniverse adds to      *)
  answered,         (* history: the products the last answer lists         *)
  listed,           (* those of them not registered, or not yet            *)
  queue,            (* the number of events in the queue                   *)
  batch,            (* none, iterating or joining                          *)
  iterator,         (* products the iteration has still to come to         *)
  tasks,            (* products whose query is posted or under way         *)
  updates, refreshes, batches, messages, (* counters for the bounds        *)
  onExits,          (* history: calls of onExit that have returned         *)
  started,          (* history: onStart has returned                       *)
  cause,            (* history: a query terminated the process, or other   *)
  torn,             (* the universe was replaced under the batch           *)
  covered, universe (* history: the products the batch has asked for, and  *)
                    (* the universe when it began; empty between batches   *)

mainVars == <<main, operation, started>>
universeVars == <<currentUniverse, target, updates>>
catalogueVars == <<productMap, available, answered, listed, refreshes>>
batchVars == <<querying, torn, batch, iterator, tasks, batches, covered, universe>>
streamVars == <<stream, messages>>
endVars == <<process, cause, onExits>>
socketVars == <<socket, keepAlive>>
vars == <<mainVars, universeVars, catalogueVars, batchVars, streamVars, endVars,
          socketVars, queue>>

ThreadTypes ==
  /\ process \in {"up", "exited", "terminated"}
  /\ main \in {"onInit", "members", "connect", "onStart", "spawnQuerying",
               "spawnStream", "feed", "callback"}
  /\ operation \in {"none", "unsubscribe", "replace", "subscribe", "request", "register"}
  /\ stream \in {"none", "read", "enqueue", "onExit"}
  /\ querying \in {"none", "loop", "onExit"}
  /\ keepAlive \in {"none", "running"}
  /\ socket \in {"none", "up", "closed"}
  /\ batch \in {"none", "iterating", "joining"}
  /\ cause \in {"none", "query", "other"}
  /\ started \in BOOLEAN /\ torn \in BOOLEAN

ProductTypes ==
  /\ currentUniverse \subseteq Products /\ target \subseteq Products
  /\ productMap \subseteq Products /\ available \subseteq Products
  /\ answered \subseteq Products /\ listed \subseteq Products
  /\ iterator \subseteq Products /\ tasks \subseteq Products
  /\ covered \subseteq Products /\ universe \subseteq Products

CounterTypes ==
  /\ queue \in 0 .. Capacity
  /\ updates \in 0 .. MaxUpdates /\ refreshes \in 0 .. MaxRefreshes
  /\ batches \in 0 .. MaxBatches /\ messages \in 0 .. MaxMessages
  /\ onExits \in {0, 1}

TypeOK == ThreadTypes /\ ProductTypes /\ CounterTypes

Init ==
  /\ process = "up" /\ cause = "none" /\ onExits = 0
  /\ main = "onInit" /\ operation = "none" /\ started = FALSE
  /\ stream = "none" /\ querying = "none" /\ keepAlive = "none" /\ socket = "none"
  /\ currentUniverse = {} /\ target = {} /\ torn = FALSE
  /\ productMap = {} /\ available = {} /\ answered = {} /\ listed = {}
  /\ batch = "none" /\ iterator = {} /\ tasks = {} /\ covered = {} /\ universe = {}
  /\ queue = 0
  /\ updates = 0 /\ refreshes = 0 /\ batches = 0 /\ messages = 0

(* Mutant of Enqueue: does not wait for room. *)
EnqueueUnbounded == queue' = queue + 1

Enqueue == queue < Capacity /\ queue' = queue + 1

Terminate(why) ==
  /\ process = "up" /\ process' = "terminated" /\ cause' = why
  /\ UNCHANGED <<mainVars, universeVars, catalogueVars, batchVars, streamVars,
                 socketVars, queue, onExits>>

-----------------------------------------------------------------------------
(* Construction and start                                                  *)

MainAt(place) == process = "up" /\ main = place /\ operation = "none"

(* BaseAdapter: the strategy's onInit runs before the members exist. *)
OnInit ==
  /\ MainAt("onInit") /\ main' = "members"
  /\ UNCHANGED <<operation, started, universeVars, catalogueVars, batchVars, streamVars,
                 endVars, socketVars, queue>>

(* The members: Auth reads the configuration, the sessions connect. *)
Members ==
  /\ MainAt("members") /\ main' = "connect"
  /\ UNCHANGED <<operation, started, universeVars, catalogueVars, batchVars, streamVars,
                 endVars, socketVars, queue>>

(* Mutant of Connect: the stream is read from the start. *)
ConnectReading ==
  /\ MainAt("connect") /\ main' = "onStart"
  /\ socket' = "up" /\ keepAlive' = "running" /\ stream' = "read"
  /\ UNCHANGED <<operation, started, universeVars, catalogueVars, batchVars, messages,
                 endVars, queue>>

(* Stream::Connector::connect, which starts the keep-alive thread. *)
Connect ==
  /\ MainAt("connect") /\ main' = "onStart"
  /\ socket' = "up" /\ keepAlive' = "running"
  /\ UNCHANGED <<operation, started, universeVars, catalogueVars, batchVars, streamVars,
                 endVars, queue>>

OnStartReturns ==
  /\ MainAt("onStart") /\ main' = "spawnQuerying" /\ started' = TRUE
  /\ UNCHANGED <<operation, universeVars, catalogueVars, batchVars, streamVars,
                 endVars, socketVars, queue>>

SpawnQuerying ==
  /\ MainAt("spawnQuerying") /\ main' = "spawnStream" /\ querying' = "loop"
  /\ UNCHANGED <<operation, started, universeVars, catalogueVars, torn, batch, iterator,
                 tasks, batches, covered, universe, streamVars, endVars, socketVars, queue>>

SpawnStream ==
  /\ MainAt("spawnStream") /\ main' = "feed" /\ stream' = "read"
  /\ UNCHANGED <<operation, started, universeVars, catalogueVars, batchVars, messages,
                 endVars, socketVars, queue>>

-----------------------------------------------------------------------------
(* feedStrategyForever                                                     *)

Feed ==
  /\ MainAt("feed") /\ queue > 0
  /\ queue' = queue - 1 /\ main' = "callback"
  /\ UNCHANGED <<operation, started, universeVars, catalogueVars, batchVars, streamVars,
                 endVars, socketVars>>

CallbackReturns ==
  /\ MainAt("callback") /\ main' = "feed"
  /\ UNCHANGED <<operation, started, universeVars, catalogueVars, batchVars, streamVars,
                 endVars, socketVars, queue>>

(* Nothing catches what the main thread throws: onInit, the members,       *)
(* connect, the creation of a thread, or a callback.                       *)
MainThrows ==
  /\ main # "feed"
  /\ Terminate("other")

InCallback == MainAt("onStart") \/ MainAt("callback")

-----------------------------------------------------------------------------
(* updateUniverse                                                          *)

During(op) == process = "up" /\ operation = op

UpdateUniverse(u) ==
  /\ InCallback
  /\ updates < MaxUpdates /\ updates' = updates + 1
  /\ target' = u /\ operation' = "unsubscribe"
  /\ UNCHANGED <<main, started, currentUniverse, catalogueVars, batchVars, streamVars,
                 endVars, socketVars, queue>>

(* unsubscribeProducts and subscribeProducts.  An empty universe is not    *)
(* written; a write may throw, on a closed socket it does, and the         *)
(* strategy may catch that (or else MainThrows).                           *)
WriteUniverse(op, next) ==
  /\ During(op)
  /\ \/ /\ currentUniverse = {} \/ socket = "up"
        /\ operation' = next
     \/ /\ currentUniverse # {}
        /\ operation' = "none"
  /\ target' = IF operation' = "none" THEN {} ELSE target
  /\ UNCHANGED <<main, started, currentUniverse, updates, catalogueVars, batchVars,
                 streamVars, endVars, socketVars, queue>>

Unsubscribe == WriteUniverse("unsubscribe", "replace")
Subscribe == WriteUniverse("subscribe", "none")

(* A batch iterates over the universe, or its tasks refer to its elements. *)
InUse == batch = "iterating" \/ tasks # {}

(* Universe::update locks out other writers, not the readers. *)
Replace ==
  /\ During("replace")
  /\ currentUniverse' = target
  /\ torn' = (torn \/ InUse)
  /\ operation' = "subscribe"
  /\ UNCHANGED <<main, started, target, updates, catalogueVars, querying, batch, iterator,
                 tasks, batches, covered, universe, streamVars, endVars, socketVars, queue>>

-----------------------------------------------------------------------------
(* getAvailableUniverse, always into the same universe of the strategy's,  *)
(* which is only added to                                                  *)

Refresh ==
  /\ InCallback
  /\ refreshes < MaxRefreshes /\ refreshes' = refreshes + 1
  /\ operation' = "request"
  /\ UNCHANGED <<main, started, productMap, available, answered, listed, universeVars,
                 batchVars, streamVars, endVars, socketVars, queue>>

(* Mutant of Answer: the details of the last answer are kept. *)
AnswerKeeping ==
  /\ During("request")
  /\ answered' \in SUBSET Products /\ listed' = answered'
  /\ operation' = "register"
  /\ UNCHANGED <<main, started, productMap, available, refreshes, universeVars, batchVars,
                 streamVars, endVars, socketVars, queue>>

(* The answer lists the products that the exchange has now.  (A request    *)
(* that fails throws, an answer that is no array fails an assertion.)      *)
Answer ==
  /\ During("request")
  /\ productMap' = {}
  /\ answered' \in SUBSET Products /\ listed' = answered'
  /\ operation' = "register"
  /\ UNCHANGED <<main, started, available, refreshes, universeVars, batchVars,
                 streamVars, endVars, socketVars, queue>>

RequestThrows ==
  /\ During("request") /\ operation' = "none"
  /\ UNCHANGED <<main, started, catalogueVars, universeVars, batchVars, streamVars,
                 endVars, socketVars, queue>>

(* A product is registered, or a number of its details throws, and the     *)
(* strategy catches that: the products from there on have no details.      *)
Register(p) ==
  /\ During("register") /\ p \in listed
  /\ \/ /\ productMap' = productMap \cup {p} /\ available' = available \cup {p}
        /\ listed' = listed \ {p}
        /\ UNCHANGED operation
     \/ /\ operation' = "none"
        /\ UNCHANGED <<productMap, available, listed>>
  /\ UNCHANGED <<main, started, answered, refreshes, universeVars, batchVars, streamVars,
                 endVars, socketVars, queue>>

Registered ==
  /\ During("register") /\ listed = {}
  /\ operation' = "none"
  /\ UNCHANGED <<main, started, catalogueVars, universeVars, batchVars, streamVars,
                 endVars, socketVars, queue>>

-----------------------------------------------------------------------------
(* withHandler: onExit runs on the thread that failed.                     *)

(* Mutant of ExitAfter: the thread ends without exit(1). *)
ExitAfterNothing(place) ==
  /\ process = "up" /\ place = "onExit"
  /\ onExits' = onExits + 1
  /\ UNCHANGED <<process, cause>>

ExitAfter(place) ==
  /\ process = "up" /\ place = "onExit"
  /\ onExits' = onExits + 1
  /\ process' = "exited"
  /\ UNCHANGED cause

OnExitReturns ==
  /\ \/ ExitAfter(stream) /\ stream' = "none" /\ UNCHANGED querying
     \/ ExitAfter(querying) /\ querying' = "none" /\ UNCHANGED stream
  /\ UNCHANGED <<mainVars, universeVars, catalogueVars, torn, batch, iterator, tasks, batches,
                 covered, universe, messages, socketVars, queue>>

OnExitThrows ==
  /\ stream = "onExit" \/ querying = "onExit"
  /\ Terminate("other")

-----------------------------------------------------------------------------
(* The stream thread: streamForever                                        *)

StreamVarsOnly == UNCHANGED <<mainVars, universeVars, catalogueVars, batchVars, endVars,
                              socketVars>>

(* A message is handled: an event, or a failed conversion, which throws. *)
StreamMessage ==
  /\ process = "up" /\ stream = "read" /\ socket = "up"
  /\ messages < MaxMessages /\ messages' = messages + 1
  /\ stream' \in {"enqueue", "onExit"}
  /\ StreamVarsOnly /\ UNCHANGED queue

StreamEnqueue ==
  /\ process = "up" /\ stream = "enqueue"
  /\ Enqueue
  /\ stream' = "read"
  /\ StreamVarsOnly /\ UNCHANGED messages

StreamReadFails ==
  /\ process = "up" /\ stream = "read" /\ socket = "closed"
  /\ stream' = "onExit"
  /\ StreamVarsOnly /\ UNCHANGED <<messages, queue>>

(* A message without a field that the handler asks for. *)
StreamAborts ==
  /\ stream = "read" /\ socket = "up"
  /\ messages < MaxMessages
  /\ Terminate("other")

-----------------------------------------------------------------------------
(* The keep-alive thread is not inside withHandler.                        *)

KeepAlive ==
  /\ keepAlive = "running" /\ socket = "closed"
  /\ Terminate("other")

SocketCloses ==
  /\ process = "up" /\ socket = "up" /\ socket' = "closed"
  /\ UNCHANGED <<mainVars, universeVars, catalogueVars, batchVars, streamVars, endVars,
                 keepAlive, queue>>

-----------------------------------------------------------------------------
(* The querying thread, its query threads and pools                        *)

BatchOnly == UNCHANGED <<mainVars, universeVars, catalogueVars, streamVars, endVars,
                         socketVars>>

BatchBegins ==
  /\ process = "up" /\ querying = "loop" /\ batch = "none"
  /\ batches < MaxBatches /\ batches' = batches + 1
  /\ \/ /\ batch' = "iterating"
        /\ iterator' = currentUniverse /\ universe' = currentUniverse
        /\ UNCHANGED querying
     \/ /\ querying' = "onExit"  \* no thread could be created
        /\ UNCHANGED <<batch, iterator, universe>>
  /\ BatchOnly /\ UNCHANGED <<torn, tasks, covered, queue>>

(* After the universe has been replaced under it, the iteration may come   *)
(* to anything, or misuse memory.                                          *)
Post(p) ==
  /\ process = "up" /\ batch = "iterating"
  /\ p \in iterator \/ torn
  /\ iterator' = iterator \ {p} /\ tasks' = tasks \cup {p}
  /\ BatchOnly /\ UNCHANGED <<querying, torn, batch, batches, covered, universe, queue>>

PoolJoins ==
  /\ process = "up" /\ batch = "iterating"
  /\ iterator = {} \/ torn
  /\ batch' = "joining" /\ iterator' = {}
  /\ BatchOnly /\ UNCHANGED <<querying, torn, tasks, batches, covered, universe, queue>>

(* A task ends with a bar or without one. *)
TaskEnds(p) ==
  /\ process = "up" /\ p \in tasks
  /\ tasks' = tasks \ {p} /\ covered' = covered \cup {p}
  /\ Enqueue \/ UNCHANGED queue
  /\ BatchOnly /\ UNCHANGED <<querying, torn, batch, iterator, batches, universe>>

(* A request fails, or the answer has a bar that is not one; nobody        *)
(* catches what a thread of the pool throws.                               *)
TaskFails == tasks # {} /\ Terminate("query")

MemoryMisused == InUse /\ torn /\ Terminate("other")

(* Mutant of BatchEnds: the pool is not joined. *)
BatchEndsUnjoined ==
  /\ process = "up" /\ batch = "joining"
  /\ batch' = "none" /\ torn' = FALSE /\ covered' = {} /\ universe' = {}
  /\ BatchOnly /\ UNCHANGED <<querying, iterator, tasks, batches, queue>>

BatchEnds ==
  /\ process = "up" /\ batch = "joining" /\ tasks = {}
  /\ batch' = "none" /\ torn' = FALSE /\ covered' = {} /\ universe' = {}
  /\ BatchOnly /\ UNCHANGED <<querying, iterator, tasks, batches, queue>>

-----------------------------------------------------------------------------
Main ==
  \/ OnInit \/ Members \/ Connect \/ OnStartReturns \/ SpawnQuerying \/ SpawnStream
  \/ Feed \/ CallbackReturns
  \/ Unsubscribe \/ Replace \/ Subscribe
  \/ Answer \/ RequestThrows \/ Registered
  \/ \E p \in Products : Register(p)

Calls == Refresh \/ \E u \in SUBSET Products : UpdateUniverse(u)

Stream == StreamEnqueue \/ StreamReadFails

Batch ==
  \/ PoolJoins \/ BatchEnds
  \/ \E p \in Products : Post(p) \/ TaskEnds(p)

Failures == MainThrows \/ StreamAborts \/ TaskFails \/ MemoryMisused \/ OnExitThrows

Next ==
  \/ Main \/ Calls \/ OnExitReturns \/ StreamMessage \/ Stream \/ KeepAlive
  \/ SocketCloses \/ BatchBegins \/ Batch \/ Failures

(* Threads run on; the callbacks, onExit and requests return. *)
Fairness ==
  /\ WF_vars(Main) /\ WF_vars(OnExitReturns) /\ WF_vars(Stream)
  /\ WF_vars(KeepAlive) /\ WF_vars(Batch)

Spec == Init /\ [][Next]_vars /\ Fairness

-----------------------------------------------------------------------------
(* Properties                                                              *)

(* onExit never runs before onStart has returned, also when the connection *)
(* is lost during onStart, and the process never exits by itself before an *)
(* onExit has run to its end.                                              *)
ExitIsOrderly ==
  /\ stream = "onExit" \/ querying = "onExit" \/ onExits > 0 => started
  /\ process = "exited" => onExits > 0

(* Nothing that fails is survived: when the web socket is closed or a      *)
(* thread has failed the process ends, whatever the other threads do, and  *)
(* however full the queue is.                                              *)
FailureEndsProcess ==
  (socket = "closed" \/ stream = "onExit" \/ querying = "onExit") ~> process # "up"

(* A batch asks for the bars of all products that were in the universe     *)
(* when it began and of no others, unless the universe was replaced while  *)
(* a batch was using it.                                                   *)
BatchCoversUniverse ==
  ~torn => /\ tasks \cup covered \subseteq universe
           /\ batch = "joining" /\ tasks = {} => covered = universe

(* The details the strategy can look up are those of the last answer of    *)
(* the exchange, of no product that has gone from it and, from a product   *)
(* on that could not be parsed, of none; and it was told of each.  Those   *)
(* still listed that it was told of earlier may so lose their details: the *)
(* map is cleared and the strategy's universe is not.                      *)
DetailsAreCurrent ==
  productMap = answered \ listed /\ productMap \subseteq available

(* adapter.cpp:37 has onExit run when "Scheduler bars querying failed".    *)
QueryFailureIsHandled == cause = "query" => onExits > 0
=============================================================================
