------------------------- MODULE AdapterLife_proofs -------------------------
(***************************************************************************)
(* Proofs that the process ends in order, that batches cover the universe  *)
(* they began with, and that the details of products are those of the last *)
(* answer, for every set of products and every value of the bounds.        *)
(*                                                                         *)
(* Each theorem has an inductive invariant of its own, on top of TypeOK:   *)
(* Order for ExitIsOrderly, Coverage for BatchCoversUniverse and Catalogue *)
(* for DetailsAreCurrent.                                                  *)
(***************************************************************************)
EXTENDS AdapterLife, TLAPS

(***************************************************************************)
(* The threads exist, and onExit has been called, only after onStart has   *)
(* returned; the first onExit to return is the end of the process, and the *)
(* only way to exit.                                                       *)
(***************************************************************************)
Order ==
  /\ main \in {"spawnQuerying", "spawnStream", "feed", "callback"} => started
  /\ querying # "none" \/ stream # "none" \/ onExits > 0 => started
  /\ process = "up" => onExits = 0
  /\ process = "exited" => onExits > 0

(***************************************************************************)
(* While it iterates, a batch has asked for, is asking for and has still   *)
(* to ask for the universe it began with; from then on it has asked for    *)
(* all of it.                                                              *)
(***************************************************************************)
Coverage ==
  /\ batch = "none" => iterator \cup tasks \cup covered \cup universe = {}
  /\ batch = "joining" => iterator = {}
  /\ batch # "none" /\ ~torn => iterator \cup tasks \cup covered = universe

(* Only products of the last answer wait for their details. *)
Catalogue == listed \subseteq answered /\ DetailsAreCurrent

IInv == TypeOK /\ Order /\ Coverage /\ Catalogue

-----------------------------------------------------------------------------
(* The actions, by the part of the state they change                       *)

MainSteps ==
  OnInit \/ Members \/ Connect \/ OnStartReturns \/ SpawnQuerying \/ SpawnStream \/ Feed
    \/ CallbackReturns

UniverseSteps ==
  Unsubscribe \/ Replace \/ Subscribe \/ \E u \in SUBSET Products : UpdateUniverse(u)

CatalogueSteps ==
  Refresh \/ Answer \/ RequestThrows \/ Registered \/ \E p \in Products : Register(p)

StreamSteps == StreamMessage \/ StreamEnqueue \/ StreamReadFails \/ SocketCloses

BatchSteps ==
  BatchBegins \/ PoolJoins \/ BatchEnds \/ \E p \in Products : Post(p) \/ TaskEnds(p)

Ends == KeepAlive \/ MainThrows \/ StreamAborts \/ TaskFails \/ MemoryMisused \/ OnExitThrows

(* Every step is one of these. *)
LEMMA NextCases ==
  ASSUME [Next]_vars
  PROVE  MainSteps \/ UniverseSteps \/ CatalogueSteps \/ StreamSteps \/ BatchSteps
           \/ OnExitReturns \/ Ends \/ UNCHANGED vars
BY DEF Next, Main, Calls, Stream, Batch, Failures, MainSteps, UniverseSteps,
       CatalogueSteps, StreamSteps, BatchSteps, Ends

(* Whatever terminates the process changes nothing else. *)
LEMMA EndsTerminate ==
  ASSUME Ends
  PROVE  \E why \in {"query", "other"} : Terminate(why)
BY DEF Ends, KeepAlive, MainThrows, StreamAborts, TaskFails, MemoryMisused, OnExitThrows

-----------------------------------------------------------------------------
(* Type correctness                                                        *)

(* Initially every variable is of its type. *)
LEMMA InitTypeOK == Init => TypeOK
<1> SUFFICES ASSUME Init
             PROVE  TypeOK
  OBVIOUS
<1>1. ThreadTypes
  BY DEF Init, ThreadTypes
<1>2. ProductTypes
  BY DEF Init, ProductTypes
<1>3. CounterTypes
  BY LifeAssumption DEF Init, CounterTypes
<1> QED
  BY <1>1, <1>2, <1>3 DEF TypeOK

(* Every thread goes from one of its places to another. *)
LEMMA StepThreadTypes == ThreadTypes /\ [Next]_vars => ThreadTypes'
<1> SUFFICES ASSUME ThreadTypes, [Next]_vars
             PROVE  ThreadTypes'
  OBVIOUS
<1> USE DEF ThreadTypes
<1> USE DEF mainVars, universeVars, catalogueVars, batchVars, streamVars, endVars, socketVars
<1>1. CASE MainSteps
  BY <1>1 DEF MainSteps, MainAt, OnInit, Members, Connect, OnStartReturns,
                SpawnQuerying, SpawnStream, Feed, CallbackReturns
<1>2. CASE UniverseSteps
  BY <1>2 DEF UniverseSteps, UpdateUniverse, WriteUniverse, Unsubscribe, Subscribe,
                Replace, During, InUse
<1>3. CASE CatalogueSteps
  BY <1>3 DEF CatalogueSteps, During, Refresh, Answer, RequestThrows, Registered, Register
<1>4. CASE StreamSteps
  BY <1>4 DEF StreamSteps, StreamMessage, StreamEnqueue, StreamReadFails, SocketCloses,
                StreamVarsOnly, Enqueue
<1>5. CASE BatchSteps
  BY <1>5 DEF BatchSteps, BatchBegins, PoolJoins, BatchEnds, Post, TaskEnds, BatchOnly,
                Enqueue
<1>6. CASE OnExitReturns
  BY <1>6 DEF OnExitReturns, ExitAfter
<1>7. CASE Ends
  BY <1>7, EndsTerminate DEF Terminate
<1>8. CASE UNCHANGED vars
  BY <1>8 DEF vars
<1> QED
  BY <1>1, <1>2, <1>3, <1>4, <1>5, <1>6, <1>7, <1>8, NextCases

(* What is copied is made of products. *)
LEMMA StepProductTypes == ProductTypes /\ [Next]_vars => ProductTypes'
<1> SUFFICES ASSUME ProductTypes, [Next]_vars
             PROVE  ProductTypes'
  OBVIOUS
<1> USE DEF ProductTypes
<1> USE DEF mainVars, universeVars, catalogueVars, batchVars, streamVars, endVars, socketVars
<1>1. CASE MainSteps
  BY <1>1 DEF MainSteps, MainAt, OnInit, Members, Connect, OnStartReturns,
                SpawnQuerying, SpawnStream, Feed, CallbackReturns
<1>2. CASE UniverseSteps
  BY <1>2 DEF UniverseSteps, UpdateUniverse, WriteUniverse, Unsubscribe, Subscribe,
                Replace, During, InUse
<1>3. CASE CatalogueSteps
  BY <1>3 DEF CatalogueSteps, During, Refresh, Answer, RequestThrows, Registered, Register
<1>4. CASE StreamSteps
  BY <1>4 DEF StreamSteps, StreamMessage, StreamEnqueue, StreamReadFails, SocketCloses,
                StreamVarsOnly, Enqueue
<1>5. CASE BatchSteps
  BY <1>5 DEF BatchSteps, BatchBegins, PoolJoins, BatchEnds, Post, TaskEnds, BatchOnly,
                Enqueue
<1>6. CASE OnExitReturns
  BY <1>6 DEF OnExitReturns, ExitAfter
<1>7. CASE Ends
  BY <1>7, EndsTerminate DEF Terminate
<1>8. CASE UNCHANGED vars
  BY <1>8 DEF vars
<1> QED
  BY <1>1, <1>2, <1>3, <1>4, <1>5, <1>6, <1>7, <1>8, NextCases

(* Every counter has its bound as a guard; that onExit returns at most once *)
(* needs Order.                                                            *)
LEMMA StepCounterTypes == TypeOK /\ Order /\ [Next]_vars => CounterTypes'
<1> SUFFICES ASSUME TypeOK, Order, [Next]_vars
             PROVE  CounterTypes'
  OBVIOUS
<1> USE DEF CounterTypes, TypeOK
<1> USE DEF mainVars, universeVars, catalogueVars, batchVars, streamVars, endVars, socketVars
<1>1. CASE MainSteps
  BY <1>1, LifeAssumption DEF MainSteps, MainAt, OnInit, Members, Connect, OnStartReturns,
                SpawnQuerying, SpawnStream, Feed, CallbackReturns
<1>2. CASE UniverseSteps
  BY <1>2, LifeAssumption DEF UniverseSteps, UpdateUniverse, WriteUniverse, Unsubscribe, Subscribe,
                Replace, During, InUse
<1>3. CASE CatalogueSteps
  BY <1>3, LifeAssumption DEF CatalogueSteps, During, Refresh, Answer, RequestThrows, Registered, Register
<1>4. CASE StreamSteps
  BY <1>4, LifeAssumption DEF StreamSteps, StreamMessage, StreamEnqueue, StreamReadFails, SocketCloses,
                StreamVarsOnly, Enqueue
<1>5. CASE BatchSteps
  BY <1>5, LifeAssumption DEF BatchSteps, BatchBegins, PoolJoins, BatchEnds, Post, TaskEnds, BatchOnly,
                Enqueue
<1>6. CASE OnExitReturns
  BY <1>6, LifeAssumption DEF OnExitReturns, ExitAfter, Order, ThreadTypes
<1>7. CASE Ends
  BY <1>7, EndsTerminate DEF Terminate
<1>8. CASE UNCHANGED vars
  BY <1>8 DEF vars
<1> QED
  BY <1>1, <1>2, <1>3, <1>4, <1>5, <1>6, <1>7, <1>8, NextCases

(* Every step keeps every variable in its type.                            *)
LEMMA StepTypeOK == TypeOK /\ Order /\ [Next]_vars => TypeOK'
BY StepThreadTypes, StepProductTypes, StepCounterTypes DEF TypeOK

-----------------------------------------------------------------------------
(* The order of the end                                                    *)

(* Initially no thread but the main one exists. *)
LEMMA InitOrder == Init => Order
BY DEF Init, Order

(* A thread is made after onStart, and only a thread that was made fails   *)
(* into onExit.                                                            *)
LEMMA StepOrder == TypeOK /\ Order /\ [Next]_vars => Order'
<1> SUFFICES ASSUME TypeOK, Order, [Next]_vars
             PROVE  Order'
  OBVIOUS
<1> USE DEF Order, mainVars, universeVars, catalogueVars, batchVars, streamVars, endVars,
            socketVars
<1>1. CASE MainSteps
  BY <1>1 DEF MainSteps, MainAt, OnInit, Members, Connect, OnStartReturns, SpawnQuerying,
              SpawnStream, Feed, CallbackReturns
<1>2. CASE UniverseSteps
  BY <1>2 DEF UniverseSteps, UpdateUniverse, WriteUniverse, Unsubscribe, Subscribe, Replace
<1>3. CASE CatalogueSteps
  BY <1>3 DEF CatalogueSteps, Refresh, Answer, RequestThrows, Registered, Register
<1>4. CASE StreamSteps
  BY <1>4 DEF StreamSteps, StreamMessage, StreamEnqueue, StreamReadFails, SocketCloses,
              StreamVarsOnly
<1>5. CASE BatchSteps
  BY <1>5 DEF BatchSteps, BatchBegins, PoolJoins, BatchEnds, Post, TaskEnds, BatchOnly
<1>6. CASE OnExitReturns
  BY <1>6 DEF OnExitReturns, ExitAfter, TypeOK, CounterTypes, ThreadTypes
<1>7. CASE Ends
  BY <1>7, EndsTerminate DEF Terminate
<1>8. CASE UNCHANGED vars
  BY <1>8 DEF vars
<1> QED
  BY <1>1, <1>2, <1>3, <1>4, <1>5, <1>6, <1>7, <1>8, NextCases

-----------------------------------------------------------------------------
(* What a batch covers                                                     *)

(* Initially there is no batch. *)
LEMMA InitCoverage == Init => Coverage
BY DEF Init, Coverage

(* A product moves from the iteration to the tasks to those covered, and   *)
(* the pool is joined before a batch ends.                                 *)
LEMMA StepCoverage == TypeOK /\ Coverage /\ [Next]_vars => Coverage'
<1> SUFFICES ASSUME TypeOK, Coverage, [Next]_vars
             PROVE  Coverage'
  OBVIOUS
<1> USE DEF Coverage, mainVars, universeVars, catalogueVars, batchVars, streamVars, endVars,
            socketVars
<1>1. CASE MainSteps
  BY <1>1 DEF MainSteps, OnInit, Members, Connect, OnStartReturns, SpawnQuerying,
              SpawnStream, Feed, CallbackReturns
<1>2. CASE UniverseSteps
  BY <1>2 DEF UniverseSteps, UpdateUniverse, WriteUniverse, Unsubscribe, Subscribe, Replace,
              TypeOK, ThreadTypes
<1>3. CASE CatalogueSteps
  BY <1>3 DEF CatalogueSteps, Refresh, Answer, RequestThrows, Registered, Register
<1>4. CASE StreamSteps
  BY <1>4 DEF StreamSteps, StreamMessage, StreamEnqueue, StreamReadFails, SocketCloses,
              StreamVarsOnly
<1>5. CASE BatchBegins
  BY <1>5 DEF BatchBegins, BatchOnly
<1>6. CASE PoolJoins
  BY <1>6 DEF PoolJoins, BatchOnly
<1>7. CASE BatchEnds
  BY <1>7 DEF BatchEnds, BatchOnly
<1>8. ASSUME NEW p \in Products, Post(p)
      PROVE  Coverage'
  BY <1>8 DEF Post, BatchOnly
<1>9. ASSUME NEW p \in Products, TaskEnds(p)
      PROVE  Coverage'
  BY <1>9 DEF TaskEnds, BatchOnly
<1>10. CASE OnExitReturns
  BY <1>10 DEF OnExitReturns
<1>11. CASE Ends
  BY <1>11, EndsTerminate DEF Terminate
<1>12. CASE UNCHANGED vars
  BY <1>12 DEF vars
<1> QED
  BY <1>1, <1>2, <1>3, <1>4, <1>5, <1>6, <1>7, <1>8, <1>9, <1>10, <1>11, <1>12, NextCases
     DEF BatchSteps

-----------------------------------------------------------------------------
(* The catalogue of products                                               *)

(* Initially there has been no answer. *)
LEMMA InitCatalogue == Init => Catalogue
BY DEF Init, Catalogue, DetailsAreCurrent

(* An answer clears the map, and its products go over to it one by one,    *)
(* each of which the strategy is told.                                     *)
LEMMA StepCatalogue == Catalogue /\ [Next]_vars => Catalogue'
<1> SUFFICES ASSUME Catalogue, [Next]_vars
             PROVE  Catalogue'
  OBVIOUS
<1> USE DEF Catalogue, DetailsAreCurrent, mainVars, universeVars, catalogueVars, batchVars,
            streamVars, endVars, socketVars
<1>1. CASE MainSteps
  BY <1>1 DEF MainSteps, OnInit, Members, Connect, OnStartReturns, SpawnQuerying,
              SpawnStream, Feed, CallbackReturns
<1>2. CASE UniverseSteps
  BY <1>2 DEF UniverseSteps, UpdateUniverse, WriteUniverse, Unsubscribe, Subscribe, Replace
<1>3. CASE CatalogueSteps
  BY <1>3 DEF CatalogueSteps, During, Refresh, Answer, RequestThrows, Registered, Register
<1>4. CASE StreamSteps
  BY <1>4 DEF StreamSteps, StreamMessage, StreamEnqueue, StreamReadFails, SocketCloses,
              StreamVarsOnly
<1>5. CASE BatchSteps
  BY <1>5 DEF BatchSteps, BatchBegins, PoolJoins, BatchEnds, Post, TaskEnds, BatchOnly
<1>6. CASE OnExitReturns
  BY <1>6 DEF OnExitReturns
<1>7. CASE Ends
  BY <1>7, EndsTerminate DEF Terminate
<1>8. CASE UNCHANGED vars
  BY <1>8 DEF vars
<1> QED
  BY <1>1, <1>2, <1>3, <1>4, <1>5, <1>6, <1>7, <1>8, NextCases

-----------------------------------------------------------------------------
(* The theorems                                                            *)

(* The four parts of the invariant hold in every state. *)
LEMMA Invariance == Spec => []IInv
<1>1. Init => IInv
  BY InitTypeOK, InitOrder, InitCoverage, InitCatalogue DEF IInv
<1>2. IInv /\ [Next]_vars => IInv'
  BY StepTypeOK, StepOrder, StepCoverage, StepCatalogue DEF IInv
<1> QED
  BY <1>1, <1>2, PTL DEF Spec

(* Every variable keeps its type; the queue stays within its capacity and  *)
(* onExit returns once at most.                                            *)
THEOREM TypeCorrect == Spec => []TypeOK
BY Invariance, PTL DEF IInv

(* withHandler: onExit runs after onStart has returned, and the process    *)
(* exits only after onExit has.                                            *)
THEOREM OrderlyExit == Spec => []ExitIsOrderly
<1>1. IInv => ExitIsOrderly
  BY DEF IInv, TypeOK, ThreadTypes, Order, ExitIsOrderly
<1> QED
  BY <1>1, Invariance, PTL

(* makeBarQueries: a batch under which the universe is not replaced asks   *)
(* for all bars of the universe it began with, and for no others.          *)
THEOREM CoveringBatch == Spec => []BatchCoversUniverse
<1>1. IInv => BatchCoversUniverse
  BY DEF IInv, TypeOK, ThreadTypes, Coverage, BatchCoversUniverse
<1> QED
  BY <1>1, Invariance, PTL

(* getProducts: the details are those of the products of the last answer   *)
(* up to one that could not be parsed, however far the refresh has come    *)
(* and however many there have been.                                       *)
THEOREM DetailsStayCurrent == Spec => []DetailsAreCurrent
<1>1. IInv => DetailsAreCurrent
  BY DEF IInv, Catalogue
<1> QED
  BY <1>1, Invariance, PTL
=============================================================================
