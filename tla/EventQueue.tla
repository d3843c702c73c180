----------------------------- MODULE EventQueue ------------------------------
(***************************************************************************)
(* include/cryptoconnect/structs/event_queue.hpp: the queue between the    *)
(* threads that produce events (the stream thread and the pool threads of  *)
(* the bars scheduler) and the main thread that feeds the strategy.  One   *)
(* std::mutex, two condition variables (hasSpace_, hasEvent_), wait with a *)
(* predicate, notify_one.                                                  *)
(*                                                                         *)
(* Each thread runs enqueue or dequeue one step at a time:                 *)
(*   idle    not in a call                                                 *)
(*   lock    called, the unique_lock wants the mutex                       *)
(*   check   owns the mutex, about to evaluate the wait predicate          *)
(*   wait    asleep on its condition variable, mutex released              *)
(*   relock  woken, wants the mutex again                                  *)
(*   notify  owns the mutex, changed the queue, about to notify_one        *)
(*   unlock  owns the mutex, about to leave the scope of the unique_lock   *)
(***************************************************************************)
EXTENDS Naturals, Sequences, FiniteSets

CONSTANTS
  Producers,   (* threads that call enqueue                                *)
  Consumers,   (* threads that call dequeue (the main thread)              *)
  Events,      (* values of the Event variant                              *)
  NoEvent,     (* a default-constructed or moved-from Event                *)
  NoThread,    (* the mutex is free                                        *)
  Capacity,    (* 1000 in the code                                         *)
  MaxSpurious  (* bound: spurious wake-ups in one behaviour                *)

Threads == Producers \cup Consumers

ASSUME ThreadsAssumption ==
  /\ IsFiniteSet(Producers)
  /\ IsFiniteSet(Consumers)
  /\ Producers \cap Consumers = {}
  /\ NoThread \notin Threads

ASSUME QueueAssumption ==
  /\ NoEvent \notin Events
  /\ Capacity \in Nat \ {0}
  /\ MaxSpurious \in Nat

VARIABLES
  mutex,       (* the owner of mutex_                                      *)
  queue,       (* queue_                                                   *)
  pc,          (* where each thread is                                     *)
  item,        (* the arguments of a producer's enqueue, until emplaced    *)
  event,       (* the Event that a consumer passed to dequeue              *)
  spurious     (* spurious wake-ups so far                                 *)

vars == <<mutex, queue, pc, item, event, spurious>>

Labels == {"idle", "lock", "check", "wait", "relock", "notify", "unlock"}

Critical == {"check", "notify", "unlock"}

Waiting(S) == {t \in S : pc[t] = "wait"}

TypeOK ==
  /\ mutex \in Threads \cup {NoThread}
  /\ queue \in Seq(Events)
  /\ pc \in [Threads -> Labels]
  /\ item \in [Producers -> Events \cup {NoEvent}]
  /\ event \in [Consumers -> Events \cup {NoEvent}]
  /\ spurious \in 0 .. MaxSpurious

Init ==
  /\ mutex = NoThread
  /\ queue = <<>>
  /\ pc = [t \in Threads |-> "idle"]
  /\ item = [p \in Producers |-> NoEvent]
  /\ event = [c \in Consumers |-> NoEvent]
  /\ spurious = 0

-----------------------------------------------------------------------------
(* Steps that enqueue and dequeue have in common.                          *)

Goto(t, from, to) == pc[t] = from /\ pc' = [pc EXCEPT ![t] = to]

(* std::unique_lock's constructor, or the end of a condition wait. *)
Lock(t) ==
  /\ mutex = NoThread
  /\ \/ Goto(t, "lock", "check")
     \/ Goto(t, "relock", "check")
  /\ mutex' = t
  /\ UNCHANGED <<queue, item, event, spurious>>

(* Mutant of Sleep: waits without releasing the mutex. *)
SleepHoldingMutex(t) ==
  Goto(t, "check", "wait") /\ UNCHANGED <<mutex, queue, item, event, spurious>>

(* The predicate is false: condition_variable::wait releases and sleeps. *)
Sleep(t) ==
  /\ Goto(t, "check", "wait")
  /\ mutex' = NoThread
  /\ UNCHANGED <<queue, item, event, spurious>>

(* A condition variable may wake a sleeper for no reason. *)
SpuriousWakeup(t) ==
  /\ Goto(t, "wait", "relock")
  /\ spurious < MaxSpurious
  /\ spurious' = spurious + 1
  /\ UNCHANGED <<mutex, queue, item, event>>

(* notify_one wakes one of the sleepers, if there is one. *)
NotifyOne(t, sleepers) ==
  /\ pc[t] = "notify"
  /\ \/ /\ sleepers = {}
        /\ pc' = [pc EXCEPT ![t] = "unlock"]
     \/ \E s \in sleepers : pc' = [pc EXCEPT ![t] = "unlock", ![s] = "relock"]
  /\ UNCHANGED <<mutex, queue, item, event, spurious>>

Unlock(t) ==
  /\ Goto(t, "unlock", "idle")
  /\ mutex' = NoThread
  /\ UNCHANGED <<queue, item, event, spurious>>

-----------------------------------------------------------------------------
(* enqueue *)

(* Mutant of HasSpace: one too many. *)
HasSpaceOffByOne == Len(queue) <= Capacity

HasSpace == Len(queue) < Capacity

Enqueue(p) ==
  /\ Goto(p, "idle", "lock")
  /\ \E e \in Events : item' = [item EXCEPT ![p] = e]
  /\ UNCHANGED <<mutex, queue, event, spurious>>

WaitForSpace(p) == ~HasSpace /\ Sleep(p)

(* Mutant of Emplace: the arguments are moved from before they are used. *)
EmplaceMovedFrom(p) ==
  /\ Goto(p, "check", "notify")
  /\ HasSpace
  /\ item' = [item EXCEPT ![p] = NoEvent]
  /\ queue' = Append(queue, item'[p])
  /\ UNCHANGED <<mutex, event, spurious>>

Emplace(p) ==
  /\ Goto(p, "check", "notify")
  /\ HasSpace
  /\ queue' = Append(queue, item[p])
  /\ item' = [item EXCEPT ![p] = NoEvent]
  /\ UNCHANGED <<mutex, event, spurious>>

(* Mutant of NotifyHasEvent: notifies the wrong condition variable. *)
NotifyHasSpaceInstead(p) == NotifyOne(p, Waiting(Producers))

NotifyHasEvent(p) == NotifyOne(p, Waiting(Consumers))

-----------------------------------------------------------------------------
(* dequeue *)

HasEvent == queue # <<>>

(* feedStrategyForever constructs an empty Event and calls dequeue with it. *)
Dequeue(c) ==
  /\ Goto(c, "idle", "lock")
  /\ event' = [event EXCEPT ![c] = NoEvent]
  /\ UNCHANGED <<mutex, queue, item, spurious>>

WaitForEvent(c) == ~HasEvent /\ Sleep(c)

(* Mutant of Pop: takes the newest event instead of the oldest. *)
PopBack(c) ==
  /\ Goto(c, "check", "notify")
  /\ HasEvent
  /\ event' = [event EXCEPT ![c] = queue[Len(queue)]]
  /\ queue' = SubSeq(queue, 1, Len(queue) - 1)
  /\ UNCHANGED <<mutex, item, spurious>>

Pop(c) ==
  /\ Goto(c, "check", "notify")
  /\ HasEvent
  /\ event' = [event EXCEPT ![c] = Head(queue)]
  /\ queue' = Tail(queue)
  /\ UNCHANGED <<mutex, item, spurious>>

(* Mutant of NotifyHasSpace: notifies only when the queue was full, which  *)
(* wakes one of two sleeping producers for two free slots.                 *)
NotifyIfWasFull(c) ==
  NotifyOne(c, IF Len(queue) = Capacity - 1 THEN Waiting(Producers) ELSE {})

(* Mutant of NotifyHasSpace: no notification at all. *)
NotifyNobody(c) == NotifyOne(c, {})

NotifyHasSpace(c) == NotifyOne(c, Waiting(Producers))

-----------------------------------------------------------------------------
(* The steps that a thread inside a producer's or a consumer's call takes. *)
InEnqueue(p) ==
  Lock(p) \/ WaitForSpace(p) \/ Emplace(p) \/ NotifyHasEvent(p) \/ Unlock(p)

InDequeue(c) ==
  Lock(c) \/ WaitForEvent(c) \/ Pop(c) \/ NotifyHasSpace(c) \/ Unlock(c)

Next ==
  \/ \E p \in Producers : Enqueue(p) \/ InEnqueue(p) \/ SpuriousWakeup(p)
  \/ \E c \in Consumers : Dequeue(c) \/ InDequeue(c) \/ SpuriousWakeup(c)

(***************************************************************************)
(* Weak fairness only: a scheduled thread runs on, a free mutex is taken   *)
(* by a thread that keeps asking for it, and the strategy's callback       *)
(* returns so that the main thread calls dequeue again.  No producer has   *)
(* to call enqueue, and std::mutex promises no thread its turn.            *)
(***************************************************************************)
Fairness ==
  /\ \A p \in Producers : WF_vars(InEnqueue(p))
  /\ \A c \in Consumers : WF_vars(InDequeue(c)) /\ WF_vars(Dequeue(c))

SafeSpec == Init /\ [][Next]_vars

Spec == SafeSpec /\ Fairness

-----------------------------------------------------------------------------
(* Properties *)

(***************************************************************************)
(* The critical sections of enqueue and dequeue exclude one another, also  *)
(* across the release and re-acquisition inside condition_variable::wait.  *)
(***************************************************************************)
MutualExclusion == \A t \in Threads : pc[t] \in Critical <=> mutex = t

(***************************************************************************)
(* The bound of 1000: a woken producer may find its slot taken by another  *)
(* one that never slept, and must not add an event beyond the capacity.    *)
(***************************************************************************)
WithinCapacity == Len(queue) <= Capacity

(***************************************************************************)
(* Wake-ups under way to producers: those woken or already checking, and   *)
(* the consumers that have made room but not notified yet.  Symmetrically  *)
(* to consumers.                                                           *)
(***************************************************************************)
Awake(S) == {t \in S : pc[t] \in {"relock", "check"}}
Notifying(S) == {t \in S : pc[t] = "notify"}

SpaceWakeups == Awake(Producers) \cup Notifying(Consumers)
EventWakeups == Awake(Consumers) \cup Notifying(Producers)

(***************************************************************************)
(* While a producer sleeps on hasSpace_, there are at least as many        *)
(* wake-ups under way as there are free slots; while a consumer sleeps on  *)
(* hasEvent_, as many as there are events.  This is what makes notify_one  *)
(* (rather than notify_all) enough.                                        *)
(***************************************************************************)
SpaceCredit ==
  Waiting(Producers) # {} => Capacity - Len(queue) <= Cardinality(SpaceWakeups)
EventCredit ==
  Waiting(Consumers) # {} => Len(queue) <= Cardinality(EventWakeups)
WakeupCredit == SpaceCredit /\ EventCredit

(***************************************************************************)
(* No wake-up is lost: no thread of enqueue or dequeue sleeps on a         *)
(* condition that is true unless another one is about to act on it.        *)
(***************************************************************************)
NoLostWakeup ==
  /\ Waiting(Producers) # {} /\ HasSpace => SpaceWakeups # {}
  /\ Waiting(Consumers) # {} /\ HasEvent => EventWakeups # {}

(***************************************************************************)
(* enqueue and dequeue implement the bounded FIFO: no event is lost,       *)
(* duplicated or overtaken, whatever the interleaving.                     *)
(***************************************************************************)
Fifo == INSTANCE BoundedFifo WITH buffer <- queue, offered <- item, taken <- event

ImplementsFifo == Fifo!SafeSpec

(***************************************************************************)
(* The queue never stalls: with room and a pending enqueue some event gets *)
(* in, with events and an idle strategy one is delivered.                  *)
(***************************************************************************)
FifoProgress == Fifo!Fairness
=============================================================================
