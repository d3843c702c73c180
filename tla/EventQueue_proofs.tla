-------------------------- MODULE EventQueue_proofs --------------------------
(***************************************************************************)
(* Proofs that Events::Queue is safe for every number of threads, every    *)
(* capacity and every set of events.                                       *)
(*                                                                         *)
(* The inductive invariant is IInv.  Its conjunct WakeupCredit counts the  *)
(* wake-ups under way; NoLostWakeup alone is not inductive: after a Pop    *)
(* that leaves two free slots and two sleepers, one more wake-up must be   *)
(* on its way than NoLostWakeup asks for.                                  *)
(***************************************************************************)
EXTENDS EventQueue, FiniteSetTheorems, SequenceTheorems, TLAPS

(* The call a thread is in before it has changed the queue. *)
Pending == {"lock", "check", "wait", "relock"}

(***************************************************************************)
(* A producer holds an event exactly while its call has not emplaced it; a *)
(* consumer's Event is empty while its call has not moved one into it.     *)
(***************************************************************************)
InHand ==
  /\ \A p \in Producers : pc[p] \in Pending <=> item[p] # NoEvent
  /\ \A c \in Consumers : pc[c] \in Pending => event[c] = NoEvent

IInv == TypeOK /\ MutualExclusion /\ InHand /\ WithinCapacity /\ WakeupCredit

-----------------------------------------------------------------------------
(* Type correctness                                                        *)

(* Initially every variable is of its type. *)
LEMMA InitTypeOK == Init => TypeOK
  BY QueueAssumption, EmptySeq DEF Init, TypeOK, Labels

(* Every step keeps every variable in its type; only Emplace and Pop need  *)
(* more than the shape of the assignment.                                  *)
LEMMA StepTypeOK == TypeOK /\ InHand /\ [Next]_vars => TypeOK'
<1> SUFFICES ASSUME TypeOK, InHand, [Next]_vars
             PROVE  TypeOK'
  OBVIOUS
<1> USE DEF TypeOK
<1>1. ASSUME NEW t \in Threads, Lock(t) \/ Sleep(t) \/ Unlock(t) \/ SpuriousWakeup(t)
      PROVE  TypeOK'
  BY <1>1, QueueAssumption DEF Lock, Sleep, Unlock, SpuriousWakeup, Goto, Labels
<1>2. ASSUME NEW t \in Threads, NEW S \in SUBSET Threads, NotifyOne(t, S)
      PROVE  TypeOK'
  BY <1>2 DEF NotifyOne, Labels
<1>3. ASSUME NEW p \in Producers, Enqueue(p)
      PROVE  TypeOK'
  BY <1>3 DEF Enqueue, Goto, Threads, Labels
<1>4. ASSUME NEW p \in Producers, Emplace(p)
      PROVE  TypeOK'
  <2>1. item[p] \in Events
    BY <1>4 DEF Emplace, Goto, InHand, Pending
  <2>2. queue' \in Seq(Events)
    BY <1>4, <2>1, AppendProperties DEF Emplace
  <2> QED
    BY <1>4, <2>2 DEF Emplace, Goto, Threads, Labels
<1>5. ASSUME NEW c \in Consumers, Dequeue(c)
      PROVE  TypeOK'
  BY <1>5 DEF Dequeue, Goto, Threads, Labels
<1>6. ASSUME NEW c \in Consumers, Pop(c)
      PROVE  TypeOK'
  <2>1. Head(queue) \in Events /\ queue' \in Seq(Events)
    BY <1>6, HeadTailProperties DEF Pop, HasEvent
  <2> QED
    BY <1>6, <2>1 DEF Pop, Goto, Threads, Labels
<1>7. CASE UNCHANGED vars
  BY <1>7 DEF vars
<1> QED
  BY <1>1, <1>2, <1>3, <1>4, <1>5, <1>6, <1>7
     DEF Next, InEnqueue, InDequeue, WaitForSpace, WaitForEvent, NotifyHasEvent,
         NotifyHasSpace, Waiting, Threads

-----------------------------------------------------------------------------
(* What the threads have in hand                                           *)

(* Initially no producer has an event to put and no consumer has one. *)
LEMMA InitInHand == Init => InHand
  BY DEF Init, InHand, Pending, Threads

(* A call takes up its event at its start and lets go of it when it        *)
(* changes the queue.                                                      *)
LEMMA StepInHand == TypeOK /\ InHand /\ [Next]_vars => InHand'
<1> SUFFICES ASSUME TypeOK, InHand, [Next]_vars
             PROVE  InHand'
  OBVIOUS
<1> USE DEF TypeOK, InHand, Pending
<1>1. ASSUME NEW t \in Threads, Lock(t) \/ Sleep(t) \/ Unlock(t) \/ SpuriousWakeup(t)
      PROVE  InHand'
  BY <1>1 DEF Lock, Sleep, Unlock, SpuriousWakeup, Goto, Threads
<1>2. ASSUME NEW t \in Threads, NEW S, NotifyOne(t, Waiting(S))
      PROVE  InHand'
  BY <1>2 DEF NotifyOne, Threads, Waiting
<1>3. ASSUME NEW p \in Producers, Enqueue(p) \/ Emplace(p)
      PROVE  InHand'
  BY <1>3, QueueAssumption, ThreadsAssumption DEF Enqueue, Emplace, Goto, Threads
<1>4. ASSUME NEW c \in Consumers, Dequeue(c) \/ Pop(c)
      PROVE  InHand'
  BY <1>4, ThreadsAssumption DEF Dequeue, Pop, Goto, Threads
<1>5. CASE UNCHANGED vars
  BY <1>5 DEF vars
<1> QED
  BY <1>1, <1>2, <1>3, <1>4, <1>5
     DEF Next, InEnqueue, InDequeue, WaitForSpace, WaitForEvent, NotifyHasEvent,
         NotifyHasSpace, Threads

-----------------------------------------------------------------------------
(* Mutual exclusion and the bound                                          *)

(* Initially no thread is in a critical section and the mutex is free. *)
LEMMA InitMutex == Init => MutualExclusion /\ WithinCapacity
  BY ThreadsAssumption, QueueAssumption, EmptySeq
     DEF Init, MutualExclusion, WithinCapacity, Critical

(* The mutex follows the critical sections, through the release and the    *)
(* re-acquisition in condition_variable::wait.                             *)
LEMMA StepMutex == TypeOK /\ MutualExclusion /\ [Next]_vars => MutualExclusion'
<1> SUFFICES ASSUME TypeOK, MutualExclusion, [Next]_vars
             PROVE  MutualExclusion'
  OBVIOUS
<1> USE DEF TypeOK, MutualExclusion, Critical
<1>1. ASSUME NEW t \in Threads, Lock(t) \/ Sleep(t) \/ Unlock(t) \/ SpuriousWakeup(t)
      PROVE  MutualExclusion'
  BY <1>1, ThreadsAssumption DEF Lock, Sleep, Unlock, SpuriousWakeup, Goto
<1>2. ASSUME NEW t \in Threads, NEW S, NotifyOne(t, Waiting(S))
      PROVE  MutualExclusion'
  BY <1>2 DEF NotifyOne, Waiting
<1>3. ASSUME NEW p \in Producers, Enqueue(p) \/ Emplace(p)
      PROVE  MutualExclusion'
  BY <1>3 DEF Enqueue, Emplace, Goto, Threads
<1>4. ASSUME NEW c \in Consumers, Dequeue(c) \/ Pop(c)
      PROVE  MutualExclusion'
  BY <1>4 DEF Dequeue, Pop, Goto, Threads
<1>5. CASE UNCHANGED vars
  BY <1>5 DEF vars
<1> QED
  BY <1>1, <1>2, <1>3, <1>4, <1>5
     DEF Next, InEnqueue, InDequeue, WaitForSpace, WaitForEvent, NotifyHasEvent,
         NotifyHasSpace, Threads

(* Only Emplace and Pop change the queue's length, by one, under their     *)
(* guards.                                                                 *)
LEMMA EmplaceLength ==
  ASSUME TypeOK, InHand, NEW p \in Producers, Emplace(p)
  PROVE  Len(queue') = Len(queue) + 1 /\ Len(queue) \in Nat /\ Len(queue) < Capacity
<1>1. item[p] \in Events
  BY DEF Emplace, Goto, InHand, Pending, TypeOK
<1> QED
  BY <1>1, AppendProperties, LenProperties DEF Emplace, HasSpace, TypeOK

LEMMA PopLength ==
  ASSUME TypeOK, NEW c \in Consumers, Pop(c)
  PROVE  Len(queue') = Len(queue) - 1 /\ Len(queue) \in Nat \ {0}
  BY HeadTailProperties, EmptySeq DEF Pop, HasEvent, TypeOK

(* No step takes the queue beyond its capacity. *)
LEMMA StepWithinCapacity ==
  TypeOK /\ InHand /\ WithinCapacity /\ [Next]_vars => WithinCapacity'
<1> SUFFICES ASSUME TypeOK, InHand, WithinCapacity, [Next]_vars
             PROVE  WithinCapacity'
  OBVIOUS
<1>1. ASSUME NEW p \in Producers, Emplace(p)
      PROVE  WithinCapacity'
  BY <1>1, EmplaceLength, QueueAssumption DEF WithinCapacity
<1>2. ASSUME NEW c \in Consumers, Pop(c)
      PROVE  WithinCapacity'
  BY <1>2, PopLength, QueueAssumption DEF WithinCapacity
<1>3. CASE UNCHANGED queue
  BY <1>3 DEF WithinCapacity
<1> QED
  BY <1>1, <1>2, <1>3
     DEF Next, InEnqueue, InDequeue, WaitForSpace, WaitForEvent, NotifyHasEvent,
         NotifyHasSpace, Lock, Sleep, Unlock, SpuriousWakeup, NotifyOne, Enqueue,
         Dequeue, vars

-----------------------------------------------------------------------------
(* The credit of wake-ups                                                  *)

(* Threads are finitely many, so wake-ups can be counted, before a step    *)
(* and after it.                                                           *)
LEMMA WakeupsFinite ==
  /\ IsFiniteSet(SpaceWakeups) /\ Cardinality(SpaceWakeups) \in Nat
  /\ IsFiniteSet(EventWakeups) /\ Cardinality(EventWakeups) \in Nat
  /\ IsFiniteSet(SpaceWakeups') /\ Cardinality(SpaceWakeups') \in Nat
  /\ IsFiniteSet(EventWakeups') /\ Cardinality(EventWakeups') \in Nat
<1>1. IsFiniteSet(Threads)
  BY ThreadsAssumption, FS_Union DEF Threads
<1>2. /\ SpaceWakeups \in SUBSET Threads /\ EventWakeups \in SUBSET Threads
      /\ SpaceWakeups' \in SUBSET Threads /\ EventWakeups' \in SUBSET Threads
  BY DEF SpaceWakeups, EventWakeups, Awake, Notifying, Threads
<1> QED
  BY <1>1, <1>2, FS_Subset, FS_CardinalityType

(* A member exchanged for an outsider leaves the count as it was. *)
LEMMA ExchangeCount ==
  ASSUME NEW W, IsFiniteSet(W), NEW x \in W, NEW y, y \notin W \ {x}
  PROVE  Cardinality((W \ {x}) \cup {y}) = Cardinality(W)
<1>1. /\ IsFiniteSet(W \ {x})
      /\ Cardinality(W \ {x}) = Cardinality(W) - 1
  BY FS_RemoveElement
<1>2. Cardinality((W \ {x}) \cup {y}) = Cardinality(W \ {x}) + 1
  BY <1>1, FS_AddElement
<1> QED
  BY <1>1, <1>2, FS_CardinalityType

(* What one step may do to a credit: the sleepers do not become more, the  *)
(* wake-ups under way do not become fewer.                                 *)
LEMMA CreditKept ==
  ASSUME NEW W, NEW V, IsFiniteSet(V), W \subseteq V,
         NEW n \in Int, n <= Cardinality(W)
  PROVE  n <= Cardinality(V)
<1>1. IsFiniteSet(W) /\ Cardinality(W) <= Cardinality(V)
  BY FS_Subset
<1>2. Cardinality(W) \in Nat /\ Cardinality(V) \in Nat
  BY <1>1, FS_CardinalityType
<1> QED
  BY <1>1, <1>2

(* Taking the lock, leaving it, starting a call and waking for no reason   *)
(* leave the queue alone, put nobody to sleep and end no wake-up.          *)
LEMMA QuietStep ==
  ASSUME TypeOK, WakeupCredit,
         \/ \E t \in Threads : Lock(t) \/ Unlock(t) \/ SpuriousWakeup(t)
         \/ \E p \in Producers : Enqueue(p)
         \/ \E c \in Consumers : Dequeue(c)
  PROVE  WakeupCredit'
<1>1. /\ queue' = queue
      /\ Waiting(Producers)' \subseteq Waiting(Producers)
      /\ Waiting(Consumers)' \subseteq Waiting(Consumers)
      /\ SpaceWakeups \subseteq SpaceWakeups'
      /\ EventWakeups \subseteq EventWakeups'
  BY DEF TypeOK, Lock, Unlock, SpuriousWakeup, Enqueue, Dequeue, Goto, Threads,
         Waiting, SpaceWakeups, EventWakeups, Awake, Notifying
<1>2. IsFiniteSet(SpaceWakeups') /\ IsFiniteSet(EventWakeups')
  BY WakeupsFinite
<1>3. Len(queue) \in Nat
  BY LenProperties DEF TypeOK
<1>4. ASSUME Waiting(Producers)' # {}
      PROVE  Capacity - Len(queue') <= Cardinality(SpaceWakeups')
  BY <1>1, <1>2, <1>3, <1>4, CreditKept, QueueAssumption
     DEF WakeupCredit, SpaceCredit
<1>5. ASSUME Waiting(Consumers)' # {}
      PROVE  Len(queue') <= Cardinality(EventWakeups')
  BY <1>1, <1>2, <1>3, <1>5, CreditKept DEF WakeupCredit, EventCredit
<1> QED
  BY <1>4, <1>5 DEF WakeupCredit, SpaceCredit, EventCredit

(* A producer goes to sleep only when there is no room: no credit needed. *)
LEMMA WaitForSpaceStep ==
  ASSUME TypeOK, WakeupCredit, NEW p \in Producers, WaitForSpace(p)
  PROVE  WakeupCredit'
<1>1. Len(queue) \in Nat /\ Len(queue) >= Capacity /\ queue' = queue
  BY LenProperties, QueueAssumption DEF TypeOK, WaitForSpace, Sleep, HasSpace
<1>2. Cardinality(SpaceWakeups') \in Nat
  BY WakeupsFinite
<1>3. Waiting(Consumers)' = Waiting(Consumers) /\ EventWakeups' = EventWakeups
  BY ThreadsAssumption
     DEF TypeOK, WaitForSpace, Sleep, Goto, Threads, Waiting, EventWakeups, Awake,
         Notifying
<1> QED
  BY <1>1, <1>2, <1>3, QueueAssumption DEF WakeupCredit, SpaceCredit, EventCredit

(* A consumer goes to sleep only when there is no event. *)
LEMMA WaitForEventStep ==
  ASSUME TypeOK, WakeupCredit, NEW c \in Consumers, WaitForEvent(c)
  PROVE  WakeupCredit'
<1>1. Len(queue) = 0 /\ queue' = queue
  BY EmptySeq DEF TypeOK, WaitForEvent, Sleep, HasEvent
<1>2. Cardinality(EventWakeups') \in Nat
  BY WakeupsFinite
<1>3. Waiting(Producers)' = Waiting(Producers) /\ SpaceWakeups' = SpaceWakeups
  BY ThreadsAssumption
     DEF TypeOK, WaitForEvent, Sleep, Goto, Threads, Waiting, SpaceWakeups, Awake,
         Notifying
<1> QED
  BY <1>1, <1>2, <1>3 DEF WakeupCredit, SpaceCredit, EventCredit

(* Emplace uses up the slot and the wake-up its producer stood for, and    *)
(* brings the event together with the notification of it.                  *)
LEMMA EmplaceStep ==
  ASSUME TypeOK, InHand, WakeupCredit, NEW p \in Producers, Emplace(p)
  PROVE  WakeupCredit'
<1>1. Len(queue') = Len(queue) + 1 /\ Len(queue) \in Nat
  BY EmplaceLength
<1>2. /\ Waiting(Producers)' = Waiting(Producers)
      /\ Waiting(Consumers)' = Waiting(Consumers)
  BY DEF TypeOK, Emplace, Goto, Waiting, Threads
<1>3. p \in SpaceWakeups /\ SpaceWakeups' = SpaceWakeups \ {p}
  BY ThreadsAssumption
     DEF TypeOK, Emplace, Goto, Threads, SpaceWakeups, Awake, Notifying
<1>4. p \notin EventWakeups /\ EventWakeups' = EventWakeups \cup {p}
  BY ThreadsAssumption
     DEF TypeOK, Emplace, Goto, Threads, EventWakeups, Awake, Notifying
<1>5. /\ Cardinality(SpaceWakeups') = Cardinality(SpaceWakeups) - 1
      /\ Cardinality(EventWakeups') = Cardinality(EventWakeups) + 1
  BY <1>3, <1>4, WakeupsFinite, FS_RemoveElement, FS_AddElement
<1> QED
  BY <1>1, <1>2, <1>5, WakeupsFinite, QueueAssumption
     DEF WakeupCredit, SpaceCredit, EventCredit

(* Pop, the mirror image of Emplace. *)
LEMMA PopStep ==
  ASSUME TypeOK, WakeupCredit, NEW c \in Consumers, Pop(c)
  PROVE  WakeupCredit'
<1>1. Len(queue') = Len(queue) - 1 /\ Len(queue) \in Nat
  BY PopLength
<1>2. /\ Waiting(Producers)' = Waiting(Producers)
      /\ Waiting(Consumers)' = Waiting(Consumers)
  BY DEF TypeOK, Pop, Goto, Waiting, Threads
<1>3. c \in EventWakeups /\ EventWakeups' = EventWakeups \ {c}
  BY ThreadsAssumption
     DEF TypeOK, Pop, Goto, Threads, EventWakeups, Awake, Notifying
<1>4. c \notin SpaceWakeups /\ SpaceWakeups' = SpaceWakeups \cup {c}
  BY ThreadsAssumption
     DEF TypeOK, Pop, Goto, Threads, SpaceWakeups, Awake, Notifying
<1>5. /\ Cardinality(EventWakeups') = Cardinality(EventWakeups) - 1
      /\ Cardinality(SpaceWakeups') = Cardinality(SpaceWakeups) + 1
  BY <1>3, <1>4, WakeupsFinite, FS_RemoveElement, FS_AddElement
<1> QED
  BY <1>1, <1>2, <1>5, WakeupsFinite, QueueAssumption
     DEF WakeupCredit, SpaceCredit, EventCredit

(* notify_one passes the notifier's credit on to the sleeper it wakes; if  *)
(* there is no sleeper no credit is needed.                                *)
LEMMA NotifyHasEventStep ==
  ASSUME TypeOK, WakeupCredit, NEW p \in Producers, NotifyHasEvent(p)
  PROVE  WakeupCredit'
<1>1. queue' = queue /\ Len(queue) \in Nat
  BY LenProperties DEF TypeOK, NotifyHasEvent, NotifyOne
<1>2. Waiting(Producers)' = Waiting(Producers) /\ SpaceWakeups' = SpaceWakeups
  BY ThreadsAssumption
     DEF TypeOK, NotifyHasEvent, NotifyOne, Threads, Waiting, SpaceWakeups, Awake,
         Notifying
<1>3. CASE Waiting(Consumers) = {}
  <2>1. Waiting(Consumers)' = {}
    BY <1>3, ThreadsAssumption DEF TypeOK, NotifyHasEvent, NotifyOne, Threads, Waiting
  <2> QED
    BY <1>1, <1>2, <2>1 DEF WakeupCredit, SpaceCredit, EventCredit
<1>4. CASE Waiting(Consumers) # {}
  <2>1. PICK s \in Waiting(Consumers) :
               pc' = [pc EXCEPT ![p] = "unlock", ![s] = "relock"]
    BY <1>4 DEF NotifyHasEvent, NotifyOne
  <2>2. /\ p \in EventWakeups /\ s \notin EventWakeups \ {p}
        /\ EventWakeups' = (EventWakeups \ {p}) \cup {s}
    BY <2>1, ThreadsAssumption
       DEF TypeOK, NotifyHasEvent, NotifyOne, Threads, Waiting, EventWakeups, Awake,
           Notifying
  <2>3. Cardinality(EventWakeups') = Cardinality(EventWakeups)
    BY <2>2, WakeupsFinite, ExchangeCount
  <2> QED
    BY <1>1, <1>2, <1>4, <2>3 DEF WakeupCredit, SpaceCredit, EventCredit
<1> QED
  BY <1>3, <1>4

LEMMA NotifyHasSpaceStep ==
  ASSUME TypeOK, WakeupCredit, NEW c \in Consumers, NotifyHasSpace(c)
  PROVE  WakeupCredit'
<1>1. queue' = queue /\ Len(queue) \in Nat
  BY LenProperties DEF TypeOK, NotifyHasSpace, NotifyOne
<1>2. Waiting(Consumers)' = Waiting(Consumers) /\ EventWakeups' = EventWakeups
  BY ThreadsAssumption
     DEF TypeOK, NotifyHasSpace, NotifyOne, Threads, Waiting, EventWakeups, Awake,
         Notifying
<1>3. CASE Waiting(Producers) = {}
  <2>1. Waiting(Producers)' = {}
    BY <1>3, ThreadsAssumption DEF TypeOK, NotifyHasSpace, NotifyOne, Threads, Waiting
  <2> QED
    BY <1>1, <1>2, <2>1 DEF WakeupCredit, SpaceCredit, EventCredit
<1>4. CASE Waiting(Producers) # {}
  <2>1. PICK s \in Waiting(Producers) :
               pc' = [pc EXCEPT ![c] = "unlock", ![s] = "relock"]
    BY <1>4 DEF NotifyHasSpace, NotifyOne
  <2>2. /\ c \in SpaceWakeups /\ s \notin SpaceWakeups \ {c}
        /\ SpaceWakeups' = (SpaceWakeups \ {c}) \cup {s}
    BY <2>1, ThreadsAssumption
       DEF TypeOK, NotifyHasSpace, NotifyOne, Threads, Waiting, SpaceWakeups, Awake,
           Notifying
  <2>3. Cardinality(SpaceWakeups') = Cardinality(SpaceWakeups)
    BY <2>2, WakeupsFinite, ExchangeCount
  <2> QED
    BY <1>1, <1>2, <1>4, <2>3 DEF WakeupCredit, SpaceCredit, EventCredit
<1> QED
  BY <1>3, <1>4

(* Initially nobody sleeps. *)
LEMMA InitWakeupCredit == Init => WakeupCredit
  BY DEF Init, WakeupCredit, SpaceCredit, EventCredit, Waiting, Threads

(* Every step preserves the credit. *)
LEMMA StepWakeupCredit ==
  TypeOK /\ InHand /\ WakeupCredit /\ [Next]_vars => WakeupCredit'
<1> SUFFICES ASSUME TypeOK, InHand, WakeupCredit, [Next]_vars
             PROVE  WakeupCredit'
  OBVIOUS
<1>1. CASE \E t \in Threads : Lock(t) \/ Unlock(t) \/ SpuriousWakeup(t)
  BY <1>1, QuietStep
<1>2. CASE (\E p \in Producers : Enqueue(p)) \/ (\E c \in Consumers : Dequeue(c))
  BY <1>2, QuietStep
<1>3. ASSUME NEW p \in Producers, WaitForSpace(p) \/ Emplace(p) \/ NotifyHasEvent(p)
      PROVE  WakeupCredit'
  BY <1>3, WaitForSpaceStep, EmplaceStep, NotifyHasEventStep
<1>4. ASSUME NEW c \in Consumers, WaitForEvent(c) \/ Pop(c) \/ NotifyHasSpace(c)
      PROVE  WakeupCredit'
  BY <1>4, WaitForEventStep, PopStep, NotifyHasSpaceStep
<1>5. CASE UNCHANGED vars
  BY <1>5 DEF vars, WakeupCredit, SpaceCredit, EventCredit, Waiting, SpaceWakeups,
              EventWakeups, Awake, Notifying
<1> QED
  BY <1>1, <1>2, <1>3, <1>4, <1>5 DEF Next, InEnqueue, InDequeue, Threads

-----------------------------------------------------------------------------
(* The invariants                                                          *)

(* The inductive invariant holds in every reachable state. *)
THEOREM Invariance == SafeSpec => []IInv
<1>1. Init => IInv
  BY InitTypeOK, InitInHand, InitMutex, InitWakeupCredit DEF IInv
<1>2. IInv /\ [Next]_vars => IInv'
  BY StepTypeOK, StepInHand, StepMutex, StepWithinCapacity, StepWakeupCredit DEF IInv
<1> QED
  BY <1>1, <1>2, PTL DEF SafeSpec

(* The fair specification has no more behaviours than the safe one. *)
LEMMA SpecIsSafe == Spec => SafeSpec
  BY DEF Spec

(* Every variable keeps its type. *)
THEOREM TypeCorrect == Spec => []TypeOK
<1>1. IInv => TypeOK
  BY DEF IInv
<1> QED
  BY <1>1, Invariance, SpecIsSafe, PTL

(* The critical sections of enqueue and dequeue exclude one another. *)
THEOREM Exclusion == Spec => []MutualExclusion
<1>1. IInv => MutualExclusion
  BY DEF IInv
<1> QED
  BY <1>1, Invariance, SpecIsSafe, PTL

(* The queue never exceeds its capacity. *)
THEOREM Bounded == Spec => []WithinCapacity
<1>1. IInv => WithinCapacity
  BY DEF IInv
<1> QED
  BY <1>1, Invariance, SpecIsSafe, PTL

(* Enough wake-ups are always under way. *)
THEOREM CreditCorrect == Spec => []WakeupCredit
<1>1. IInv => WakeupCredit
  BY DEF IInv
<1> QED
  BY <1>1, Invariance, SpecIsSafe, PTL

(* notify_one is enough: no wake-up is ever lost. *)
THEOREM WakeupsNotLost == Spec => []NoLostWakeup
<1>1. IInv => NoLostWakeup
  <2> SUFFICES ASSUME IInv PROVE NoLostWakeup
    OBVIOUS
  <2>1. Len(queue) \in Nat /\ (HasEvent => Len(queue) > 0)
    BY LenProperties, EmptySeq DEF IInv, TypeOK, HasEvent
  <2>2. Capacity \in Nat /\ (HasSpace => Capacity - Len(queue) > 0)
    BY <2>1, QueueAssumption DEF HasSpace
  <2>3. /\ SpaceWakeups = {} => Cardinality(SpaceWakeups) = 0
        /\ EventWakeups = {} => Cardinality(EventWakeups) = 0
    BY FS_EmptySet
  <2>4. ASSUME Waiting(Producers) # {}, HasSpace
        PROVE  SpaceWakeups # {}
    BY <2>1, <2>2, <2>3, <2>4 DEF IInv, WakeupCredit, SpaceCredit
  <2>5. ASSUME Waiting(Consumers) # {}, HasEvent
        PROVE  EventWakeups # {}
    BY <2>1, <2>3, <2>5 DEF IInv, WakeupCredit, EventCredit
  <2> QED
    BY <2>4, <2>5 DEF NoLostWakeup
<1> QED
  BY <1>1, Invariance, SpecIsSafe, PTL

-----------------------------------------------------------------------------
(* Refinement of the bounded FIFO                                          *)

(* The initial states are initial states of the FIFO. *)
LEMMA InitFifo == Init => Fifo!Init
  BY DEF Init, Fifo!Init

(* Enqueue, Emplace, Pop and Dequeue are the FIFO's Offer, Put, Get and    *)
(* Finish; every other step, and a Dequeue with nothing to finish, leaves  *)
(* the FIFO as it is.                                                      *)
LEMMA StepFifo == TypeOK /\ InHand /\ [Next]_vars => [Fifo!Next]_(Fifo!fifoVars)
<1> SUFFICES ASSUME TypeOK, InHand, [Next]_vars
             PROVE  Fifo!Next \/ UNCHANGED Fifo!fifoVars
  OBVIOUS
<1>1. ASSUME NEW p \in Producers, Enqueue(p)
      PROVE  Fifo!Offer(p)
  BY <1>1 DEF Enqueue, Goto, InHand, Pending, Fifo!Offer
<1>2. ASSUME NEW p \in Producers, Emplace(p)
      PROVE  Fifo!Put(p)
  BY <1>2 DEF Emplace, Goto, HasSpace, InHand, Pending, Fifo!Put
<1>3. ASSUME NEW c \in Consumers, Pop(c)
      PROVE  Fifo!Get(c)
  BY <1>3 DEF Pop, Goto, HasEvent, InHand, Pending, Fifo!Get
<1>4. ASSUME NEW c \in Consumers, Dequeue(c)
      PROVE  Fifo!Finish(c) \/ UNCHANGED Fifo!fifoVars
  <2>1. CASE event[c] = NoEvent
    BY <1>4, <2>1 DEF Dequeue, TypeOK, Fifo!fifoVars
  <2>2. CASE event[c] # NoEvent
    BY <1>4, <2>2 DEF Dequeue, Fifo!Finish
  <2> QED
    BY <2>1, <2>2
<1>5. ASSUME NEW t \in Threads,
             \/ Lock(t) \/ Sleep(t) \/ Unlock(t) \/ SpuriousWakeup(t)
             \/ NotifyOne(t, Waiting(Consumers)) \/ NotifyOne(t, Waiting(Producers))
      PROVE  UNCHANGED Fifo!fifoVars
  BY <1>5 DEF Lock, Sleep, Unlock, SpuriousWakeup, NotifyOne, Fifo!fifoVars
<1>6. CASE UNCHANGED vars
  BY <1>6 DEF vars, Fifo!fifoVars
<1> QED
  BY <1>1, <1>2, <1>3, <1>4, <1>5, <1>6
     DEF Next, InEnqueue, InDequeue, WaitForSpace, WaitForEvent, NotifyHasEvent,
         NotifyHasSpace, Threads, Fifo!Next

(* Events::Queue is a bounded FIFO: no event is lost, duplicated or        *)
(* overtaken.                                                              *)
THEOREM Refinement == Spec => ImplementsFifo
<1>1. IInv /\ [Next]_vars => [Fifo!Next]_(Fifo!fifoVars)
  BY StepFifo DEF IInv
<1> QED
  BY <1>1, InitFifo, Invariance, SpecIsSafe, PTL DEF SafeSpec, ImplementsFifo, Fifo!SafeSpec
=============================================================================
