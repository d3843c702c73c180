----------------------------- MODULE BoundedFifo -----------------------------
(***************************************************************************)
(* What Events::Queue promises its users: a bounded first-in first-out     *)
(* buffer.  An offered event enters the buffer exactly once, at the tail   *)
(* and only while there is room; a consumer takes the head, exactly once.  *)
(* Threads, locks and condition variables do not appear at this level.     *)
(***************************************************************************)
EXTENDS Naturals, Sequences

CONSTANTS
  Producers,   (* threads that call enqueue                                *)
  Consumers,   (* threads that call dequeue                                *)
  Events,      (* the events carried                                       *)
  NoEvent,     (* stands for "nothing in hand"                             *)
  Capacity     (* the bound, 1000 in event_queue.hpp                       *)

VARIABLES
  buffer,      (* the events in the queue, oldest first                    *)
  offered,     (* what each producer is trying to put                      *)
  taken        (* what each consumer last took and still works on          *)

fifoVars == <<buffer, offered, taken>>

Init ==
  /\ buffer = <<>>
  /\ offered = [p \in Producers |-> NoEvent]
  /\ taken = [c \in Consumers |-> NoEvent]

(* A producer calls enqueue with an event. *)
Offer(p) ==
  /\ offered[p] = NoEvent
  /\ \E e \in Events : offered' = [offered EXCEPT ![p] = e]
  /\ UNCHANGED <<buffer, taken>>

(* The event enters the buffer. *)
Put(p) ==
  /\ offered[p] # NoEvent
  /\ Len(buffer) < Capacity
  /\ buffer' = Append(buffer, offered[p])
  /\ offered' = [offered EXCEPT ![p] = NoEvent]
  /\ UNCHANGED taken

(* A consumer takes the oldest event. *)
Get(c) ==
  /\ taken[c] = NoEvent
  /\ buffer # <<>>
  /\ taken' = [taken EXCEPT ![c] = Head(buffer)]
  /\ buffer' = Tail(buffer)
  /\ UNCHANGED offered

(* The consumer is done with its event and comes back for another. *)
Finish(c) ==
  /\ taken[c] # NoEvent
  /\ taken' = [taken EXCEPT ![c] = NoEvent]
  /\ UNCHANGED <<buffer, offered>>

Next ==
  \/ \E p \in Producers : Offer(p) \/ Put(p)
  \/ \E c \in Consumers : Get(c) \/ Finish(c)

SafeSpec == Init /\ [][Next]_fifoVars

(***************************************************************************)
(* The queue as a whole makes progress: while there is room some pending   *)
(* event is accepted, while there are events some consumer gets one.  It   *)
(* does not promise that every single producer gets its turn.              *)
(***************************************************************************)
Fairness ==
  /\ WF_fifoVars(\E p \in Producers : Put(p))
  /\ WF_fifoVars(\E c \in Consumers : Get(c))
=============================================================================
