---------------------------- MODULE MCEventQueue -----------------------------
(* A small instance of EventQueue: three producers (the stream thread and   *)
(* two threads of the scheduler's pool), the main thread as the consumer.   *)
EXTENDS EventQueue
=============================================================================
