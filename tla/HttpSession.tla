----------------------------- MODULE HttpSession -----------------------------
(***************************************************************************)
(* src/helpers/network/http/session.cpp: requests and answers on TLS       *)
(* connections to the exchange.                                            *)
(*                                                                         *)
(* A Session owns one connection, made in its constructor and never made   *)
(* again.  get, post and del use the connection of the session they are    *)
(* called on, Shared here; the isolated forms copy the session, and the    *)
(* copy's connection, named for the thread that made it, lasts for one     *)
(* request.  An answer carries no trace of the request it belongs to: it   *)
(* is the next thing to be read from the connection.                       *)
(***************************************************************************)
EXTENDS Naturals, Sequences

CONSTANTS
  Threads,   (* the threads that make requests                             *)
  Shared     (* the connection of the session itself                       *)

ASSUME SessionAssumption == Shared \notin Threads

VARIABLES
  up,        (* the connections that have not been closed                  *)
  wire,      (* requests on their way, by connection                       *)
  answers    (* answers on their way, by connection                        *)

sessionVars == <<up, wire, answers>>

Connections == Threads \cup {Shared}

SessionInit ==
  /\ up = {Shared}
  /\ wire = [c \in Connections |-> <<>>]
  /\ answers = [c \in Connections |-> <<>>]

(* The private constructor of the isolated requests, and initSession. *)
Connect(t) == up' = up \cup {t} /\ UNCHANGED <<wire, answers>>

(* Mutant of Write: sends the request again. *)
WriteTwice(c, request) ==
  /\ c \in up
  /\ wire' = [wire EXCEPT ![c] = @ \o <<request, request>>]
  /\ UNCHANGED <<up, answers>>

(* http::write; it throws when the connection has been closed. *)
Write(c, request) ==
  /\ c \in up
  /\ wire' = [wire EXCEPT ![c] = Append(@, request)]
  /\ UNCHANGED <<up, answers>>

(* http::read: what has come in can be read after a close as well. *)
Read(c) ==
  /\ answers[c] # <<>>
  /\ answers' = [answers EXCEPT ![c] = Tail(@)]

(* The copy's destructor; the shared session outlives all requests. *)
Close(c) ==
  IF c = Shared
    THEN UNCHANGED <<up, wire>>
    ELSE /\ up' = up \ {c}
         /\ wire' = [wire EXCEPT ![c] = <<>>]

(* The exchange, or the network, closes the connection: requests on their  *)
(* way are lost, answers may be.                                           *)
Lose(c) ==
  /\ c \in up /\ up' = up \ {c}
  /\ wire' = [wire EXCEPT ![c] = <<>>]
  /\ \/ answers' = [answers EXCEPT ![c] = <<>>]
     \/ UNCHANGED answers

(* The exchange takes the next request and answers it. *)
Answer(c, body) ==
  /\ wire[c] # <<>>
  /\ wire' = [wire EXCEPT ![c] = Tail(@)]
  /\ answers' = [answers EXCEPT ![c] = Append(@, body)]
  /\ UNCHANGED up
=============================================================================
