---------------------------- MODULE BarsScheduler ----------------------------
(***************************************************************************)
(* src/adapters/coinbasepro/rest/bars_scheduler.cpp: the querying thread   *)
(* asks the exchange, once a minute, for the bar that has just closed.     *)
(*                                                                         *)
(* Time is counted in ticks; Minute, Settle and Late are the code's 60,    *)
(* 10 and 50 seconds in ticks.  The scheduler aligns itself to the Settle  *)
(* mark with one computed sleep, and from then on sleeps a minute at a     *)
(* time.  Each batch of queries runs on a thread of its own and fetches    *)
(* the products on a pool of threads.                                      *)
(*                                                                         *)
(* The scheduler thread:                                                   *)
(*   start     about to read the clock for currentMinute_                  *)
(*   measure   about to read the clock for currentMillisecond              *)
(*   settle    sleeps until the Settle mark of this minute                 *)
(*   skip      too late in this minute: sleeps until the next Settle mark  *)
(*   first     about to make the first query                               *)
(*   align     sleeps until the next Settle mark                           *)
(*   loop      sleeps a minute                                             *)
(***************************************************************************)
EXTENDS Integers, FiniteSets

CONSTANTS
  Universe,    (* *currentUniverse_: the products whose bars are queried   *)
  PoolSize,    (* BAR_QUERY_THREADS                                        *)
  Minute, Settle, Late,
  MaxTime,     (* bound: the clock stops there                             *)
  MaxJitter,   (* bound: ticks between the two first readings of the clock *)
  MaxDelay     (* bound: ticks by which the scheduler falls behind         *)

(* The clock gets through the first minute, and the two first readings of  *)
(* it are at most Settle apart.                                            *)
ASSUME ClockAssumption ==
  /\ Minute \in Nat /\ Settle \in Nat /\ Late \in Nat
  /\ 0 < Settle /\ Settle < Late /\ Late < Minute
  /\ MaxTime \in Nat /\ 2 * Minute =< MaxTime
  /\ MaxJitter \in 0 .. Settle /\ MaxDelay \in Nat

ASSUME PoolAssumption == PoolSize \in Nat \ {0} /\ IsFiniteSet(Universe)

VARIABLES
  now,            (* the system clock                                      *)
  pc,             (* the scheduler thread                                  *)
  wake,           (* the end of its current sleep                          *)
  currentMinute,  (* currentMinute_                                        *)
  minuteMs,       (* currentMinuteInMillisecond, in ticks                  *)
  currentMs,      (* currentMillisecond, in ticks                          *)
  spawned,        (* query threads that have not read currentMinute_ yet   *)
  queries,        (* the minutes of the query threads in pool.join         *)
  posted,         (* <<minute, product>> tasks that wait for a pool thread *)
  fetching,       (* <<minute, product>> tasks in getRawBars               *)
  asked,          (* history: the last minute asked for each product       *)
  bars,           (* history: the last bar enqueued for each product       *)
  delay           (* history: ticks lost to slow queries and late wake-ups *)

clockVars == <<minuteMs, currentMs>>
queryVars == <<spawned, queries, posted, fetching, asked, bars>>
vars == <<now, pc, wake, currentMinute, clockVars, queryVars, delay>>

Minutes == 0 .. MaxTime
Tasks == Minutes \X Universe
NoMinute == -1

TypeOK ==
  /\ now \in 0 .. MaxTime
  /\ pc \in {"start", "measure", "settle", "skip", "first", "align", "loop"}
  /\ wake \in Nat
  /\ currentMinute \in Minutes
  /\ minuteMs \in Nat
  /\ currentMs \in Int
  /\ spawned \in Nat
  /\ queries \subseteq Minutes
  /\ posted \subseteq Tasks
  /\ fetching \subseteq Tasks
  /\ asked \in [Universe -> Minutes \cup {NoMinute}]
  /\ bars \in [Universe -> Minutes \cup {NoMinute}]
  /\ delay \in 0 .. MaxDelay

(* The thread may start at any time of a minute. *)
Init ==
  /\ now \in Minute .. 2 * Minute - 1
  /\ pc = "start"
  /\ wake = 0
  /\ currentMinute = 0
  /\ minuteMs = 0 /\ currentMs = 0
  /\ spawned = 0 /\ queries = {} /\ posted = {} /\ fetching = {}
  /\ asked = [p \in Universe |-> NoMinute]
  /\ bars = [p \in Universe |-> NoMinute]
  /\ delay = 0

-----------------------------------------------------------------------------
(* The scheduler thread: queryBarsForever                                  *)

(* millisecondsBefore10thSecond, negative after the mark *)
Before(ms) == Settle - (ms - minuteMs)
BeforeSettle == Before(currentMs)

(* In "measure", wake stands for the bound on the time until Measure. *)
ReadMinute ==
  /\ pc = "start"
  /\ currentMinute' = now \div Minute
  /\ minuteMs' = currentMinute' * Minute
  /\ wake' = now + MaxJitter
  /\ pc' = "measure"
  /\ UNCHANGED <<now, currentMs, queryVars, delay>>

(* The second reading of the clock, and the sleep it leads to. *)
Measure ==
  /\ pc = "measure"
  /\ currentMs' = now
  /\ \/ /\ Before(now) > 0
        /\ pc' = "settle"
        /\ wake' = now + Before(now)
     \/ /\ Before(now) < Settle - Late
        /\ pc' = "skip"
        /\ wake' = now + Minute + Before(now)
     \/ /\ Before(now) \in Settle - Late .. 0
        /\ pc' = "first"
        /\ wake' = now
  /\ UNCHANGED <<now, currentMinute, minuteMs, queryVars, delay>>

Awake(label) == pc = label /\ now >= wake

(* Mutant of WakeSettled: currentMillisecond not updated after the sleep. *)
WakeSettledStale ==
  /\ Awake("settle")
  /\ pc' = "first"
  /\ UNCHANGED <<now, wake, currentMinute, clockVars, queryVars, delay>>

WakeSettled ==
  /\ Awake("settle")
  /\ currentMs' = currentMs + BeforeSettle
  /\ pc' = "first"
  /\ UNCHANGED <<now, wake, currentMinute, minuteMs, queryVars, delay>>

WakeSkipped ==
  /\ Awake("skip")
  /\ currentMs' = currentMs + BeforeSettle
  /\ minuteMs' = minuteMs + Minute
  /\ currentMinute' = currentMinute + 1
  /\ pc' = "first"
  /\ UNCHANGED <<now, wake, queryVars, delay>>

Spawn ==
  /\ spawned' = spawned + 1
  /\ UNCHANGED <<queries, posted, fetching, asked, bars>>

(* Mutant of FirstQuery: aligns to the minute, not to the Settle mark. *)
FirstQueryUnsettled ==
  /\ Awake("first")
  /\ Spawn
  /\ wake' = now + Minute - (currentMs - minuteMs)
  /\ pc' = "align"
  /\ UNCHANGED <<now, currentMinute, clockVars, delay>>

FirstQuery ==
  /\ Awake("first")
  /\ Spawn
  /\ wake' = now + Minute - (currentMs - minuteMs) + Settle
  /\ pc' = "align"
  /\ UNCHANGED <<now, currentMinute, clockVars, delay>>

(* join returns when the query thread has ended. *)
Joined == spawned = 0 /\ queries = {}

(* Mutant of NextQuery: does not join the last query thread. *)
NextQueryUnjoined ==
  /\ Awake("align") \/ Awake("loop")
  /\ currentMinute' = currentMinute + 1
  /\ Spawn
  /\ wake' = now + Minute
  /\ pc' = "loop"
  /\ UNCHANGED <<now, clockVars, delay>>

NextQuery ==
  /\ Awake("align") \/ Awake("loop")
  /\ Joined
  /\ currentMinute' = currentMinute + 1
  /\ Spawn
  /\ wake' = now + Minute
  /\ pc' = "loop"
  /\ UNCHANGED <<now, clockVars, delay>>

-----------------------------------------------------------------------------
(* The query threads and their pools: makeBarQueries                       *)

Ask ==
  /\ spawned > 0
  /\ spawned' = spawned - 1
  /\ queries' = queries \cup {currentMinute}
  /\ posted' = posted \cup {<<currentMinute, p>> : p \in Universe}
  /\ UNCHANGED <<now, pc, wake, currentMinute, clockVars, fetching, asked, bars, delay>>

Pool(m) == {t \in fetching : t[1] = m}

(* A pool thread takes a task and sends getRawBars(minute - 1). *)
Fetch(m, p) ==
  /\ <<m, p>> \in posted
  /\ Cardinality(Pool(m)) < PoolSize
  /\ posted' = posted \ {<<m, p>>}
  /\ fetching' = fetching \cup {<<m, p>>}
  /\ asked' = [asked EXCEPT ![p] = m]
  /\ UNCHANGED <<now, pc, wake, currentMinute, clockVars, spawned, queries, bars, delay>>

(* Mutant of Answer: the bar is stamped in the unit of the clock. *)
AnswerWrongUnit(m, p) ==
  /\ <<m, p>> \in fetching
  /\ fetching' = fetching \ {<<m, p>>}
  /\ bars' = [bars EXCEPT ![p] = (m + 1) * Minute]
  /\ UNCHANGED <<now, pc, wake, currentMinute, clockVars, spawned, queries, posted,
                 asked, delay>>

(* The response has the bar (only the first one is enqueued), or it is not *)
(* an array or an empty one, and the task ends without a bar.              *)
Answer(m, p) ==
  /\ <<m, p>> \in fetching
  /\ fetching' = fetching \ {<<m, p>>}
  /\ \/ bars' = [bars EXCEPT ![p] = m]
     \/ bars' = bars
  /\ UNCHANGED <<now, pc, wake, currentMinute, clockVars, spawned, queries, posted,
                 asked, delay>>

(* Mutant of QueryDone: the thread ends without pool.join, the tasks go on. *)
QueryDoneUnjoined(m) ==
  /\ m \in queries
  /\ queries' = queries \ {m}
  /\ UNCHANGED <<now, pc, wake, currentMinute, clockVars, spawned, posted, fetching,
                 asked, bars, delay>>

(* Mutant of QueryDone: the pool is destroyed, which drops posted tasks. *)
QueryDoneDropping(m) ==
  /\ m \in queries
  /\ queries' = queries \ {m}
  /\ posted' = {t \in posted : t[1] # m}
  /\ UNCHANGED <<now, pc, wake, currentMinute, clockVars, spawned, fetching, asked,
                 bars, delay>>

(* pool.join returns and the query thread ends. *)
QueryDone(m) ==
  /\ m \in queries
  /\ \A t \in posted \cup fetching : t[1] # m
  /\ queries' = queries \ {m}
  /\ UNCHANGED <<now, pc, wake, currentMinute, clockVars, spawned, posted, fetching,
                 asked, bars, delay>>

-----------------------------------------------------------------------------
Sleeping == pc \in {"settle", "skip", "align", "loop"}

(* The scheduler should be running again: every tick from here on is lost. *)
Overdue == pc = "first" \/ (Sleeping /\ now >= wake)

(***************************************************************************)
(* Time passes.  A sleep may last longer than asked for, and a query may   *)
(* last longer than the sleep, by MaxDelay ticks in all.                   *)
(***************************************************************************)
Tick ==
  /\ now < MaxTime
  /\ pc = "measure" => now < wake
  /\ now' = now + 1
  /\ delay' = IF Overdue THEN delay + 1 ELSE delay
  /\ delay' <= MaxDelay
  /\ UNCHANGED <<pc, wake, currentMinute, clockVars, queryVars>>

Scheduler ==
  ReadMinute \/ Measure \/ WakeSettled \/ WakeSkipped \/ FirstQuery \/ NextQuery

Querier ==
  \/ Ask
  \/ \E m \in Minutes : QueryDone(m) \/ \E p \in Universe : Fetch(m, p) \/ Answer(m, p)

Next == Scheduler \/ Querier \/ Tick

(***************************************************************************)
(* Threads run on and the clock advances; every request is answered or     *)
(* fails (a request that never returns stops the scheduler for good).      *)
(***************************************************************************)
Fairness == WF_vars(Scheduler) /\ WF_vars(Querier) /\ WF_vars(Tick)

SafeSpec == Init /\ [][Next]_vars

Spec == SafeSpec /\ Fairness

-----------------------------------------------------------------------------
(* Properties                                                              *)

SettleMark(m) == m * Minute + Settle

(* The scheduler started after the Late mark and skipped that minute. *)
StartedLate == currentMs < minuteMs

(***************************************************************************)
(* A query for minute m asks for the bar of minute m - 1.  It is never     *)
(* sent before that bar has been closed for Settle: the exchange would     *)
(* answer with a bar that still changes.                                   *)
(***************************************************************************)
OnlySettledBars ==
  \A p \in Universe : asked[p] # NoMinute => now >= SettleMark(asked[p])

(***************************************************************************)
(* The sleeps are computed so that every batch is due at the Settle mark   *)
(* of the next minute, up to the delay the scheduler has run into, which   *)
(* it never makes up for.  After a late start every batch is due a whole   *)
(* minute later than that.  The mark is the 10th second, as the code has   *)
(* it and bars_scheduler.cpp:67 and :76 say.  The comment at the head of   *)
(* the function (:20) says otherwise, "We will query bars at the 5th       *)
(* second of every minute", and is not what this property takes the mark   *)
(* from.                                                                   *)
(***************************************************************************)
Behind == IF now > wake THEN now - wake ELSE 0

DueAtSettleMark ==
  pc \in {"align", "loop"} =>
    wake + Behind = SettleMark(currentMinute + 1) + delay
                       + (IF StartedLate THEN Minute ELSE 0)

(***************************************************************************)
(* No minute is left out and none is asked for twice, however long the     *)
(* queries take and whenever the query thread reads currentMinute_, which  *)
(* the scheduler thread increments without a lock.                         *)
(***************************************************************************)
NoMinuteSkipped ==
  [][\A p \in Universe : asked'[p] # asked[p] =>
        \/ asked[p] = NoMinute
        \/ asked'[p] = asked[p] + 1]_vars

(***************************************************************************)
(* A product's bars reach the event queue in the order of their minutes:   *)
(* a slow answer is never overtaken by the next minute's.                  *)
(***************************************************************************)
BarsInOrder ==
  [][\A p \in Universe : bars'[p] # bars[p] => bars'[p] > bars[p]]_vars

(***************************************************************************)
(* Every minute the scheduler enters is asked for, for every product.      *)
(***************************************************************************)
EveryMinuteAsked ==
  \A p \in Universe :
    pc \in {"align", "loop"} /\ asked[p] # currentMinute ~> asked[p] = currentMinute

(***************************************************************************)
(* bars_scheduler.cpp:67, of the sleep after the first query: "Compute how *)
(* many milliseconds we need to sleep in order to wake up near the 10th    *)
(* second in the next minute".                                             *)
(***************************************************************************)
WakesInNextMinute == pc = "align" => wake \div Minute = currentMinute + 1
=============================================================================
