------------------------ MODULE BarsScheduler_proofs ------------------------
(***************************************************************************)
(* Proofs that the scheduler asks for every minute once, in order, not     *)
(* before the bar has been closed for Settle, and late by no more than it  *)
(* was delayed, for every clock, every universe and every size of the      *)
(* pool.                                                                   *)
(*                                                                         *)
(* Alignment is the invariant of the scheduler thread's arithmetic, and    *)
(* OneBatch that of the query threads.                                     *)
(***************************************************************************)
EXTENDS BarsScheduler, TLAPS

Querying == pc \in {"align", "loop"}

-----------------------------------------------------------------------------
(* Arithmetic of minutes                                                   *)

(* What it means to divide the clock by the length of a minute. *)
LEMMA DivBounds ==
  ASSUME NEW a \in Nat, NEW b \in Nat \ {0}
  PROVE  /\ a \div b \in Nat
         /\ (a \div b) * b =< a
         /\ a < (a \div b) * b + b
BY SMT

(* The minute that the clock shows has begun, and is not beyond the clock. *)
LEMMA MinuteOfClock ==
  ASSUME NEW t \in Nat
  PROVE  /\ t \div Minute \in Nat /\ t \div Minute =< t
         /\ (t \div Minute) * Minute \in Nat /\ (t \div Minute) * Minute =< t
         /\ t < (t \div Minute) * Minute + Minute
<1> DEFINE m == t \div Minute
<1>1. Minute \in Nat \ {0}
  BY ClockAssumption
<1>2. m \in Nat /\ m * Minute =< t /\ t < m * Minute + Minute
  BY <1>1, DivBounds
<1> HIDE DEF m
<1>3. m * Minute \in Nat /\ m =< m * Minute
  BY <1>1, <1>2, SMT
<1>4. m =< t
  BY <1>1, <1>2, <1>3, SMT
<1> QED
  BY <1>2, <1>3, <1>4 DEF m

(* The Settle marks are a minute apart, *)
LEMMA MarkNext ==
  ASSUME NEW m \in Int
  PROVE  /\ SettleMark(m) \in Int
         /\ SettleMark(m + 1) = SettleMark(m) + Minute
BY ClockAssumption, SMT DEF SettleMark

(* in the order of the minutes, *)
LEMMA MarkGrows ==
  ASSUME NEW m \in Nat, NEW n \in Nat, m =< n
  PROVE  SettleMark(m) =< SettleMark(n)
BY ClockAssumption, SMT DEF SettleMark

(* and as a minute has at least a tick, no minute is beyond the clock. *)
LEMMA MarkAbove ==
  ASSUME NEW m \in Nat
  PROVE  m < SettleMark(m)
BY ClockAssumption, SMT DEF SettleMark

-----------------------------------------------------------------------------
(* The inductive invariant                                                 *)

(* minuteMs is the start of currentMinute. *)
AtMinute == minuteMs + Settle = SettleMark(currentMinute)

(***************************************************************************)
(* What each sleep leads to.  The delay is what the scheduler is behind    *)
(* the end of its sleep, and what it was behind before.                    *)
(***************************************************************************)
Alignment ==
  /\ pc \in {"start", "measure"} => delay = 0
  /\ pc \in {"measure", "settle", "skip", "first"} => AtMinute
  /\ pc = "measure" => minuteMs =< now /\ now =< wake /\ wake < minuteMs + Minute + Settle
  /\ pc = "settle" => /\ minuteMs =< currentMs
                      /\ wake = minuteMs + Settle
                      /\ delay = Behind
  /\ pc = "skip" => /\ wake = minuteMs + Minute + Settle
                    /\ delay = Behind
  /\ pc = "first" => \/ /\ currentMs \in minuteMs + Settle .. minuteMs + Late
                        /\ now = currentMs + delay
                     \/ /\ currentMs = minuteMs - Minute + Settle
                        /\ now = minuteMs + Settle + delay
  /\ DueAtSettleMark
  /\ pc = "first" \/ Querying => SettleMark(currentMinute) =< now

(* The batch of this minute has still to ask for product p. *)
Unasked(p) == spawned = 1 \/ <<currentMinute, p>> \in posted

(* It has still to enqueue the bar of p. *)
Unanswered(p) == Unasked(p) \/ <<currentMinute, p>> \in fetching

(***************************************************************************)
(* There is at most one query thread, it is of currentMinute, and the      *)
(* batch before it had asked for every product.                            *)
(***************************************************************************)
OneBatch ==
  /\ spawned \in {0, 1}
  /\ queries \subseteq {currentMinute}
  /\ spawned = 1 => queries = {}
  /\ posted \cup fetching \subseteq queries \X Universe
  /\ posted \cap fetching = {}
  /\ ~Querying => /\ spawned = 0 /\ queries = {}
                  /\ \A p \in Universe : asked[p] = NoMinute /\ bars[p] = NoMinute
  /\ Querying => \A p \in Universe :
       /\ Unasked(p) => asked[p] \in {NoMinute, currentMinute - 1}
       /\ ~Unasked(p) => asked[p] = currentMinute
       /\ bars[p] =< currentMinute
       /\ Unanswered(p) => bars[p] < currentMinute

IInv == TypeOK /\ Alignment /\ OneBatch

-----------------------------------------------------------------------------
(* Initially nothing is known and nothing asked for. *)
LEMMA InitIInv == Init => IInv
<1> SUFFICES ASSUME Init
             PROVE  IInv
  OBVIOUS
<1> USE DEF Init
<1>1. now \in 0 .. MaxTime
  BY ClockAssumption
<1>2. TypeOK
  BY <1>1, ClockAssumption DEF TypeOK, Minutes, Tasks, NoMinute
<1>3. Alignment
  BY ClockAssumption DEF Alignment, DueAtSettleMark, Querying
<1>4. OneBatch
  BY DEF OneBatch, Querying, NoMinute
<1> QED
  BY <1>2, <1>3, <1>4 DEF IInv

-----------------------------------------------------------------------------
(* The scheduler thread                                                    *)

(* The clock's first reading is that of a minute which has begun. *)
LEMMA ReadMinuteStep ==
  ASSUME IInv, ReadMinute
  PROVE  TypeOK' /\ Alignment'
<1>1. now \in Nat /\ now =< MaxTime
  BY ClockAssumption DEF IInv, TypeOK
<1>2. /\ minuteMs' = currentMinute' * Minute
      /\ currentMinute' \in Nat /\ currentMinute' =< now
      /\ currentMinute' * Minute \in Nat /\ currentMinute' * Minute =< now
      /\ now < currentMinute' * Minute + Minute
  BY <1>1, MinuteOfClock DEF ReadMinute
<1>3. currentMinute' \in Minutes
  BY <1>1, <1>2, ClockAssumption DEF Minutes
<1>4. minuteMs' \in Nat /\ minuteMs' =< now /\ now < minuteMs' + Minute
  BY <1>2, Zenon
<1>5. TypeOK'
  BY <1>1, <1>3, <1>4, ClockAssumption DEF IInv, TypeOK, ReadMinute, queryVars
<1>6. AtMinute'
  BY <1>2 DEF AtMinute, SettleMark
<1>7. /\ pc' = "measure" /\ now' = now /\ delay' = 0
      /\ now' =< wake' /\ wake' < minuteMs' + Minute + Settle
  BY <1>1, <1>4, ClockAssumption DEF IInv, Alignment, ReadMinute
<1>8. Alignment'
  BY <1>4, <1>6, <1>7 DEF Alignment, DueAtSettleMark, Querying
<1> QED
  BY <1>5, <1>8

(* The three cases of the second reading. *)
LEMMA MeasureStep ==
  ASSUME IInv, Measure
  PROVE  TypeOK' /\ Alignment'
<1> USE ClockAssumption
<1>1. /\ now \in Nat /\ minuteMs \in Nat /\ minuteMs =< now /\ delay = 0
      /\ now < minuteMs + Minute + Settle
      /\ AtMinute /\ AtMinute'
  BY DEF IInv, TypeOK, Alignment, Measure, AtMinute, SettleMark
<1>2. TypeOK'
  BY <1>1 DEF IInv, TypeOK, Measure, Before, queryVars
<1>3. now' = now /\ minuteMs' = minuteMs /\ delay' = 0 /\ currentMs' = now
  BY <1>1 DEF Measure
<1>4. ~Querying' /\ DueAtSettleMark'
  BY DEF Measure, DueAtSettleMark, Querying
<1>5. CASE pc' = "settle"
  <2>1. wake' = minuteMs + Settle /\ wake' > now
    BY <1>1, <1>5 DEF Measure, Before
  <2>2. Behind' = 0
    BY <1>1, <1>3, <2>1 DEF Behind
  <2> QED
    BY <1>1, <1>3, <1>5, <1>2, <1>4, <2>1, <2>2 DEF Alignment
<1>6. CASE pc' = "skip"
  <2>1. wake' = minuteMs + Minute + Settle /\ wake' > now
    BY <1>1, <1>6 DEF Measure, Before
  <2>2. Behind' = 0
    BY <1>1, <1>3, <2>1 DEF Behind
  <2> QED
    BY <1>1, <1>3, <1>6, <1>2, <1>4, <2>1, <2>2 DEF Alignment
<1>7. CASE pc' = "first"
  <2>1. Before(now) \in Settle - Late .. 0
    BY <1>7, <1>1 DEF Measure, Before
  <2>2. now \in minuteMs + Settle .. minuteMs + Late
    BY <2>1, <1>1 DEF Before
  <2>3. SettleMark(currentMinute)' =< now'
    BY <1>1, <1>3, <2>2 DEF Measure, AtMinute, SettleMark
  <2>4. now' = currentMs' + delay' /\ currentMs' \in minuteMs' + Settle .. minuteMs' + Late
    BY <1>1, <1>3, <2>2
  <2> QED
    BY <1>1, <1>3, <1>7, <1>2, <1>4, <2>3, <2>4 DEF Alignment
<1> QED
  BY <1>2, <1>5, <1>6, <1>7 DEF Measure

(* After the sleep to the mark of this minute. *)
LEMMA WakeSettledStep ==
  ASSUME IInv, WakeSettled
  PROVE  TypeOK' /\ Alignment'
<1> USE ClockAssumption
<1>1. /\ now \in Nat /\ minuteMs \in Nat /\ currentMs \in Int /\ delay \in Nat
      /\ AtMinute /\ AtMinute'
      /\ wake = minuteMs + Settle /\ now >= wake /\ delay = Behind
  BY DEF IInv, TypeOK, Alignment, WakeSettled, Awake, AtMinute, SettleMark
<1>2. currentMs' = minuteMs + Settle /\ now = currentMs' + delay
  BY <1>1 DEF WakeSettled, Before, BeforeSettle, Behind
<1>3. TypeOK'
  BY <1>1, <1>2 DEF IInv, TypeOK, WakeSettled, queryVars
<1>4. Alignment'
  BY <1>1, <1>2 DEF Alignment, WakeSettled, DueAtSettleMark, Querying, AtMinute, SettleMark
<1> QED
  BY <1>3, <1>4

(* After the sleep to the mark of the next minute. *)
LEMMA WakeSkippedStep ==
  ASSUME IInv, WakeSkipped
  PROVE  TypeOK' /\ Alignment'
<1> USE ClockAssumption
<1>1. /\ now \in Nat /\ now =< MaxTime /\ minuteMs \in Nat /\ currentMs \in Int
      /\ delay \in Nat /\ currentMinute \in Nat
      /\ minuteMs + Settle = SettleMark(currentMinute)
      /\ wake = minuteMs + Minute + Settle /\ now >= wake /\ delay = Behind
  BY DEF IInv, TypeOK, Alignment, WakeSkipped, Awake, AtMinute, Minutes
<1>2. SettleMark(currentMinute + 1) = minuteMs + Minute + Settle
  BY <1>1, MarkNext
<1>3. currentMinute + 1 \in Minutes
  BY <1>1, <1>2, MarkAbove DEF Minutes
<1>4. /\ currentMs' = minuteMs' - Minute + Settle
      /\ minuteMs' = minuteMs + Minute
      /\ now = minuteMs' + Settle + delay
  BY <1>1 DEF WakeSkipped, Before, BeforeSettle, Behind
<1>5. TypeOK'
  BY <1>1, <1>3, <1>4 DEF IInv, TypeOK, WakeSkipped, queryVars
<1>6. AtMinute' /\ SettleMark(currentMinute') =< now'
  BY <1>1, <1>2, <1>4 DEF WakeSkipped, AtMinute, SettleMark
<1>7. Alignment'
  BY <1>1, <1>4, <1>6 DEF Alignment, WakeSkipped, DueAtSettleMark, Querying
<1> QED
  BY <1>5, <1>7

(* The sleep after the first query ends at the mark of the next minute,    *)
(* but for the delay and a late start.                                     *)
LEMMA FirstQueryStep ==
  ASSUME IInv, FirstQuery
  PROVE  TypeOK' /\ Alignment'
<1> USE ClockAssumption
<1>1. /\ now \in Nat /\ minuteMs \in Nat /\ currentMs \in Int /\ delay \in Nat
      /\ currentMinute \in Nat
      /\ minuteMs + Settle = SettleMark(currentMinute)
      /\ \/ /\ currentMs \in minuteMs + Settle .. minuteMs + Late
            /\ now = currentMs + delay
         \/ /\ currentMs = minuteMs - Minute + Settle
            /\ now = minuteMs + Settle + delay
  BY DEF IInv, TypeOK, Alignment, FirstQuery, Awake, AtMinute, Minutes
<1>2. SettleMark(currentMinute + 1) = minuteMs + Settle + Minute
  BY <1>1, MarkNext
<1>3. /\ wake' = now + Minute - (currentMs - minuteMs) + Settle
      /\ now' = now /\ currentMs' = currentMs /\ minuteMs' = minuteMs /\ delay' = delay
      /\ pc' = "align" /\ currentMinute' = currentMinute
  BY DEF FirstQuery, clockVars
<1>4. wake' \in Nat /\ wake' > now
  BY <1>1, <1>3
<1>5. TypeOK'
  BY <1>4, <1>3 DEF IInv, TypeOK, FirstQuery, Spawn
<1>6. DueAtSettleMark'
  <2>1. Behind' = 0
    BY <1>1, <1>3, <1>4 DEF Behind
  <2>2. SettleMark(currentMinute + 1)' = minuteMs + Settle + Minute
    BY <1>2, <1>3 DEF SettleMark
  <2>3. CASE currentMs < minuteMs
    BY <2>1, <2>2, <2>3, <1>1, <1>3 DEF DueAtSettleMark, StartedLate
  <2>4. CASE ~(currentMs < minuteMs)
    BY <2>1, <2>2, <2>4, <1>1, <1>3 DEF DueAtSettleMark, StartedLate
  <2> QED
    BY <2>3, <2>4
<1>7. SettleMark(currentMinute)' =< now'
  BY <1>1, <1>3 DEF SettleMark
<1>8. Alignment'
  BY <1>3, <1>6, <1>7 DEF Alignment, Querying
<1> QED
  BY <1>5, <1>8

(* A sleep of a minute leads from mark to mark. *)
LEMMA NextQueryStep ==
  ASSUME IInv, NextQuery
  PROVE  TypeOK' /\ Alignment'
<1> USE ClockAssumption
<1>1. /\ now \in Nat /\ now =< MaxTime /\ wake \in Nat /\ delay \in Nat /\ currentMinute \in Nat
      /\ now >= wake
      /\ wake + Behind = SettleMark(currentMinute + 1) + delay
                           + (IF StartedLate THEN Minute ELSE 0)
      /\ StartedLate \in BOOLEAN
  BY DEF IInv, TypeOK, Alignment, NextQuery, Awake, Minutes, DueAtSettleMark, StartedLate
<1>2. now = SettleMark(currentMinute + 1) + delay + (IF StartedLate THEN Minute ELSE 0)
  BY <1>1 DEF Behind
<1>3. /\ SettleMark(currentMinute + 1) \in Int
      /\ SettleMark(currentMinute + 2) = SettleMark(currentMinute + 1) + Minute
  <2>1. currentMinute + 1 \in Int /\ (currentMinute + 1) + 1 = currentMinute + 2
    BY <1>1
  <2> QED
    BY <2>1, MarkNext
<1>4. /\ wake' = now + Minute /\ now' = now /\ delay' = delay
      /\ pc' = "loop" /\ currentMinute' = currentMinute + 1
      /\ currentMs' = currentMs /\ minuteMs' = minuteMs
  BY DEF NextQuery, clockVars
<1>5. SettleMark(currentMinute + 1) =< now /\ currentMinute + 1 < SettleMark(currentMinute + 1)
  BY <1>1, <1>2, <1>3, MarkAbove
<1>6. TypeOK'
  BY <1>1, <1>3, <1>4, <1>5 DEF IInv, TypeOK, NextQuery, Spawn, Minutes
<1>7. DueAtSettleMark'
  <2>1. Behind' = 0
    BY <1>1, <1>4 DEF Behind
  <2>2. SettleMark(currentMinute + 1)' = SettleMark(currentMinute + 2)
    BY <1>1, <1>4 DEF SettleMark
  <2>3. StartedLate' = StartedLate
    BY <1>4 DEF StartedLate
  <2> QED
    BY <2>1, <2>2, <2>3, <1>1, <1>2, <1>3, <1>4 DEF DueAtSettleMark
<1>8. SettleMark(currentMinute)' =< now'
  BY <1>4, <1>5 DEF SettleMark
<1>9. Alignment'
  BY <1>4, <1>7, <1>8 DEF Alignment, Querying
<1> QED
  BY <1>6, <1>9

(* While the clock ticks a sleep comes nearer to its end or is overdue.    *)
LEMMA TickStep ==
  ASSUME IInv, Tick
  PROVE  TypeOK' /\ Alignment'
<1>1. /\ now \in Nat /\ wake \in Nat /\ delay \in Nat /\ now' = now + 1
      /\ now < MaxTime /\ MaxTime \in Nat
      /\ wake' = wake /\ pc' = pc /\ minuteMs' = minuteMs /\ currentMs' = currentMs
      /\ currentMinute' = currentMinute
      /\ delay' = (IF Overdue THEN delay + 1 ELSE delay)
      /\ delay' =< MaxDelay
  BY ClockAssumption DEF IInv, TypeOK, Tick, clockVars
<1>2. TypeOK'
  <2>1. now' \in 0 .. MaxTime /\ delay' \in 0 .. MaxDelay
    BY <1>1, ClockAssumption
  <2> QED
    BY <2>1 DEF IInv, TypeOK, Tick, clockVars, queryVars
<1>3. ASSUME Sleeping
      PROVE  /\ Behind \in Nat
             /\ \/ delay' = delay /\ Behind' = Behind
                \/ delay' = delay + 1 /\ Behind' = Behind + 1
  BY <1>1, <1>3 DEF Overdue, Sleeping, Behind
<1>4. SettleMark(currentMinute) \in Int /\ SettleMark(currentMinute + 1) \in Int
  <2>1. currentMinute \in Int /\ currentMinute + 1 \in Int
    BY DEF IInv, TypeOK, Minutes
  <2> QED
    BY <2>1, MarkNext
<1>5. AtMinute' = AtMinute /\ StartedLate' = StartedLate
  BY <1>1 DEF AtMinute, StartedLate, SettleMark
<1>6. DueAtSettleMark'
  <2> DEFINE late == IF StartedLate THEN Minute ELSE 0
  <2> SUFFICES ASSUME Querying
               PROVE  wake + Behind' = SettleMark(currentMinute + 1) + delay' + late
    BY <1>1, <1>5 DEF DueAtSettleMark, Querying, SettleMark
  <2>1. late \in Nat
    BY ClockAssumption
  <2> HIDE DEF late
  <2>2. wake + Behind = SettleMark(currentMinute + 1) + delay + late
    BY DEF late, IInv, Alignment, DueAtSettleMark, Querying
  <2>3. Behind \in Nat /\ \/ delay' = delay /\ Behind' = Behind
                          \/ delay' = delay + 1 /\ Behind' = Behind + 1
    BY <1>3 DEF Querying, Sleeping
  <2> QED
    BY <1>1, <1>4, <2>1, <2>2, <2>3
<1>7. (pc = "first" \/ Querying => SettleMark(currentMinute) =< now)'
  <2>1. SettleMark(currentMinute)' = SettleMark(currentMinute) /\ Querying' = Querying
    BY <1>1 DEF SettleMark, Querying
  <2> QED
    BY <1>1, <1>4, <2>1 DEF IInv, Alignment
<1>8. (pc = "measure" => minuteMs =< now /\ now =< wake /\ wake < minuteMs + Minute + Settle)'
  BY <1>1, ClockAssumption DEF IInv, TypeOK, Alignment, Tick
<1>9. (pc \in {"start", "measure"} => delay = 0)'
  BY <1>1 DEF IInv, Alignment, Overdue, Sleeping
<1>10. (pc \in {"settle", "skip"} => delay = Behind)'
  <2>1. ASSUME pc \in {"settle", "skip"}
        PROVE  delay = Behind /\ Sleeping
    BY <2>1 DEF IInv, Alignment, Sleeping
  <2>2. ASSUME pc \in {"settle", "skip"}
        PROVE  delay' = Behind'
    <3>1. /\ delay = Behind
          /\ \/ delay' = delay /\ Behind' = Behind
             \/ delay' = delay + 1 /\ Behind' = Behind + 1
      BY <1>3, <2>1, <2>2
    <3> QED
      BY <3>1
  <2> QED
    BY <2>2, <1>1
<1>11. (pc = "first" => \/ /\ currentMs \in minuteMs + Settle .. minuteMs + Late
                          /\ now = currentMs + delay
                       \/ /\ currentMs = minuteMs - Minute + Settle
                          /\ now = minuteMs + Settle + delay)'
  BY <1>1, ClockAssumption DEF IInv, TypeOK, Alignment, Overdue
<1>12. Alignment'
  BY <1>1, <1>5, <1>6, <1>7, <1>8, <1>9, <1>10, <1>11 DEF IInv, Alignment
<1> QED
  BY <1>2, <1>12

-----------------------------------------------------------------------------
(* The query threads                                                       *)

schedulerVars == <<now, pc, wake, currentMinute, clockVars, delay>>

(* They leave the scheduler's state alone. *)
LEMMA SchedulerUntouched ==
  ASSUME IInv, UNCHANGED schedulerVars
  PROVE  Alignment'
BY DEF schedulerVars, clockVars, IInv, Alignment, AtMinute, SettleMark, DueAtSettleMark, Behind,
       StartedLate, Querying

(* Answers for minute m are about currentMinute, and it is asked for. *)
LEMMA TaskIsCurrent ==
  ASSUME IInv, NEW m, NEW p, <<m, p>> \in posted \cup fetching
  PROVE  /\ m = currentMinute /\ m \in Nat /\ p \in Universe
         /\ queries = {m} /\ spawned = 0 /\ Querying
<1>1. m \in queries /\ p \in Universe
  BY DEF IInv, OneBatch
<1>2. currentMinute \in Nat /\ spawned \in {0, 1} /\ queries \subseteq {currentMinute}
  BY DEF IInv, OneBatch, TypeOK, Minutes
<1>3. (spawned = 1 => queries = {}) /\ (~Querying => queries = {})
  BY DEF IInv, OneBatch
<1> QED
  BY <1>1, <1>2, <1>3

(* A query thread starts a batch. *)
LEMMA AskStep ==
  ASSUME IInv, Ask
  PROVE  IInv'
<1>1. UNCHANGED schedulerVars
  BY DEF Ask, schedulerVars
<1>2. spawned = 1 /\ queries = {} /\ posted = {} /\ fetching = {} /\ Querying
  BY DEF IInv, OneBatch, Ask
<1>3. /\ spawned' = 0 /\ queries' = {currentMinute}
      /\ posted' = {<<currentMinute, p>> : p \in Universe}
      /\ fetching' = {} /\ currentMinute' = currentMinute /\ asked' = asked /\ bars' = bars
      /\ Querying'
  BY <1>1, <1>2 DEF Ask, schedulerVars, Querying
<1>4. TypeOK'
  BY <1>1, <1>2, <1>3 DEF IInv, TypeOK, schedulerVars, clockVars, Tasks
<1>5. \A p \in Universe : Unasked(p) /\ Unasked(p)' /\ Unanswered(p)
  BY <1>2, <1>3 DEF Unasked, Unanswered
<1>6. OneBatch'
  BY <1>2, <1>3, <1>5 DEF IInv, OneBatch
<1> QED
  BY <1>1, <1>4, <1>6, SchedulerUntouched DEF IInv

(* A product is asked for. *)
LEMMA FetchStep ==
  ASSUME IInv, NEW m \in Minutes, NEW p \in Universe, Fetch(m, p)
  PROVE  IInv'
<1>1. UNCHANGED schedulerVars
  BY DEF Fetch, schedulerVars
<1>2. /\ m = currentMinute /\ m \in Nat /\ p \in Universe
      /\ queries = {m} /\ spawned = 0 /\ Querying /\ <<m, p>> \in posted
  BY TaskIsCurrent DEF Fetch
<1>3. /\ spawned' = 0 /\ queries' = {m} /\ currentMinute' = m
      /\ posted' = posted \ {<<m, p>>} /\ fetching' = fetching \cup {<<m, p>>}
      /\ asked' = [asked EXCEPT ![p] = m] /\ bars' = bars /\ Querying'
  BY <1>1, <1>2 DEF Fetch, schedulerVars, Querying
<1>4. TypeOK'
  BY <1>1, <1>2, <1>3 DEF IInv, TypeOK, schedulerVars, clockVars, Tasks
<1>5. /\ asked \in [Universe -> Minutes \cup {NoMinute}]
      /\ bars \in [Universe -> Minutes \cup {NoMinute}]
  BY DEF IInv, TypeOK
<1>6. ASSUME NEW q \in Universe
      PROVE  /\ Unasked(q)' => Unasked(q) /\ q # p
             /\ ~Unasked(q)' => ~Unasked(q) \/ q = p
             /\ Unanswered(q)' => Unanswered(q)
             /\ q # p => asked'[q] = asked[q]
             /\ q = p => asked'[q] = m
  BY <1>2, <1>3, <1>5 DEF Unasked, Unanswered
<1>7. ASSUME NEW q \in Universe
      PROVE  /\ Unasked(q)' => asked'[q] \in {NoMinute, m - 1}
             /\ ~Unasked(q)' => asked'[q] = m
             /\ bars'[q] =< m
             /\ Unanswered(q)' => bars'[q] < m
  BY <1>2, <1>3, <1>6 DEF IInv, OneBatch
<1>8. posted' \cup fetching' \subseteq queries' \X Universe /\ posted' \cap fetching' = {}
  BY <1>2, <1>3 DEF IInv, OneBatch
<1>9. OneBatch'
  BY <1>3, <1>7, <1>8 DEF OneBatch
<1> QED
  BY <1>1, <1>4, <1>9, SchedulerUntouched DEF IInv

(* An answer, with a bar or without one. *)
LEMMA AnswerStep ==
  ASSUME IInv, NEW m \in Minutes, NEW p \in Universe, Answer(m, p)
  PROVE  IInv'
<1>1. UNCHANGED schedulerVars
  BY DEF Answer, schedulerVars
<1>2. /\ m = currentMinute /\ m \in Nat /\ p \in Universe
      /\ queries = {m} /\ spawned = 0 /\ Querying /\ <<m, p>> \in fetching
  BY TaskIsCurrent DEF Answer
<1>3. /\ spawned' = 0 /\ queries' = {m} /\ currentMinute' = m
      /\ posted' = posted /\ fetching' = fetching \ {<<m, p>>}
      /\ asked' = asked /\ Querying'
      /\ bars' \in {bars, [bars EXCEPT ![p] = m]}
  BY <1>1, <1>2 DEF Answer, schedulerVars, Querying
<1>4. bars \in [Universe -> Minutes \cup {NoMinute}]
  BY DEF IInv, TypeOK
<1>5. TypeOK'
  BY <1>1, <1>2, <1>3, <1>4 DEF IInv, TypeOK, schedulerVars, clockVars, Tasks
<1>6. <<m, p>> \notin posted
  BY <1>2 DEF IInv, OneBatch
<1>7. ASSUME NEW q \in Universe
      PROVE  /\ Unasked(q)' = Unasked(q)
             /\ Unanswered(q)' => Unanswered(q) /\ q # p
             /\ bars'[q] = bars[q] \/ (q = p /\ bars'[q] = m)
  BY <1>2, <1>3, <1>4, <1>6 DEF Unasked, Unanswered
<1>8. ASSUME NEW q \in Universe
      PROVE  /\ Unasked(q)' => asked'[q] \in {NoMinute, m - 1}
             /\ ~Unasked(q)' => asked'[q] = m
             /\ bars'[q] =< m
             /\ Unanswered(q)' => bars'[q] < m
  BY <1>2, <1>3, <1>7 DEF IInv, OneBatch
<1>9. posted' \cup fetching' \subseteq queries' \X Universe /\ posted' \cap fetching' = {}
  BY <1>2, <1>3 DEF IInv, OneBatch
<1>10. OneBatch'
  BY <1>3, <1>8, <1>9 DEF OneBatch
<1> QED
  BY <1>1, <1>5, <1>10, SchedulerUntouched DEF IInv

(* A batch ends when nothing of it is left. *)
LEMMA QueryDoneStep ==
  ASSUME IInv, NEW m \in Minutes, QueryDone(m)
  PROVE  IInv'
<1>1. UNCHANGED schedulerVars
  BY DEF QueryDone, schedulerVars
<1>2. m = currentMinute /\ queries = {m} /\ spawned = 0 /\ posted = {} /\ fetching = {}
  BY DEF IInv, OneBatch, QueryDone
<1>3. /\ spawned' = 0 /\ queries' = {} /\ currentMinute' = m
      /\ posted' = {} /\ fetching' = {} /\ asked' = asked /\ bars' = bars
      /\ Querying' = Querying
  BY <1>1, <1>2 DEF QueryDone, schedulerVars, Querying
<1>4. TypeOK'
  BY <1>1, <1>2, <1>3 DEF IInv, TypeOK, schedulerVars, clockVars
<1>5. \A p \in Universe : Unasked(p)' = Unasked(p) /\ Unanswered(p)' = Unanswered(p)
  BY <1>2, <1>3 DEF Unasked, Unanswered
<1>6. OneBatch'
  BY <1>2, <1>3, <1>5 DEF IInv, OneBatch
<1> QED
  BY <1>1, <1>4, <1>6, SchedulerUntouched DEF IInv

-----------------------------------------------------------------------------
(* The scheduler's part in the batches                                     *)

(* Before the first query there are none. *)
LEMMA NoBatchYet ==
  ASSUME IInv, ~Querying, ~Querying', UNCHANGED queryVars
  PROVE  OneBatch'
BY DEF IInv, OneBatch, queryVars

(* The first query starts the first batch. *)
LEMMA FirstBatch ==
  ASSUME IInv, FirstQuery
  PROVE  OneBatch'
<1>1. ~Querying /\ Querying' /\ spawned = 0 /\ currentMinute \in Nat /\ currentMinute' \in Nat
  BY DEF IInv, TypeOK, Minutes, OneBatch, FirstQuery, Awake, Querying
<1>2. /\ spawned' = 1 /\ queries' = {} /\ posted' = {} /\ fetching' = {}
      /\ asked' = asked /\ bars' = bars
  <2>1. queries = {} /\ posted = {} /\ fetching = {}
    BY <1>1 DEF IInv, OneBatch
  <2> QED
    BY <1>1, <2>1 DEF FirstQuery, Spawn
<1>3. \A p \in Universe : asked[p] = NoMinute /\ bars[p] = NoMinute
  BY <1>1 DEF IInv, OneBatch
<1>4. \A p \in Universe : Unasked(p)'
  BY <1>2 DEF Unasked
<1> QED
  BY <1>1, <1>2, <1>3, <1>4 DEF OneBatch, NoMinute

(* A later one starts a batch when the one before it has asked for all.    *)
LEMMA NextBatch ==
  ASSUME IInv, NextQuery
  PROVE  OneBatch'
<1>1. /\ Querying /\ Querying' /\ spawned = 0 /\ queries = {} /\ currentMinute \in Nat
      /\ currentMinute' = currentMinute + 1
  BY DEF IInv, TypeOK, Minutes, OneBatch, NextQuery, Awake, Joined, Querying
<1>2. /\ posted = {} /\ fetching = {}
      /\ spawned' = 1 /\ queries' = {} /\ posted' = {} /\ fetching' = {}
      /\ asked' = asked /\ bars' = bars
  BY <1>1 DEF IInv, OneBatch, NextQuery, Spawn
<1>3. \A p \in Universe : ~Unasked(p) /\ Unasked(p)'
  BY <1>1, <1>2 DEF Unasked
<1>4. \A p \in Universe : asked[p] = currentMinute /\ bars[p] =< currentMinute
  BY <1>1, <1>3 DEF IInv, OneBatch
<1>5. \A p \in Universe : bars[p] \in Int
  BY DEF IInv, TypeOK, Minutes, NoMinute
<1>6. \A p \in Universe : asked'[p] = currentMinute' - 1 /\ bars'[p] < currentMinute'
  BY <1>1, <1>2, <1>4, <1>5
<1>7. \A p \in Universe : bars'[p] =< currentMinute'
  BY <1>1, <1>2, <1>5, <1>6
<1> QED
  BY <1>1, <1>2, <1>3, <1>6, <1>7 DEF OneBatch

(* IInv is inductive. *)
LEMMA NextIInv == IInv /\ [Next]_vars => IInv'
<1> SUFFICES ASSUME IInv, [Next]_vars
             PROVE  IInv'
  OBVIOUS
<1>1. CASE ReadMinute
  <2>1. ~Querying /\ ~Querying' /\ UNCHANGED queryVars
    BY <1>1 DEF ReadMinute, Querying
  <2> QED
    BY <1>1, <2>1, ReadMinuteStep, NoBatchYet DEF IInv
<1>2. CASE Measure
  <2>1. ~Querying /\ ~Querying' /\ UNCHANGED queryVars
    BY <1>2 DEF Measure, Querying
  <2> QED
    BY <1>2, <2>1, MeasureStep, NoBatchYet DEF IInv
<1>3. CASE WakeSettled
  <2>1. ~Querying /\ ~Querying' /\ UNCHANGED queryVars
    BY <1>3 DEF WakeSettled, Awake, Querying
  <2> QED
    BY <1>3, <2>1, WakeSettledStep, NoBatchYet DEF IInv
<1>4. CASE WakeSkipped
  <2>1. ~Querying /\ ~Querying' /\ UNCHANGED queryVars
    BY <1>4 DEF WakeSkipped, Awake, Querying
  <2> QED
    BY <1>4, <2>1, WakeSkippedStep, NoBatchYet DEF IInv
<1>5. CASE FirstQuery
  BY <1>5, FirstQueryStep, FirstBatch DEF IInv
<1>6. CASE NextQuery
  BY <1>6, NextQueryStep, NextBatch DEF IInv
<1>7. CASE Ask
  BY <1>7, AskStep
<1>8. ASSUME NEW m \in Minutes, QueryDone(m)
      PROVE  IInv'
  BY <1>8, QueryDoneStep
<1>9. ASSUME NEW m \in Minutes, NEW p \in Universe, Fetch(m, p) \/ Answer(m, p)
      PROVE  IInv'
  BY <1>9, FetchStep, AnswerStep
<1>10. CASE Tick
  <2>1. OneBatch'
    BY <1>10 DEF IInv, OneBatch, Tick, queryVars, Querying, Unasked, Unanswered
  <2> QED
    BY <1>10, <2>1, TickStep DEF IInv
<1>11. CASE UNCHANGED vars
  <2>1. UNCHANGED schedulerVars /\ UNCHANGED queryVars
    BY <1>11 DEF vars, schedulerVars
  <2>2. TypeOK'
    BY <2>1 DEF IInv, TypeOK, schedulerVars, clockVars, queryVars
  <2>3. OneBatch'
    BY <2>1 DEF IInv, OneBatch, schedulerVars, queryVars, Querying, Unasked, Unanswered
  <2> QED
    BY <2>1, <2>2, <2>3, SchedulerUntouched DEF IInv
<1> QED
  BY <1>1, <1>2, <1>3, <1>4, <1>5, <1>6, <1>7, <1>8, <1>9, <1>10, <1>11
  DEF Next, Scheduler, Querier

-----------------------------------------------------------------------------
(* The theorems                                                            *)

(* The scheduler's arithmetic and the batches are as IInv says, always.    *)
THEOREM Invariance == Spec => []IInv
<1> QED
  BY InitIInv, NextIInv, PTL DEF Spec, SafeSpec

(* The variables of bars_scheduler.cpp and of its threads keep their       *)
(* types; currentMinute_ is never beyond the clock.                        *)
THEOREM TypeCorrect == Spec => []TypeOK
<1>1. IInv => TypeOK
  BY DEF IInv
<1> QED
  BY <1>1, Invariance, PTL

(* A bar is never asked for before it has been closed for Settle.          *)
THEOREM SettledBars == Spec => []OnlySettledBars
<1>1. IInv => OnlySettledBars
  <2> SUFFICES ASSUME IInv, NEW p \in Universe, asked[p] # NoMinute
               PROVE  now >= SettleMark(asked[p])
    BY DEF OnlySettledBars
  <2>1. /\ asked[p] \in Nat /\ currentMinute \in Nat /\ now \in Nat
    BY DEF IInv, TypeOK, Minutes, NoMinute
  <2>2. Querying
    BY DEF IInv, OneBatch
  <2>3. asked[p] =< currentMinute
    BY <2>1, <2>2 DEF IInv, OneBatch
  <2>4. SettleMark(asked[p]) =< SettleMark(currentMinute)
    BY <2>1, <2>3, MarkGrows
  <2>5. SettleMark(currentMinute) =< now
    BY <2>2 DEF IInv, Alignment
  <2>6. SettleMark(asked[p]) \in Int /\ SettleMark(currentMinute) \in Int
    BY <2>1, MarkNext
  <2> QED
    BY <2>1, <2>4, <2>5, <2>6
<1> QED
  BY <1>1, Invariance, PTL

(* Every batch is due at the mark of its minute, behind by the delay alone *)
(* and, after a late start, by a minute.                                   *)
THEOREM DueAtMark == Spec => []DueAtSettleMark
<1>1. IInv => DueAtSettleMark
  BY DEF IInv, Alignment
<1> QED
  BY <1>1, Invariance, PTL

(* No product's minute is left out or asked for twice.                     *)
THEOREM NoSkip == Spec => NoMinuteSkipped
<1> DEFINE InTurn == \A p \in Universe : asked'[p] # asked[p] =>
                        \/ asked[p] = NoMinute
                        \/ asked'[p] = asked[p] + 1
<1>1. IInv /\ [Next]_vars => [InTurn]_vars
  <2> SUFFICES ASSUME IInv, Next
               PROVE  InTurn
    OBVIOUS
  <2>1. CASE asked' = asked
    BY <2>1
  <2>2. ASSUME NEW m \in Minutes, NEW q \in Universe, Fetch(m, q)
        PROVE  InTurn
    <3>1. m = currentMinute /\ <<m, q>> \in posted /\ Querying /\ m \in Nat
      BY <2>2, TaskIsCurrent DEF Fetch
    <3>2. asked[q] \in {NoMinute, m - 1}
      BY <3>1 DEF IInv, OneBatch, Unasked
    <3>3. asked \in [Universe -> Minutes \cup {NoMinute}] /\ asked' = [asked EXCEPT ![q] = m]
      BY <2>2 DEF Fetch, IInv, TypeOK
    <3>4. asked'[q] = m /\ \A p \in Universe \ {q} : asked'[p] = asked[p]
      BY <3>3
    <3>5. asked[q] = NoMinute \/ asked'[q] = asked[q] + 1
      BY <3>1, <3>2, <3>4
    <3> QED
      BY <3>4, <3>5
  <2>3. asked' = asked \/ \E m \in Minutes, q \in Universe : Fetch(m, q)
    BY DEF Next, Scheduler, Querier, ReadMinute, Measure, WakeSettled, WakeSkipped,
           FirstQuery, NextQuery, Spawn, Ask, Answer, QueryDone, Tick, queryVars
  <2> QED
    BY <2>1, <2>2, <2>3
<1>2. NoMinuteSkipped <=> [][InTurn]_vars
  BY DEF NoMinuteSkipped
<1> HIDE DEF InTurn
<1> QED
  BY <1>1, <1>2, Invariance, PTL DEF Spec, SafeSpec

(* The bars of a product are enqueued in the order of their minutes.       *)
THEOREM OrderlyBars == Spec => BarsInOrder
<1> DEFINE Later == \A p \in Universe : bars'[p] # bars[p] => bars'[p] > bars[p]
<1>1. IInv /\ [Next]_vars => [Later]_vars
  <2> SUFFICES ASSUME IInv, Next
               PROVE  Later
    OBVIOUS
  <2>1. CASE bars' = bars
    BY <2>1
  <2>2. ASSUME NEW m \in Minutes, NEW q \in Universe, Answer(m, q)
        PROVE  Later
    <3>1. m = currentMinute /\ <<m, q>> \in fetching /\ Querying /\ m \in Nat
      BY <2>2, TaskIsCurrent DEF Answer
    <3>2. bars[q] < m
      BY <3>1 DEF IInv, OneBatch, Unanswered
    <3>3. /\ bars \in [Universe -> Minutes \cup {NoMinute}]
          /\ bars' = bars \/ bars' = [bars EXCEPT ![q] = m]
      BY <2>2 DEF Answer, IInv, TypeOK
    <3>4. bars[q] \in Int
      BY <3>3 DEF Minutes, NoMinute
    <3> QED
      BY <3>1, <3>2, <3>3, <3>4
  <2>3. bars' = bars \/ \E m \in Minutes, q \in Universe : Answer(m, q)
    BY DEF Next, Scheduler, Querier, ReadMinute, Measure, WakeSettled, WakeSkipped,
           FirstQuery, NextQuery, Spawn, Ask, Fetch, QueryDone, Tick, queryVars
  <2> QED
    BY <2>1, <2>2, <2>3
<1>2. BarsInOrder <=> [][Later]_vars
  BY DEF BarsInOrder
<1> HIDE DEF Later
<1> QED
  BY <1>1, <1>2, Invariance, PTL DEF Spec, SafeSpec
=============================================================================
