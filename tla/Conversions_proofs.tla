-------------------------- MODULE Conversions_proofs --------------------------
(******************************************************************************)
(* Proofs about the conversions of time stamps (Calendar), of data (Base64)   *)
(* and of the configuration file (Config).                                    *)
(*                                                                            *)
(* The first part proves that the date library's formula numbers the days of  *)
(* the Gregorian calendar one after the other, for ever: no bound on the      *)
(* years, and no assumption on the number of days stepped through.  The       *)
(* formula counts years from March, so that the leap day comes last: the      *)
(* lemmas are the number of days before a month of such a year and the number *)
(* of days before such a year.                                                *)
(*                                                                            *)
(* The second part proves that a time that is written is read back as the     *)
(* same time, with any number of decimals that the Duration holds.  What the  *)
(* recursive functions Pow10 and Decimal compute is shown by induction over   *)
(* sets of numbers; the reader is followed through the text, field by field.  *)
(*                                                                            *)
(* The third part proves that decode gives back what encode was given, for    *)
(* data of every length from two bytes on, and that the signature of a digest *)
(* without a zero byte is the whole digest.  The argument goes by groups:     *)
(* three bytes a, b, c make four characters, of which the number              *)
(* a * 65536 + b * 256 + c is put together again; bytes that are not there    *)
(* count zero on both sides.                                                  *)
(*                                                                            *)
(* The fourth part proves that the configuration is read as it was written,   *)
(* for files of every length and every step of indentation.  The invariant    *)
(* says what shape a file has (Shaped) and that what it gives for a key is    *)
(* what its lines say (Matches); a file has been parsed before the next line  *)
(* is written, so that nothing of the parser is in it.  The passes over the   *)
(* lines are followed one by one: what a round makes of a line with a name    *)
(* (MappingLineIs), where all rounds leave the lines (Spread), what the map   *)
(* at each key is, by induction on the keys that may be to come (MapsExist),  *)
(* and what the nodes made from it are (NodeIs).                              *)
(******************************************************************************)
EXTENDS Calendar, Base64, Config, WellFoundedInduction, SequenceTheorems, TLAPS

(* The dates there are. *)
Dates ==
  {d \in [year : Int, month : 1 .. 12, day : 1 .. 31] : d.day <= MonthLength(d.year, d.month)}

(* The parts of ToDays: the year from March, the days from the epoch of the   *)
(* formula to that year, and the days of that year up to a month.             *)
MarchYear(y, m) == IF m <= 2 THEN y - 1 ELSE y

YearDays(y) ==
  (y \div 400) * 146097
    + ((y - (y \div 400) * 400) * 365 + (y - (y \div 400) * 400) \div 4
         - (y - (y \div 400) * 400) \div 100)

MonthDays(m) == (153 * (IF m > 2 THEN m - 3 ELSE m + 9) + 2) \div 5

CalendarInv == date \in Dates /\ days = ToDays(date)

-------------------------------------------------------------------------------
(* Arithmetic                                                                 *)

(* The two rules for leap years are one. *)
LEMMA LeapRulesAgree ==
  ASSUME NEW y \in Int
  PROVE  IsLeap(y) <=> GregorianLeap(y)
BY SMT DEF IsLeap, GregorianLeap

LEMMA LastIsMonthLength ==
  ASSUME NEW y \in Int, NEW m \in 1 .. 12
  PROVE  /\ LastOfMonth(y, m) = MonthLength(y, m)
         /\ MonthLength(y, m) \in 28 .. 31
<1>1. IsLeap(y) <=> GregorianLeap(y)
  BY LeapRulesAgree
<1>2. m \in {1, 2, 3, 4, 5, 6, 7, 8, 9, 10, 11, 12}
  BY SMT
<1>3. \A k \in 1 .. 12 : <<31, 28, 31, 30, 31, 30, 31, 31, 30, 31, 30, 31>>[k]
                           = IF k \in {4, 6, 9, 11} THEN 30 ELSE IF k # 2 THEN 31 ELSE 28
  OBVIOUS
<1> QED
  BY <1>1, <1>2, <1>3 DEF LastOfMonth, MonthLength

LEMMA YearOfEra ==
  ASSUME NEW y, NEW e, NEW r, y \div 400 = e, y - e * 400 = r
  PROVE  YearDays(y) = e * 146097 + (r * 365 + r \div 4 - r \div 100)
BY DEF YearDays

(* A year from March has 365 days, or 366 if it ends in a leap February. *)
LEMMA YearGrows ==
  ASSUME NEW y \in Int
  PROVE  YearDays(y) = YearDays(y - 1) + IF GregorianLeap(y) THEN 366 ELSE 365
<1> DEFINE e == y \div 400
           r == y - e * 400
<1>1. e \in Int /\ r \in 0 .. 399 /\ y = 400 * e + r
  BY SMT
<1>2. y % 4 = r % 4 /\ y % 100 = r % 100 /\ y % 400 = r
  BY SMT
<1>3. YearDays(y) = e * 146097 + (r * 365 + r \div 4 - r \div 100)
  BY DEF YearDays
<1> HIDE DEF e, r
<1>4. CASE r # 0
  <2>1. (y - 1) \div 400 = e /\ y - 1 - e * 400 = r - 1
    BY <1>1, <1>4, SMT
  <2>2. YearDays(y - 1) = e * 146097 + ((r - 1) * 365 + (r - 1) \div 4 - (r - 1) \div 100)
    BY <2>1, YearOfEra
  <2>3. r \div 4 - (r - 1) \div 4 = IF r % 4 = 0 THEN 1 ELSE 0
    BY <1>1, SMT
  <2>4. r \div 100 - (r - 1) \div 100 = IF r % 100 = 0 THEN 1 ELSE 0
    BY <1>1, SMT
  <2>5. r % 100 = 0 => r % 4 = 0
    BY <1>1, SMT
  <2>6. GregorianLeap(y) <=> r % 4 = 0 /\ r % 100 # 0
    BY <1>2, <1>4 DEF GregorianLeap
  <2> DEFINE a == r \div 4
             b == (r - 1) \div 4
             c == r \div 100
             d == (r - 1) \div 100
  <2>7. a \in Int /\ b \in Int /\ c \in Int /\ d \in Int
    BY <1>1, SMT
  <2> HIDE DEF a, b, c, d
  <2>8. a - b = (IF r % 4 = 0 THEN 1 ELSE 0) /\ c - d = (IF r % 100 = 0 THEN 1 ELSE 0)
    BY <2>3, <2>4 DEF a, b, c, d
  <2>9. /\ YearDays(y) = e * 146097 + (r * 365 + a - c)
        /\ YearDays(y - 1) = e * 146097 + ((r - 1) * 365 + b - d)
    BY <1>3, <2>2 DEF a, b, c, d
  <2> QED
    BY <1>1, <2>5, <2>6, <2>7, <2>8, <2>9, SMT
<1>5. CASE r = 0
  <2>1. (y - 1) \div 400 = e - 1 /\ y - 1 - (e - 1) * 400 = 399
    BY <1>1, <1>5, SMT
  <2>2. YearDays(y - 1) = (e - 1) * 146097 + (399 * 365 + 399 \div 4 - 399 \div 100)
    BY <2>1, YearOfEra
  <2>3. 399 \div 4 = 99 /\ 399 \div 100 = 3 /\ 0 \div 4 = 0 /\ 0 \div 100 = 0
    BY SMT
  <2>4. GregorianLeap(y)
    BY <1>2, <1>5 DEF GregorianLeap
  <2> QED
    BY <1>1, <1>3, <1>5, <2>2, <2>3, <2>4, SMT
<1> QED
  BY <1>4, <1>5

(* The days before each month of a year from March. *)
LEMMA MonthTable ==
  /\ MonthDays(3) = 0 /\ MonthDays(4) = 31 /\ MonthDays(5) = 61 /\ MonthDays(6) = 92
  /\ MonthDays(7) = 122 /\ MonthDays(8) = 153 /\ MonthDays(9) = 184 /\ MonthDays(10) = 214
  /\ MonthDays(11) = 245 /\ MonthDays(12) = 275 /\ MonthDays(1) = 306 /\ MonthDays(2) = 337
BY SMT DEF MonthDays

LEMMA ToDaysParts ==
  ASSUME NEW d \in Dates
  PROVE  /\ ToDays(d) = YearDays(MarchYear(d.year, d.month)) + MonthDays(d.month) + d.day - 719469
         /\ YearDays(MarchYear(d.year, d.month)) \in Int /\ MonthDays(d.month) \in Int
         /\ d.year \in Int /\ d.month \in 1 .. 12 /\ d.day \in 1 .. 31
<1>1. d.year \in Int /\ d.month \in 1 .. 12 /\ d.day \in 1 .. 31
  BY DEF Dates
<1> DEFINE y == MarchYear(d.year, d.month)
<1>2. y \in Int
  BY <1>1 DEF MarchYear
<1>3. MonthDays(d.month) \in Int
  BY <1>1, SMT DEF MonthDays
<1>4. YearDays(y) \in Int
  BY <1>2, SMT DEF YearDays
<1>5. ToDays(d) = (y \div 400) * 146097
                    + ((y - (y \div 400) * 400) * 365 + (y - (y \div 400) * 400) \div 4
                        - (y - (y \div 400) * 400) \div 100
                        + (MonthDays(d.month) + d.day - 1)) - 719468
  BY DEF ToDays, MarchYear, MonthDays
<1> QED
  BY <1>1, <1>2, <1>3, <1>4, <1>5, SMT DEF YearDays

-------------------------------------------------------------------------------
(* From one day to the next                                                   *)

FollowingDay(d) ==
  IF d.day < MonthLength(d.year, d.month)
  THEN [year |-> d.year, month |-> d.month, day |-> d.day + 1]
  ELSE IF d.month < 12 THEN [year |-> d.year, month |-> d.month + 1, day |-> 1]
  ELSE [year |-> d.year + 1, month |-> 1, day |-> 1]

LEMMA FollowingDayIsADate ==
  ASSUME NEW d \in Dates
  PROVE  FollowingDay(d) \in Dates
<1>1. d.year \in Int /\ d.month \in 1 .. 12 /\ d.day \in 1 .. 31
  BY DEF Dates
<1>2. \A y \in Int, m \in 1 .. 12 : MonthLength(y, m) \in 28 .. 31
  BY LastIsMonthLength
<1>3. CASE d.day < MonthLength(d.year, d.month)
  <2>1. d.day + 1 \in 1 .. 31 /\ d.day + 1 <= MonthLength(d.year, d.month)
    BY <1>1, <1>2, <1>3
  <2> QED
    BY <1>1, <1>3, <2>1 DEF FollowingDay, Dates
<1>4. CASE ~(d.day < MonthLength(d.year, d.month)) /\ d.month < 12
  <2>1. d.month + 1 \in 1 .. 12 /\ 1 <= MonthLength(d.year, d.month + 1)
    BY <1>1, <1>2, <1>4
  <2> QED
    BY <1>1, <1>4, <2>1 DEF FollowingDay, Dates
<1>5. CASE ~(d.day < MonthLength(d.year, d.month)) /\ ~(d.month < 12)
  <2>1. d.year + 1 \in Int /\ 1 <= MonthLength(d.year + 1, 1)
    BY <1>1, <1>2
  <2> QED
    BY <1>5, <2>1 DEF FollowingDay, Dates
<1> QED
  BY <1>3, <1>4, <1>5

(* The formula counts one more: within a month, from a month to the next, in  *)
(* a year from March, and from a leap or common February to March.            *)
LEMMA FollowingDayCounts ==
  ASSUME NEW d \in Dates
  PROVE  ToDays(FollowingDay(d)) = ToDays(d) + 1
<1> DEFINE n == FollowingDay(d)
           y == d.year
           m == d.month
           a == YearDays(MarchYear(y, m))
           b == MonthDays(m)
<1>1. /\ ToDays(d) = a + b + d.day - 719469
      /\ a \in Int /\ b \in Int /\ y \in Int /\ m \in 1 .. 12 /\ d.day \in 1 .. 31
  BY ToDaysParts, SMT
<1>2. n \in Dates
  BY FollowingDayIsADate, SMT
<1>3. /\ ToDays(n) = YearDays(MarchYear(n.year, n.month)) + MonthDays(n.month) + n.day - 719469
      /\ YearDays(MarchYear(n.year, n.month)) \in Int /\ MonthDays(n.month) \in Int
  BY <1>2, ToDaysParts, SMT
<1>4. CASE d.day < MonthLength(y, m)
  <2>1. n.year = y /\ n.month = m /\ n.day = d.day + 1
    BY <1>4, SMT DEF FollowingDay
  <2>2. ToDays(n) = a + b + (d.day + 1) - 719469
    BY <1>3, <2>1, SMT
  <2> HIDE DEF a, b
  <2> QED
    BY <1>1, <2>2, SMT
<1>5. CASE ~(d.day < MonthLength(y, m)) /\ m < 12
  <2>1. n.year = y /\ n.month = m + 1 /\ n.day = 1
    BY <1>5, SMT DEF FollowingDay
  <2>2. d.day = MonthLength(y, m)
    <3>1. d.day <= MonthLength(y, m) /\ MonthLength(y, m) \in 28 .. 31
      BY <1>1, LastIsMonthLength, SMT DEF Dates
    <3> QED
      BY <1>1, <1>5, <3>1, SMT
  <2>3. ToDays(n) = YearDays(MarchYear(y, m + 1)) + MonthDays(m + 1) + 1 - 719469
    BY <1>3, <2>1, SMT
  <2>4. CASE m = 2
    <3>1. MarchYear(y, m) = y - 1 /\ MarchYear(y, m + 1) = y
      BY <1>1, <2>4, SMT DEF MarchYear
    <3>2. YearDays(y) = a + IF GregorianLeap(y) THEN 366 ELSE 365
      BY <1>1, <3>1, YearGrows, SMT
    <3>3. b = 337 /\ MonthDays(m + 1) = 0 /\ d.day = IF GregorianLeap(y) THEN 29 ELSE 28
      <4>1. m + 1 = 3
        BY <2>4, SMT
      <4> QED
        BY <2>2, <2>4, <4>1, MonthTable, SMT DEF MonthLength
    <3>4. ToDays(n) = YearDays(y) + 0 + 1 - 719469
      BY <2>3, <3>1, <3>3, SMT
    <3> HIDE DEF a, b
    <3> QED
      BY <1>1, <3>2, <3>3, <3>4, SMT
  <2>5. CASE m # 2
    <3>1. MarchYear(y, m) = MarchYear(y, m + 1)
      BY <1>1, <2>5, SMT DEF MarchYear
    <3>2. MonthDays(m + 1) = b + d.day
      <4>1. m \in {1, 3, 4, 5, 6, 7, 8, 9, 10, 11}
        BY <1>1, <1>5, <2>5, SMT
      <4>2. d.day = IF m \in {4, 6, 9, 11} THEN 30 ELSE 31
        BY <2>2, <2>5, SMT DEF MonthLength
      <4>3. MonthDays(m + 1) = MonthDays(m) + IF m \in {4, 6, 9, 11} THEN 30 ELSE 31
        BY <4>1, MonthTable, SMT
      <4> QED
        BY <4>2, <4>3, SMT
    <3>3. ToDays(n) = a + (b + d.day) + 1 - 719469
      BY <2>3, <3>1, <3>2, SMT
    <3> HIDE DEF a, b
    <3> QED
      BY <1>1, <3>3, SMT
  <2> QED
    BY <2>4, <2>5, SMT
<1>6. CASE ~(d.day < MonthLength(y, m)) /\ ~(m < 12)
  <2>1. n.year = y + 1 /\ n.month = 1 /\ n.day = 1 /\ m = 12
    BY <1>1, <1>6, SMT DEF FollowingDay
  <2>2. d.day = 31
    <3>1. MonthLength(y, 12) = 31 /\ d.day <= MonthLength(y, m)
      BY SMT DEF MonthLength, Dates
    <3> QED
      BY <1>1, <1>6, <2>1, <3>1, SMT
  <2>3. MarchYear(y, 12) = y /\ MarchYear(y + 1, 1) = y
    BY <1>1, SMT DEF MarchYear
  <2>4. MonthDays(1) = 306 /\ b = 275
    BY <2>1, MonthTable, SMT
  <2>5. ToDays(n) = a + 306 + 1 - 719469
    BY <1>3, <2>1, <2>3, <2>4, SMT
  <2> HIDE DEF a, b
  <2> QED
    BY <1>1, <2>2, <2>4, <2>5, SMT
<1> QED
  BY <1>4, <1>5, <1>6, SMT

LEMMA TomorrowFollows ==
  ASSUME CalendarInv, Tomorrow
  PROVE  date' = FollowingDay(date) /\ days' = days + 1
<1>1. date \in [year : Int, month : 1 .. 12, day : 1 .. 31]
  BY DEF CalendarInv, Dates
<1>2. CASE date.day < MonthLength(date.year, date.month)
  <2>1. date' = [date EXCEPT !.day = date.day + 1]
    BY <1>2 DEF Tomorrow
  <2>2. date' = [year |-> date.year, month |-> date.month, day |-> date.day + 1]
    BY <1>1, <2>1
  <2> QED
    BY <1>2, <2>2 DEF Tomorrow, FollowingDay
<1>3. CASE ~(date.day < MonthLength(date.year, date.month)) /\ date.month < 12
  <2>1. date' = [date EXCEPT !.day = 1, !.month = date.month + 1]
    BY <1>3 DEF Tomorrow
  <2>2. date' = [year |-> date.year, month |-> date.month + 1, day |-> 1]
    BY <1>1, <2>1
  <2> QED
    BY <1>3, <2>2 DEF Tomorrow, FollowingDay
<1>4. CASE ~(date.day < MonthLength(date.year, date.month)) /\ ~(date.month < 12)
  BY <1>4 DEF Tomorrow, FollowingDay
<1> QED
  BY <1>2, <1>3, <1>4

(* The first day is day 0. *)
LEMMA EpochIsDayZero == CalendarInit => CalendarInv
<1> SUFFICES ASSUME CalendarInit
             PROVE  CalendarInv
  OBVIOUS
<1>1. date.year = 1970 /\ date.month = 1 /\ date.day = 1 /\ days = 0
  BY SMT DEF CalendarInit
<1>2. date \in Dates
  <2>1. MonthLength(1970, 1) = 31
    BY SMT DEF MonthLength
  <2> QED
    BY <2>1, SMT DEF CalendarInit, Dates
<1>3. 1969 \div 400 = 4 /\ 1969 - 4 * 400 = 369 /\ 369 \div 4 = 92 /\ 369 \div 100 = 3
  BY SMT
<1>4. YearDays(1969) = 4 * 146097 + (369 * 365 + 369 \div 4 - 369 \div 100)
  BY <1>3, YearOfEra, SMT
<1>5. ToDays(date) = YearDays(MarchYear(1970, 1)) + MonthDays(1) + 1 - 719469
  BY <1>1, <1>2, ToDaysParts, SMT
<1>6. MarchYear(1970, 1) = 1969 /\ MonthDays(1) = 306
  BY MonthTable, SMT DEF MarchYear
<1> QED
  BY <1>1, <1>2, <1>3, <1>4, <1>5, <1>6, SMT DEF CalendarInv

-------------------------------------------------------------------------------
(* year_month_day::to_days and ok, date.h: day by day from 1970-01-01, the    *)
(* formula counts the days of the calendar, the library accepts every date of *)
(* it, and it refuses the day after the last of a month.                      *)
THEOREM DaysAreInOrder == CalendarInit /\ [][Tomorrow]_calendarVars => []DaysAreCalendarDays
<1>1. CalendarInit => CalendarInv
  BY EpochIsDayZero
<1>2. CalendarInv /\ [Tomorrow]_calendarVars => CalendarInv'
  <2> SUFFICES ASSUME CalendarInv, [Tomorrow]_calendarVars
               PROVE  CalendarInv'
    OBVIOUS
  <2>1. CASE Tomorrow
    <3>1. date' = FollowingDay(date) /\ days' = days + 1 /\ date \in Dates /\ days = ToDays(date)
      BY <2>1, TomorrowFollows DEF CalendarInv
    <3>2. date' \in Dates /\ ToDays(date') = ToDays(date) + 1
      BY <3>1, FollowingDayIsADate, FollowingDayCounts
    <3> QED
      BY <3>1, <3>2 DEF CalendarInv
  <2>2. CASE UNCHANGED calendarVars
    BY <2>2 DEF CalendarInv, calendarVars
  <2> QED
    BY <2>1, <2>2
<1>3. CalendarInv => DaysAreCalendarDays
  <2> SUFFICES ASSUME CalendarInv
               PROVE  DaysAreCalendarDays
    OBVIOUS
  <2>1. /\ date \in [year : Int, month : 1 .. 12, day : 1 .. 31]
        /\ date.year \in Int /\ date.month \in 1 .. 12 /\ date.day \in 1 .. 31
        /\ date.day <= MonthLength(date.year, date.month)
    BY DEF CalendarInv, Dates
  <2>2. /\ LastOfMonth(date.year, date.month) = MonthLength(date.year, date.month)
        /\ MonthLength(date.year, date.month) \in 28 .. 31
    BY <2>1, LastIsMonthLength
  <2>3. Ok(date)
    BY <2>1, <2>2 DEF Ok
  <2>4. ASSUME date.day = MonthLength(date.year, date.month)
        PROVE  ~Ok([date EXCEPT !.day = @ + 1])
    <3> DEFINE n == [date EXCEPT !.day = @ + 1]
    <3>1. n.year = date.year /\ n.month = date.month /\ n.day = date.day + 1
      BY <2>1
    <3> HIDE DEF n
    <3>2. ~Ok(n)
      BY <2>1, <2>2, <2>4, <3>1 DEF Ok
    <3> QED
      BY <3>2 DEF n
  <2> QED
    BY <2>3, <2>4 DEF CalendarInv, DaysAreCalendarDays
<1> QED
  BY <1>1, <1>2, <1>3, PTL

-------------------------------------------------------------------------------
(* Induction, powers of ten and the value of digits                            *)

(* The order of the numbers, as the well-founded relation of the library. *)
NatLess == {pair \in Nat \X Nat : pair[1] < pair[2]}

(* A set of numbers that is not empty has a least one. *)
LEMMA LeastNumber ==
  ASSUME NEW T \in SUBSET Nat, T # {}
  PROVE  \E m \in T : \A k \in T : m <= k
<1>1. IsWellFoundedOn(NatLess, Nat)
  BY NatLessThanWellFounded DEF OpToRel, NatLess
<1>2. PICK m \in T : \A k \in T : <<k, m>> \notin NatLess
  BY <1>1, WFMin, Zenon
<1>3. ASSUME NEW k \in T PROVE m <= k
  <2>1. <<k, m>> \in Nat \X Nat /\ <<k, m>>[1] = k /\ <<k, m>>[2] = m
    OBVIOUS
  <2>2. ~(k < m)
    BY <1>2, <2>1 DEF NatLess
  <2> QED
    BY <2>2
<1> QED
  BY <1>3

(* Induction: the set of the numbers with a property, in place of the         *)
(* property.                                                                  *)
LEMMA Induction ==
  ASSUME NEW S \in SUBSET Nat, 0 \in S, \A n \in S : n + 1 \in S
  PROVE  S = Nat
<1> SUFFICES ASSUME Nat \ S # {} PROVE FALSE
  OBVIOUS
<1>1. PICK m \in Nat \ S : \A k \in Nat \ S : m <= k
  BY LeastNumber
<1>2. m # 0 /\ m - 1 \in Nat
  BY <1>1
<1>3. m - 1 \in S
  BY <1>1, <1>2
<1>4. (m - 1) + 1 = m
  BY <1>1
<1> QED
  BY <1>1, <1>3, <1>4

(* f holds the first n + 1 powers of ten, defined as Pow10 is. *)
IsPow(f, n) == f = [i \in 0 .. n |-> IF i = 0 THEN 1 ELSE 10 * f[i - 1]]

(* There is such a function for every n. *)
LEMMA PowExists == \A n \in Nat : \E f \in [0 .. n -> Nat] : IsPow(f, n)
<1> DEFINE S == {n \in Nat : \E f \in [0 .. n -> Nat] : IsPow(f, n)}
<1>1. 0 \in S
  <2> DEFINE f == [i \in 0 .. 0 |-> 1]
  <2>1. f \in [0 .. 0 -> Nat] /\ f = [i \in 0 .. 0 |-> IF i = 0 THEN 1 ELSE 10 * f[i - 1]]
    OBVIOUS
  <2> QED
    BY <2>1 DEF IsPow
<1>2. ASSUME NEW n \in S PROVE n + 1 \in S
  <2>1. PICK f \in [0 .. n -> Nat] : IsPow(f, n)
    OBVIOUS
  <2> DEFINE g == [i \in 0 .. n + 1 |-> IF i = 0 THEN 1 ELSE 10 * f[i - 1]]
  <2>2. n \in Nat
    OBVIOUS
  <2>3. g \in [0 .. n + 1 -> Nat]
    BY <2>2
  <2>4. \A i \in 0 .. n : g[i] = f[i]
    <3>1. \A i \in 0 .. n : f[i] = IF i = 0 THEN 1 ELSE 10 * f[i - 1]
      BY <2>1 DEF IsPow
    <3>2. \A i \in 0 .. n : g[i] = IF i = 0 THEN 1 ELSE 10 * f[i - 1]
      BY <2>2
    <3> QED
      BY <3>1, <3>2
  <2>5. \A i \in 0 .. n + 1 : i # 0 => i - 1 \in 0 .. n
    BY <2>2
  <2>6. g = [i \in 0 .. n + 1 |-> IF i = 0 THEN 1 ELSE 10 * g[i - 1]]
    BY <2>4, <2>5
  <2>7. IsPow(g, n + 1)
    BY <2>6 DEF IsPow
  <2>8. n + 1 \in Nat
    BY <2>2
  <2> HIDE DEF g
  <2> QED
    BY <2>3, <2>7, <2>8
<1> HIDE DEF S
<1>3. S = Nat
  <2>1. S \in SUBSET Nat
    BY DEF S
  <2> QED
    BY <1>1, <1>2, <2>1, Induction
<1> QED
  BY <1>3 DEF S

(* Two such functions agree where both are defined. *)
LEMMA PowUnique ==
  ASSUME NEW n \in Nat, NEW f, NEW g, IsPow(f, n), IsPow(g, n + 1)
  PROVE  \A i \in 0 .. n : f[i] = g[i]
<1>1. \A i \in 0 .. n : f[i] = IF i = 0 THEN 1 ELSE 10 * f[i - 1]
  BY DEF IsPow
<1>2. \A i \in 0 .. n : g[i] = IF i = 0 THEN 1 ELSE 10 * g[i - 1]
  BY DEF IsPow
<1> DEFINE S == {i \in Nat : i <= n => f[i] = g[i]}
<1>3. 0 \in S
  BY <1>1, <1>2
<1>4. ASSUME NEW i \in S PROVE i + 1 \in S
  BY <1>1, <1>2
<1> HIDE DEF S
<1>5. S = Nat
  <2>1. S \in SUBSET Nat
    BY DEF S
  <2> QED
    BY <1>3, <1>4, <2>1, Induction
<1> QED
  BY <1>5 DEF S

(* Pow10 is what its definition says: the functions above, put together. *)
LEMMA Pow10Rec ==
  /\ Pow10 \in [Nat -> Nat]
  /\ Pow10[0] = 1
  /\ \A n \in Nat : Pow10[n + 1] = 10 * Pow10[n]
<1> DEFINE P(n) == CHOOSE f \in [0 .. n -> Nat] : IsPow(f, n)
           G == [n \in Nat |-> P(n)[n]]
<1>1. \A n \in Nat : P(n) \in [0 .. n -> Nat] /\ IsPow(P(n), n)
  BY PowExists
<1> HIDE DEF P
<1>2. G \in [Nat -> Nat]
  BY <1>1
<1>3. G[0] = 1
  <2>1. P(0)[0] = 1
    BY <1>1 DEF IsPow
  <2> QED
    BY <2>1
<1>4. ASSUME NEW n \in Nat PROVE G[n + 1] = 10 * G[n]
  <2>1. IsPow(P(n), n) /\ IsPow(P(n + 1), n + 1)
    BY <1>1
  <2>2. P(n)[n] = P(n + 1)[n]
    BY <2>1, PowUnique
  <2>3. P(n + 1)[n + 1] = 10 * P(n + 1)[n]
    <3>1. \A i \in 0 .. n + 1 : P(n + 1)[i] = IF i = 0 THEN 1 ELSE 10 * P(n + 1)[i - 1]
      BY <2>1 DEF IsPow
    <3> QED
      BY <3>1
  <2> QED
    BY <2>2, <2>3
<1>5. G = [n \in Nat |-> IF n = 0 THEN 1 ELSE 10 * G[n - 1]]
  <2> HIDE DEF G
  <2>1. \A n \in Nat : G[n] = IF n = 0 THEN 1 ELSE 10 * G[n - 1]
    <3> TAKE n \in Nat
    <3>1. CASE n = 0
      BY <1>3, <3>1
    <3>2. CASE n # 0
      <4>1. n - 1 \in Nat /\ (n - 1) + 1 = n
        BY <3>2
      <4> QED
        BY <1>4, <4>1
    <3> QED
      BY <3>1, <3>2
  <2> QED
    BY <1>2, <2>1
<1> HIDE DEF G
<1>6. Pow10 = [n \in Nat |-> IF n = 0 THEN 1 ELSE 10 * Pow10[n - 1]]
  BY <1>5 DEF Pow10
<1>7. \A n \in Nat : Pow10[n] = IF n = 0 THEN 1 ELSE 10 * Pow10[n - 1]
  BY <1>6
<1> DEFINE S == {n \in Nat : Pow10[n] \in Nat}
<1>8. S = Nat
  <2>1. 0 \in S
    BY <1>7
  <2>2. \A n \in S : n + 1 \in S
    BY <1>7
  <2>3. S \in SUBSET Nat
    OBVIOUS
  <2> HIDE DEF S
  <2> QED
    BY <2>1, <2>2, <2>3, Induction
<1>9. Pow10 \in [Nat -> Nat]
  BY <1>6, <1>8
<1> QED
  BY <1>7, <1>9

(* Powers of ten are multiplied by adding their exponents. *)
LEMMA Pow10Sum ==
  ASSUME NEW a \in Nat, NEW b \in Nat
  PROVE  Pow10[a] * Pow10[b] = Pow10[a + b]
<1> DEFINE S == {n \in Nat : Pow10[a] * Pow10[n] = Pow10[a + n]}
<1>1. 0 \in S
  BY Pow10Rec
<1>2. ASSUME NEW n \in S PROVE n + 1 \in S
  <2> DEFINE p == Pow10[a]
             q == Pow10[n]
             r == Pow10[a + n]
  <2>1. Pow10[n + 1] = 10 * q /\ Pow10[a + (n + 1)] = 10 * r /\ p \in Nat /\ q \in Nat /\ r \in Nat
    <3>1. a + (n + 1) = (a + n) + 1 /\ a + n \in Nat
      OBVIOUS
    <3> QED
      BY <3>1, Pow10Rec
  <2>2. p * q = r
    OBVIOUS
  <2>3. p * (10 * q) = 10 * (p * q)
    <3> HIDE DEF p, q
    <3> QED
      BY <2>1, SMT
  <2> QED
    BY <2>1, <2>2, <2>3
<1> HIDE DEF S
<1>3. S = Nat
  <2>1. S \in SUBSET Nat
    BY DEF S
  <2> QED
    BY <1>1, <1>2, <2>1, Induction
<1> QED
  BY <1>3 DEF S

(* No power of ten is zero. *)
LEMMA Pow10Positive == \A n \in Nat : Pow10[n] >= 1
<1> DEFINE S == {n \in Nat : Pow10[n] >= 1}
<1>1. 0 \in S
  BY Pow10Rec
<1>2. \A n \in S : n + 1 \in S
  BY Pow10Rec
<1>3. S \in SUBSET Nat
  OBVIOUS
<1> HIDE DEF S
<1>4. S = Nat
  BY <1>1, <1>2, <1>3, Induction
<1> QED
  BY <1>4 DEF S

(* f holds the values of the first digits, defined as in Decimal. *)
IsValue(f, digits) ==
  f = [n \in 0 .. Len(digits) |-> IF n = 0 THEN 0 ELSE 10 * f[n - 1] + digits[n]]

(* There is such a function for every sequence of digits. *)
LEMMA ValueExists ==
  ASSUME NEW digits \in Seq(Digit)
  PROVE  \E f : IsValue(f, digits)
<1> DEFINE L == Len(digits)
           Upto(f, n) == f = [i \in 0 .. n |-> IF i = 0 THEN 0 ELSE 10 * f[i - 1] + digits[i]]
           S == {n \in Nat : n <= L => \E f : Upto(f, n)}
<1>1. 0 \in S
  <2> DEFINE f == [i \in 0 .. 0 |-> 0]
  <2>1. Upto(f, 0)
    OBVIOUS
  <2> QED
    BY <2>1
<1>2. ASSUME NEW n \in S PROVE n + 1 \in S
  <2>1. n \in Nat /\ n + 1 \in Nat
    OBVIOUS
  <2> SUFFICES ASSUME n + 1 <= L PROVE \E f : Upto(f, n + 1)
    BY <2>1
  <2>2. n <= L
    BY <2>1
  <2>3. PICK f : Upto(f, n)
    BY <2>2
  <2> DEFINE g == [i \in 0 .. n + 1 |-> IF i = 0 THEN 0 ELSE 10 * f[i - 1] + digits[i]]
  <2>4. \A i \in 0 .. n : g[i] = f[i]
    <3>1. \A i \in 0 .. n : f[i] = IF i = 0 THEN 0 ELSE 10 * f[i - 1] + digits[i]
      BY <2>3
    <3>2. \A i \in 0 .. n : g[i] = IF i = 0 THEN 0 ELSE 10 * f[i - 1] + digits[i]
      BY <2>1
    <3> QED
      BY <3>1, <3>2
  <2>5. \A i \in 0 .. n + 1 : i # 0 => i - 1 \in 0 .. n
    BY <2>1
  <2>6. Upto(g, n + 1)
    BY <2>4, <2>5
  <2> HIDE DEF g
  <2> QED
    BY <2>6
<1>3. S \in SUBSET Nat
  OBVIOUS
<1>4. L \in Nat
  OBVIOUS
<1>5. L \in S
  <2> HIDE DEF S
  <2>1. S = Nat
    BY <1>1, <1>2, <1>3, Induction
  <2> QED
    BY <1>4, <2>1
<1> QED
  BY <1>4, <1>5 DEF IsValue

(* Decimal is the last value of such a function. *)
LEMMA DecimalOfDigits ==
  ASSUME NEW digits \in Seq(Digit)
  PROVE  \E f : /\ Decimal(digits) = f[Len(digits)]
                /\ f[0] = 0
                /\ \A n \in 1 .. Len(digits) : f[n] = 10 * f[n - 1] + digits[n]
<1> DEFINE f == CHOOSE g : IsValue(g, digits)
<1>1. IsValue(f, digits)
  BY ValueExists
<1>2. Decimal(digits) = f[Len(digits)]
  BY DEF Decimal, IsValue
<1>3. Len(digits) \in Nat
  OBVIOUS
<1> HIDE DEF f
<1>4. \A n \in 0 .. Len(digits) : f[n] = IF n = 0 THEN 0 ELSE 10 * f[n - 1] + digits[n]
  BY <1>1 DEF IsValue
<1>5. f[0] = 0 /\ \A n \in 1 .. Len(digits) : f[n] = 10 * f[n - 1] + digits[n]
  BY <1>3, <1>4
<1> QED
  BY <1>2, <1>5

(* A digit of a sequence of digits is one of 0 to 9. *)
LEMMA DigitAt ==
  ASSUME NEW digits \in Seq(Digit), NEW i \in 1 .. Len(digits)
  PROVE  digits[i] \in 0 .. 9
BY DEF Digit

(* n digits have a value below the n-th power of ten. *)
LEMMA DecimalBound ==
  ASSUME NEW digits \in Seq(Digit)
  PROVE  Decimal(digits) \in Nat /\ Decimal(digits) < Pow10[Len(digits)]
<1>1. PICK f : /\ Decimal(digits) = f[Len(digits)]
               /\ f[0] = 0
               /\ \A n \in 1 .. Len(digits) : f[n] = 10 * f[n - 1] + digits[n]
  BY DecimalOfDigits
<1> DEFINE S == {n \in Nat : n <= Len(digits) => f[n] \in Nat /\ f[n] < Pow10[n]}
<1>2. Len(digits) \in Nat
  OBVIOUS
<1>3. 0 \in S
  <2>1. f[0] = 0 /\ Pow10[0] = 1
    BY <1>1, Pow10Rec
  <2> QED
    BY <2>1
<1>4. ASSUME NEW n \in S PROVE n + 1 \in S
  <2>1. n \in Nat /\ n + 1 \in Nat
    OBVIOUS
  <2> SUFFICES ASSUME n + 1 <= Len(digits)
               PROVE  f[n + 1] \in Nat /\ f[n + 1] < Pow10[n + 1]
    BY <2>1
  <2>2. f[n] \in Nat /\ f[n] < Pow10[n]
    BY <1>2, <2>1
  <2>3. n + 1 \in 1 .. Len(digits) /\ (n + 1) - 1 = n
    BY <1>2, <2>1
  <2>4. f[n + 1] = 10 * f[n] + digits[n + 1]
    BY <1>1, <2>3
  <2>5. digits[n + 1] \in 0 .. 9
    BY <2>3, DigitAt
  <2>6. Pow10[n + 1] = 10 * Pow10[n] /\ Pow10[n] \in Nat
    BY <2>1, Pow10Rec
  <2>7. \A x, p \in Nat, d \in 0 .. 9 :
          x < p => 10 * x + d \in Nat /\ 10 * x + d < 10 * p
    OBVIOUS
  <2>8. 10 * f[n] + digits[n + 1] \in Nat /\ 10 * f[n] + digits[n + 1] < 10 * Pow10[n]
    BY <2>2, <2>5, <2>6, <2>7, Zenon
  <2> HIDE DEF S
  <2> QED
    BY <2>4, <2>6, <2>8, Zenon
<1>5. S \in SUBSET Nat
  OBVIOUS
<1>6. Len(digits) \in S
  <2> HIDE DEF S
  <2>1. S = Nat
    BY <1>3, <1>4, <1>5, Induction
  <2> QED
    BY <1>2, <2>1
<1> QED
  BY <1>1, <1>2, <1>6

(* No digit has the value zero. *)
LEMMA DecimalOfNone == Decimal(<<>>) = 0
<1>1. <<>> \in Seq(Digit) /\ Len(<<>>) = 0
  OBVIOUS
<1> QED
  BY <1>1, DecimalOfDigits

(* The value of two digits. *)
LEMMA DecimalOfTwo ==
  ASSUME NEW digits \in Seq(Digit), Len(digits) = 2
  PROVE  Decimal(digits) = 10 * digits[1] + digits[2]
<1>1. PICK f : /\ Decimal(digits) = f[2]
               /\ f[0] = 0
               /\ \A n \in 1 .. 2 : f[n] = 10 * f[n - 1] + digits[n]
  BY DecimalOfDigits, ZenonT(40)
<1>2. f[1] = 10 * f[0] + digits[1] /\ f[2] = 10 * f[1] + digits[2]
  <2>1. 1 \in 1 .. 2 /\ 2 \in 1 .. 2 /\ 1 - 1 = 0 /\ 2 - 1 = 1
    OBVIOUS
  <2> QED
    BY <1>1, <2>1
<1>3. digits[1] \in 0 .. 9 /\ digits[2] \in 0 .. 9
  <2>1. 1 \in 1 .. Len(digits) /\ 2 \in 1 .. Len(digits)
    OBVIOUS
  <2> QED
    BY <2>1, DigitAt
<1> QED
  BY <1>1, <1>2, <1>3

(* The value of four digits, as two pairs. *)
LEMMA DecimalOfFour ==
  ASSUME NEW digits \in Seq(Digit), Len(digits) = 4
  PROVE  Decimal(digits)
           = 100 * (10 * digits[1] + digits[2]) + (10 * digits[3] + digits[4])
<1>1. PICK f : /\ Decimal(digits) = f[4]
               /\ f[0] = 0
               /\ \A n \in 1 .. 4 : f[n] = 10 * f[n - 1] + digits[n]
  BY DecimalOfDigits, ZenonT(40)
<1>2. /\ f[1] = 10 * f[0] + digits[1] /\ f[2] = 10 * f[1] + digits[2]
      /\ f[3] = 10 * f[2] + digits[3] /\ f[4] = 10 * f[3] + digits[4]
  <2>1. /\ 1 \in 1 .. 4 /\ 2 \in 1 .. 4 /\ 3 \in 1 .. 4 /\ 4 \in 1 .. 4
        /\ 1 - 1 = 0 /\ 2 - 1 = 1 /\ 3 - 1 = 2 /\ 4 - 1 = 3
    OBVIOUS
  <2> QED
    BY <1>1, <2>1
<1>3. digits[1] \in 0 .. 9 /\ digits[2] \in 0 .. 9 /\ digits[3] \in 0 .. 9 /\ digits[4] \in 0 .. 9
  <2>1. \A i \in 1 .. 4 : i \in 1 .. Len(digits)
    OBVIOUS
  <2>2. 1 \in 1 .. 4 /\ 2 \in 1 .. 4 /\ 3 \in 1 .. 4 /\ 4 \in 1 .. 4
    OBVIOUS
  <2> QED
    BY <2>1, <2>2, DigitAt
<1>4. f[1] = digits[1]
  BY <1>1, <1>2, <1>3
<1>5. f[2] = 10 * digits[1] + digits[2]
  BY <1>2, <1>4
<1>6. f[3] = 10 * (10 * digits[1] + digits[2]) + digits[3]
  BY <1>2, <1>5
<1>7. f[4] = 10 * (10 * (10 * digits[1] + digits[2]) + digits[3]) + digits[4]
  BY <1>2, <1>6
<1> DEFINE a == digits[1]
           b == digits[2]
           c == digits[3]
           d == digits[4]
<1>8. a \in Int /\ b \in Int /\ c \in Int /\ d \in Int
  BY <1>3
<1> HIDE DEF a, b, c, d
<1>9. 10 * (10 * (10 * a + b) + c) + d = 100 * (10 * a + b) + (10 * c + d)
  BY <1>8
<1> QED
  BY <1>1, <1>7, <1>9 DEF a, b, c, d

-------------------------------------------------------------------------------
(* Reading from a stream                                                      *)

(* The numbers of two digits, and a year of two of them. *)
Pairs == 0 .. 99

YearOf(c, e) == 100 * c + e

(* A stream that has not failed. *)
Stream(text, at, value) == [text |-> text, at |-> at, failed |-> FALSE, value |-> value]

(* A part of a text that holds only digits is a sequence of digits. *)
LEMMA PartOfText ==
  ASSUME NEW text \in Seq(Int), NEW a \in Nat \ {0}, NEW k \in Nat, a + k - 1 <= Len(text),
         \A i \in a .. a + k - 1 : text[i] \in Digit
  PROVE  /\ SubSeq(text, a, a + k - 1) \in Seq(Digit)
         /\ Len(SubSeq(text, a, a + k - 1)) = k
         /\ \A i \in 1 .. k : SubSeq(text, a, a + k - 1)[i] = text[a + i - 1]
<1> DEFINE s == SubSeq(text, a, a + k - 1)
<1>1. s = [i \in 1 .. k |-> text[a + i - 1]]
  <2>1. (a + k - 1) - a + 1 = k /\ a + k - 1 \in Nat
    OBVIOUS
  <2>2. s \in Seq(Int) /\ Len(s) = k /\ \A i \in 1 .. k : s[i] = text[a + i - 1]
    <3>1. a \in 1 .. Len(text) + 1 /\ a + k - 1 \in (a - 1) .. Len(text)
      OBVIOUS
    <3> QED
      BY <2>1, <3>1, SubSeqProperties
  <2> HIDE DEF s
  <2> QED
    BY <2>2
<1>2. \A i \in 1 .. k : text[a + i - 1] \in Digit
  <2> TAKE i \in 1 .. k
  <2>1. a + i - 1 \in a .. a + k - 1
    OBVIOUS
  <2> QED
    BY <2>1
<1> HIDE DEF s
<1>3. s \in Seq(Digit) /\ Len(s) = k
  BY <1>1, <1>2
<1>4. \A i \in 1 .. k : s[i] = text[a + i - 1]
  BY <1>1
<1> QED
  BY <1>3, <1>4 DEF s

(* Run stops at the first character that is no digit, or after n digits. *)
LEMMA RunOfDigits ==
  ASSUME NEW in, in.text \in Seq(Int), in.at \in Nat \ {0}, NEW n \in Nat, NEW k \in 0 .. n,
         in.at + k - 1 <= Len(in.text),
         \A i \in in.at .. in.at + k - 1 : in.text[i] \in Digit,
         k < n => in.at + k <= Len(in.text) /\ in.text[in.at + k] \notin Digit
  PROVE  Run(in, n) = SubSeq(in.text, in.at, in.at + k - 1)
<1> DEFINE text == in.text
           a == in.at
           last == IF a + n - 1 <= Len(text) THEN a + n - 1 ELSE Len(text)
           others == {i \in a .. last : text[i] \notin Digit} \cup {last + 1}
           first == CHOOSE i \in others : \A j \in others : i <= j
<1>1. a \in Nat /\ a >= 1 /\ Len(text) \in Nat /\ last \in Int /\ k \in Nat
  OBVIOUS
<1>2. a + k \in others
  <2>1. CASE k < n
    <3>1. a + k <= last
      BY <1>1, <2>1
    <3>2. a + k \in a .. last /\ text[a + k] \notin Digit
      BY <1>1, <2>1, <3>1, SMTT(30)
    <3> HIDE DEF last
    <3> QED
      BY <3>2
  <2>2. CASE k = n
    <3>1. last + 1 = a + k
      BY <1>1, <2>2
    <3> HIDE DEF last
    <3> QED
      BY <3>1
  <2> QED
    BY <1>1, <2>1, <2>2
<1>3. ASSUME NEW j \in others PROVE j \in Int /\ a + k <= j
  <2>1. CASE j \in a .. last /\ text[j] \notin Digit
    <3>1. j \notin a .. a + k - 1
      BY <2>1
    <3> HIDE DEF last
    <3> QED
      BY <1>1, <2>1, <3>1
  <2>2. CASE j = last + 1
    <3>1. a + k <= last + 1
      BY <1>1
    <3> HIDE DEF last
    <3> QED
      BY <1>1, <2>2, <3>1
  <2> QED
    BY <2>1, <2>2
<1>4. first = a + k
  <2> HIDE DEF others
  <2>1. first \in others /\ \A j \in others : first <= j
    <3>1. \E i \in others : \A j \in others : i <= j
      BY <1>2, <1>3
    <3> QED
      BY <3>1
  <2>2. first <= a + k /\ a + k <= first /\ first \in Int
    BY <1>2, <1>3, <2>1
  <2>3. a + k \in Int
    BY <1>1
  <2> HIDE DEF first, last
  <2> QED
    BY <2>2, <2>3
<1>5. Run(in, n) = SubSeq(text, a, first - 1)
  BY DEF Run
<1> HIDE DEF first, others, last
<1>6. first - 1 = a + k - 1
  <2>1. a \in Int /\ k \in Int
    BY <1>1
  <2> HIDE DEF a, text
  <2> QED
    BY <1>4, <2>1
<1> QED
  BY <1>5, <1>6, Zenon

(* The next character of a stream is the one it stands at. *)
LEMMA NextOfStream ==
  ASSUME NEW text \in Seq(Int), NEW a \in 1 .. Len(text), NEW v
  PROVE  NextChar(Stream(text, a, v)) = text[a]
BY DEF NextChar, Stream

(* A record with one field changed is the record with the new field. *)
LEMMA StreamFields ==
  ASSUME NEW t, NEW a, NEW f, NEW v, NEW x
  PROVE  /\ [[text |-> t, at |-> a, failed |-> f, value |-> v] EXCEPT !.at = x]
              = [text |-> t, at |-> x, failed |-> f, value |-> v]
         /\ [[text |-> t, at |-> a, failed |-> f, value |-> v] EXCEPT !.value = x]
              = [text |-> t, at |-> a, failed |-> f, value |-> x]
OBVIOUS

(* A stream that takes a value keeps its text and its place. *)
LEMMA StreamTakesValue ==
  ASSUME NEW text, NEW a, NEW v, NEW x
  PROVE  [Stream(text, a, v) EXCEPT !.value = x] = Stream(text, a, x)
<1> DEFINE f == FALSE
<1>1. /\ Stream(text, a, v) = [text |-> text, at |-> a, failed |-> f, value |-> v]
      /\ Stream(text, a, x) = [text |-> text, at |-> a, failed |-> f, value |-> x]
  BY Zenon DEF Stream
<1> HIDE DEF f
<1> QED
  BY <1>1, StreamFields

(* A stream that takes a place keeps its text and its value. *)
LEMMA StreamTakesPlace ==
  ASSUME NEW text, NEW a, NEW v, NEW x
  PROVE  [Stream(text, a, v) EXCEPT !.at = x] = Stream(text, x, v)
<1> DEFINE f == FALSE
<1>1. /\ Stream(text, a, v) = [text |-> text, at |-> a, failed |-> f, value |-> v]
      /\ Stream(text, x, v) = [text |-> text, at |-> x, failed |-> f, value |-> v]
  BY Zenon DEF Stream
<1> HIDE DEF f
<1> QED
  BY <1>1, StreamFields

(* Past moves the place and nothing else. *)
LEMMA StreamPast ==
  ASSUME NEW text \in Seq(Int), NEW a \in Nat, NEW v, NEW n \in Nat
  PROVE  Past(Stream(text, a, v), n) = Stream(text, a + n, v)
<1>1. Stream(text, a, v).at = a
  BY DEF Stream
<1>2. Past(Stream(text, a, v), n) = [Stream(text, a, v) EXCEPT !.at = a + n]
  BY <1>1, Zenon DEF Past
<1>3. [Stream(text, a, v) EXCEPT !.at = a + n] = Stream(text, a + n, v)
  BY StreamTakesPlace
<1> QED
  BY <1>2, <1>3, Zenon

(* The character asked for is read, and the value stays. *)
LEMMA CharIsRead ==
  ASSUME NEW text \in Seq(Int), NEW a \in 1 .. Len(text), NEW v, NEW c, text[a] = c
  PROVE  ReadChar(Stream(text, a, v), c) = Stream(text, a + 1, v)
<1>1. NextChar(Stream(text, a, v)) = c
  BY NextOfStream
<1>2. ~Stream(text, a, v).failed
  BY DEF Stream
<1>3. Past(Stream(text, a, v), 1) = Stream(text, a + 1, v)
  BY StreamPast
<1> QED
  BY <1>1, <1>2, <1>3 DEF ReadChar

(* n digits are read as their value. *)
LEMMA UnsignedIsRead ==
  ASSUME NEW text \in Seq(Int), NEW a \in Nat \ {0}, NEW v, NEW n \in Nat \ {0},
         a + n - 1 <= Len(text), \A i \in a .. a + n - 1 : text[i] \in Digit
  PROVE  ReadUnsigned(Stream(text, a, v), n)
           = Stream(text, a + n, Decimal(SubSeq(text, a, a + n - 1)))
<1> DEFINE in == Stream(text, a, v)
           digits == SubSeq(text, a, a + n - 1)
<1>1. in.text = text /\ in.at = a /\ ~in.failed
  BY DEF Stream
<1>2. Run(in, n) = digits
  <2> HIDE DEF in
  <2>1. n \in 0 .. n /\ ~(n < n)
    OBVIOUS
  <2> QED
    BY <1>1, <2>1, RunOfDigits
<1>3. Len(digits) = n /\ digits # <<>>
  <2>1. Len(digits) = n
    BY PartOfText
  <2> HIDE DEF digits
  <2> QED
    BY <2>1
<1>4. ReadUnsigned(in, n) = [Past(in, n) EXCEPT !.value = Decimal(digits)]
  <2> HIDE DEF in, digits
  <2> QED
    BY <1>1, <1>2, <1>3 DEF ReadUnsigned
<1>5. Past(in, n) = Stream(text, a + n, v)
  BY StreamPast
<1> HIDE DEF in, digits
<1>6. [Stream(text, a + n, v) EXCEPT !.value = Decimal(digits)]
        = Stream(text, a + n, Decimal(digits))
  BY StreamTakesValue
<1> QED
  BY <1>4, <1>5, <1>6 DEF in, digits

(* A number of two digits is read as itself. *)
LEMMA TwoAreRead ==
  ASSUME NEW text \in Seq(Int), NEW a \in Nat \ {0}, NEW v, NEW n \in Pairs,
         a + 1 <= Len(text), text[a] = n \div 10, text[a + 1] = n % 10
  PROVE  /\ ReadUnsigned(Stream(text, a, v), 2) = Stream(text, a + 2, n)
         /\ SubSeq(text, a, a + 1) \in Seq(Digit)
         /\ Len(SubSeq(text, a, a + 1)) = 2
         /\ Decimal(SubSeq(text, a, a + 1)) = n
<1> DEFINE digits == SubSeq(text, a, a + 1)
<1>1. /\ n \div 10 \in Digit /\ n % 10 \in Digit
      /\ 10 * (n \div 10) + (n % 10) = n
  BY DEF Digit, Pairs
<1>2. a + 2 - 1 = a + 1 /\ \A i \in a .. a + 1 : i = a \/ i = a + 1
  OBVIOUS
<1>3. \A i \in a .. a + 1 : text[i] \in Digit
  BY <1>1, <1>2
<1>4. /\ digits \in Seq(Digit) /\ Len(digits) = 2
      /\ \A i \in 1 .. 2 : digits[i] = text[a + i - 1]
  BY <1>2, <1>3, PartOfText
<1>5. digits[1] = n \div 10 /\ digits[2] = n % 10
  <2>1. 1 \in 1 .. 2 /\ 2 \in 1 .. 2 /\ a + 1 - 1 = a /\ a + 2 - 1 = a + 1
    OBVIOUS
  <2>2. digits[1] = text[a + 1 - 1] /\ digits[2] = text[a + 2 - 1]
    BY <1>4, <2>1
  <2> QED
    BY <2>1, <2>2
<1>6. Decimal(digits) = n
  BY <1>1, <1>4, <1>5, DecimalOfTwo
<1>7. ReadUnsigned(Stream(text, a, v), 2) = Stream(text, a + 2, Decimal(digits))
  BY <1>2, <1>3, UnsignedIsRead
<1> QED
  BY <1>4, <1>6, <1>7

(* Four digits without a sign are read as their value. *)
LEMMA FourAreRead ==
  ASSUME NEW text \in Seq(Int), NEW a \in Nat \ {0}, NEW v, NEW c \in Pairs, NEW e \in Pairs,
         a + 3 <= Len(text),
         text[a] = c \div 10, text[a + 1] = c % 10,
         text[a + 2] = e \div 10, text[a + 3] = e % 10
  PROVE  ReadSigned(Stream(text, a, v), 4) = Stream(text, a + 4, YearOf(c, e))
<1> DEFINE digits == SubSeq(text, a, a + 4 - 1)
           in == Stream(text, a, v)
<1>1. /\ text[a] \in Digit /\ text[a + 1] \in Digit
      /\ text[a + 2] \in Digit /\ text[a + 3] \in Digit
      /\ 10 * text[a] + text[a + 1] = c /\ 10 * text[a + 2] + text[a + 3] = e
  <2>1. \A x \in Pairs : /\ x \div 10 \in 0 .. 9 /\ x % 10 \in 0 .. 9
                         /\ 10 * (x \div 10) + (x % 10) = x
    BY SMTT(30) DEF Pairs
  <2> QED
    BY <2>1 DEF Digit
<1>2. a + 4 - 1 = a + 3 /\ \A i \in a .. a + 4 - 1 : i \in {a, a + 1, a + 2, a + 3}
  OBVIOUS
<1>3. \A i \in a .. a + 4 - 1 : text[i] \in Digit
  BY <1>1, <1>2
<1>4. /\ digits \in Seq(Digit) /\ Len(digits) = 4
      /\ \A i \in 1 .. 4 : digits[i] = text[a + i - 1]
  BY <1>2, <1>3, PartOfText
<1>5. /\ digits[1] = text[a] /\ digits[2] = text[a + 1]
      /\ digits[3] = text[a + 2] /\ digits[4] = text[a + 3]
  <2>1. /\ 1 \in 1 .. 4 /\ 2 \in 1 .. 4 /\ 3 \in 1 .. 4 /\ 4 \in 1 .. 4
        /\ a + 1 - 1 = a /\ a + 2 - 1 = a + 1 /\ a + 3 - 1 = a + 2 /\ a + 4 - 1 = a + 3
    OBVIOUS
  <2>2. /\ digits[1] = text[a + 1 - 1] /\ digits[2] = text[a + 2 - 1]
        /\ digits[3] = text[a + 3 - 1] /\ digits[4] = text[a + 4 - 1]
    BY <1>4, <2>1
  <2> QED
    BY <2>1, <2>2
<1>6. Decimal(digits) = YearOf(c, e)
  <2> HIDE DEF digits
  <2>1. Decimal(digits)
          = 100 * (10 * digits[1] + digits[2]) + (10 * digits[3] + digits[4])
    BY <1>4, DecimalOfFour
  <2> QED
    BY <1>1, <1>5, <2>1 DEF YearOf
<1>7. ReadUnsigned(in, 4) = Stream(text, a + 4, Decimal(digits))
  <2>1. 4 \in Nat \ {0} /\ a + 4 - 1 <= Len(text)
    OBVIOUS
  <2> QED
    BY <1>3, <2>1, UnsignedIsRead
<1>8. NextChar(in) = text[a] /\ Past(in, 0) = in
  <2>1. a \in 1 .. Len(text) /\ a + 0 = a
    OBVIOUS
  <2> QED
    BY <2>1, NextOfStream, StreamPast DEF Pairs
<1>9. text[a] \notin {Dash, Plus}
  <2>1. Dash \notin Digit /\ Plus \notin Digit
    BY DEF Digit, Dash, Plus
  <2> QED
    BY <1>1, <2>1
<1> HIDE DEF in, digits
<1>10. ReadSigned(in, 4) = ReadUnsigned(in, 4)
  BY <1>8, <1>9 DEF ReadSigned
<1> QED
  BY <1>6, <1>7, <1>10 DEF in

-------------------------------------------------------------------------------
(* Reading the seconds                                                        *)

(* A power of ten is a positive number. *)
LEMMA PowersOfTen ==
  ASSUME NEW n \in Nat
  PROVE  Pow10[n] \in Nat /\ Pow10[n] >= 1
BY Pow10Rec, Pow10Positive

(* Decimals the Duration holds are scaled to its units, fewer than a second. *)
LEMMA FractionFits ==
  ASSUME NEW digits \in Seq(Digit), Len(digits) <= Width
  PROVE  /\ Units(digits) = Decimal(digits) * Pow10[Width - Len(digits)]
         /\ Units(digits) \in Nat
         /\ Units(digits) < Pow10[Width]
<1> DEFINE k == Len(digits)
           x == Decimal(digits)
           p == Pow10[k]
           q == Pow10[Width - k]
<1>1. Width \in Nat /\ k \in Nat /\ Width - k \in Nat /\ k + (Width - k) = Width
  BY CalendarAssumption
<1>2. x \in Nat /\ x < p
  BY DecimalBound
<1>3. p \in Nat /\ q \in Nat /\ q >= 1 /\ p * q = Pow10[Width]
  <2>1. p * q = Pow10[k + (Width - k)]
    BY <1>1, Pow10Sum
  <2> QED
    BY <1>1, <2>1, PowersOfTen
<1>4. Units(digits) = x * q
  <2>1. k - Width <= 0 /\ -(k - Width) = Width - k
    BY <1>1
  <2> QED
    BY <2>1 DEF Units
<1> HIDE DEF p, q, x
<1>5. x * q \in Nat /\ x * q < p * q
  <2>1. \A i, j, l \in Nat : i < j /\ l >= 1 => i * l \in Nat /\ i * l < j * l
    BY SMT
  <2> QED
    BY <1>2, <1>3, <2>1
<1> QED
  BY <1>3, <1>4, <1>5 DEF x, q

(* Fewer units than a second leave the whole seconds as they are. *)
LEMMA SecondsOfUnits ==
  ASSUME NEW whole, NEW s \in Nat, Decimal(whole) = s, NEW u \in Nat, u < Pow10[Width]
  PROVE  Seconds(whole, u) = [second |-> s, fraction |-> u]
<1> DEFINE p == Pow10[Width]
<1>1. p \in Nat /\ p >= 1
  BY CalendarAssumption, PowersOfTen
<1>2. Seconds(whole, u) = [second |-> s + u \div p, fraction |-> u % p]
  BY DEF Seconds
<1> HIDE DEF p
<1>3. u \div p = 0 /\ u % p = u
  BY <1>1, SMT DEF p
<1> QED
  BY <1>2, <1>3

(* The two digits of the seconds end at the first character behind them. *)
LEMMA WholeSecondsAreRead ==
  ASSUME NEW text \in Seq(Int), NEW a \in Nat \ {0}, NEW v, NEW s \in Pairs,
         a + 2 <= Len(text), text[a] = s \div 10, text[a + 1] = s % 10, text[a + 2] \notin Digit
  PROVE  /\ Run(Stream(text, a, v), 3 + Width) = SubSeq(text, a, a + 1)
         /\ Len(SubSeq(text, a, a + 1)) = 2
         /\ Decimal(SubSeq(text, a, a + 1)) = s
         /\ NextChar(Past(Stream(text, a, v), 2)) = text[a + 2]
         /\ 2 < 3 + Width
<1> DEFINE in == Stream(text, a, v)
<1>1. in.text = text /\ in.at = a
  BY DEF Stream
<1>2. a + 1 <= Len(text) /\ a + 2 - 1 = a + 1 /\ a + 2 \in 1 .. Len(text)
  OBVIOUS
<1>3. SubSeq(text, a, a + 1) \in Seq(Digit) /\ Len(SubSeq(text, a, a + 1)) = 2
  BY <1>2, TwoAreRead
<1>4. Decimal(SubSeq(text, a, a + 1)) = s
  BY <1>2, TwoAreRead
<1>5. \A i \in a .. a + 2 - 1 : text[i] \in Digit
  <2>1. \A i \in a .. a + 2 - 1 : i = a \/ i = a + 1
    OBVIOUS
  <2>2. s \div 10 \in 0 .. 9 /\ s % 10 \in 0 .. 9
    BY DEF Pairs
  <2> QED
    BY <2>1, <2>2 DEF Digit
<1>6. 3 + Width \in Nat /\ 2 \in 0 .. 3 + Width /\ 2 < 3 + Width
  BY CalendarAssumption
<1>7. Run(in, 3 + Width) = SubSeq(text, a, a + 1)
  <2> HIDE DEF in
  <2>1. Run(in, 3 + Width) = SubSeq(in.text, in.at, in.at + 2 - 1)
    BY <1>1, <1>2, <1>5, <1>6, RunOfDigits
  <2> QED
    BY <1>1, <1>2, <2>1
<1>8. NextChar(Past(in, 2)) = text[a + 2]
  BY <1>2, StreamPast, NextOfStream
<1> QED
  BY <1>3, <1>4, <1>6, <1>7, <1>8

(* Seconds with a Z behind them are read without a fraction. *)
LEMMA SecondsWithoutFraction ==
  ASSUME NEW text \in Seq(Int), NEW a \in Nat \ {0}, NEW v, NEW s \in Pairs,
         a + 2 <= Len(text), text[a] = s \div 10, text[a + 1] = s % 10, text[a + 2] = Zulu
  PROVE  ReadSeconds(Stream(text, a, v), 3 + Width)
           = Stream(text, a + 2, [second |-> s, fraction |-> 0])
<1> DEFINE in == Stream(text, a, v)
           whole == SubSeq(text, a, a + 1)
<1>1. Zulu \notin Digit /\ Zulu # Dot
  BY DEF Zulu, Digit, Dot
<1>2. /\ Run(in, 3 + Width) = whole /\ Len(whole) = 2 /\ Decimal(whole) = s
      /\ NextChar(Past(in, 2)) = Zulu
  BY <1>1, WholeSecondsAreRead
<1>3. Past(in, 2) = Stream(text, a + 2, v) /\ ~in.failed
  BY StreamPast DEF Stream
<1> HIDE DEF in, whole
<1>4. Decimals(in, whole, 3 + Width) = [point |-> 0, digits |-> <<>>]
  BY <1>1, <1>2 DEF Decimals
<1>5. Len(<<>>) = 0 /\ <<>> \in Seq(Digit)
  OBVIOUS
<1>6. Units(<<>>) = 0
  <2>1. Units(<<>>) = Decimal(<<>>) * Pow10[Width - Len(<<>>)]
    <3>1. Len(<<>>) <= Width
      BY <1>5, CalendarAssumption
    <3> QED
      BY <1>5, <3>1, FractionFits
  <2>2. Width - Len(<<>>) \in Nat
    BY <1>5, CalendarAssumption
  <2> QED
    BY <2>1, <2>2, DecimalOfNone, PowersOfTen
<1>7. Seconds(whole, Units(<<>>)) = [second |-> s, fraction |-> 0]
  <2>1. 0 < Pow10[Width]
    BY CalendarAssumption, PowersOfTen
  <2>2. s \in Nat /\ 0 \in Nat
    BY DEF Pairs
  <2>3. Seconds(whole, 0) = [second |-> s, fraction |-> 0]
    BY <1>2, <2>1, <2>2, SecondsOfUnits
  <2> QED
    BY <1>6, <2>3, Zenon
<1>8. Len(whole) + 0 + Len(<<>>) = 2 /\ 2 # 0
  BY <1>2, <1>5
<1> QED
  <2> DEFINE most == 3 + Width
             place == a + 2
             value == [second |-> s, fraction |-> 0]
  <2>1. /\ Decimals(in, whole, most).point = 0
        /\ Decimals(in, whole, most).digits = <<>>
    BY <1>4
  <2>2. Len(whole) + Decimals(in, whole, most).point + Len(<<>>) = 2 /\ 2 # 0
    BY <1>8, <2>1
  <2>3. /\ Run(in, most) = whole /\ Past(in, 2) = Stream(text, place, v) /\ ~in.failed
        /\ Seconds(whole, Units(<<>>)) = value
    BY <1>2, <1>3, <1>7, Zenon
  <2> HIDE DEF most, place, value
  <2>4. ReadSeconds(in, most)
          = [Past(in, 2) EXCEPT !.value = Seconds(whole, Units(<<>>))]
    BY <2>1, <2>2, <2>3, Zenon DEF ReadSeconds
  <2>5. ReadSeconds(in, most) = [Stream(text, place, v) EXCEPT !.value = value]
    BY <2>3, <2>4, Zenon
  <2>6. ReadSeconds(in, most) = Stream(text, place, value)
    BY <2>5, StreamTakesValue
  <2> QED
    BY <2>6, Zenon DEF most, place, value, in

(* Seconds with a point, digits and a Z are read with the fraction. *)
LEMMA SecondsWithFraction ==
  ASSUME NEW text \in Seq(Int), NEW a \in Nat \ {0}, NEW v, NEW s \in Pairs,
         NEW g \in Seq(Digit), Len(g) <= Width,
         a + 3 + Len(g) <= Len(text), text[a] = s \div 10, text[a + 1] = s % 10,
         text[a + 2] = Dot, \A i \in 1 .. Len(g) : text[a + 2 + i] = g[i],
         text[a + 3 + Len(g)] = Zulu
  PROVE  ReadSeconds(Stream(text, a, v), 3 + Width)
           = Stream(text, a + 3 + Len(g),
                    [second |-> s, fraction |-> Decimal(g) * Pow10[Width - Len(g)]])
<1> DEFINE in == Stream(text, a, v)
           whole == SubSeq(text, a, a + 1)
           k == Len(g)
<1>1. Zulu \notin Digit /\ Dot \notin Digit
  BY DEF Zulu, Digit, Dot
<1>2. k \in Nat /\ a + 2 <= Len(text) /\ a + 3 \in Nat \ {0} /\ a + 3 + k - 1 <= Len(text)
      /\ Width \in Nat /\ k \in 0 .. Width
  BY CalendarAssumption, SMTT(30)
<1>3. /\ Run(in, 3 + Width) = whole /\ Len(whole) = 2 /\ Decimal(whole) = s
      /\ NextChar(Past(in, 2)) = Dot
      /\ 2 < 3 + Width
  BY <1>1, <1>2, WholeSecondsAreRead
<1>4. /\ Past(in, 2 + 1) = Stream(text, a + 3, v)
      /\ Past(in, 2 + 1 + k) = Stream(text, a + 3 + k, v)
      /\ ~in.failed
  <2>1. 2 + 1 \in Nat /\ 2 + 1 + k \in Nat /\ a + (2 + 1) = a + 3 /\ a + (2 + 1 + k) = a + 3 + k
    BY <1>2
  <2> QED
    BY <2>1, StreamPast DEF Stream
<1>5. Run(Stream(text, a + 3, v), Width) = g
  <2> DEFINE jn == Stream(text, a + 3, v)
             part == SubSeq(text, a + 3, a + 3 + k - 1)
  <2>1. jn.text = text /\ jn.at = a + 3
    BY DEF Stream
  <2>2. \A i \in a + 3 .. a + 3 + k - 1 : text[i] \in Digit
    <3> TAKE i \in a + 3 .. a + 3 + k - 1
    <3> DEFINE j == i - (a + 2)
    <3>1. j \in 1 .. k /\ a + 2 + j = i
      BY <1>2
    <3>2. g[j] \in Digit
      BY <3>1, SMTT(30)
    <3> QED
      BY <3>1, <3>2
  <2>3. /\ part \in Seq(Digit) /\ Len(part) = k
        /\ \A i \in 1 .. k : part[i] = text[a + 3 + i - 1]
    BY <1>2, <2>2, PartOfText
  <2>4. Run(jn, Width) = part
    <3>1. a + 3 + k <= Len(text) /\ text[a + 3 + k] \notin Digit
      BY <1>1
    <3> HIDE DEF jn
    <3>2. Run(jn, Width) = SubSeq(jn.text, jn.at, jn.at + k - 1)
      BY <1>2, <2>1, <2>2, <3>1, RunOfDigits
    <3> QED
      BY <2>1, <3>2
  <2>5. part = g
    <3>1. \A i \in 1 .. k : part[i] = g[i]
      <4> TAKE i \in 1 .. k
      <4>1. a + 3 + i - 1 = a + 2 + i
        BY <1>2
      <4> QED
        BY <2>3, <4>1
    <3> HIDE DEF part
    <3> QED
      BY <2>3, <3>1, SeqEqual
  <2> QED
    BY <2>4, <2>5
<1> HIDE DEF in, whole
<1>6. Decimals(in, whole, 3 + Width) = [point |-> 1, digits |-> g]
  <2>1. 3 + Width - 2 - 1 = Width
    BY <1>2
  <2> DEFINE most == 3 + Width
  <2>2. Run(Past(in, Len(whole) + 1), most - Len(whole) - 1) = g
    <3>1. Run(Past(in, 2 + 1), Width) = g
      BY <1>4, <1>5, Zenon
    <3>2. Len(whole) + 1 = 2 + 1 /\ most - Len(whole) - 1 = Width
      <4>1. Len(whole) = 2
        BY <1>3
      <4> HIDE DEF whole
      <4> QED
        BY <2>1, <4>1, CalendarAssumption
    <3> QED
      BY <3>1, <3>2
  <2>3. Len(whole) < most /\ NextChar(Past(in, Len(whole))) = Dot
    BY <1>3, Zenon
  <2> HIDE DEF most
  <2>4. Decimals(in, whole, most) = [point |-> 1, digits |-> g]
    BY <2>2, <2>3, Zenon DEF Decimals
  <2> QED
    BY <2>4 DEF most
<1>7. Seconds(whole, Units(g))
        = [second |-> s, fraction |-> Decimal(g) * Pow10[Width - Len(g)]]
  <2>1. s \in Nat
    BY DEF Pairs
  <2>2. /\ Units(g) = Decimal(g) * Pow10[Width - Len(g)]
        /\ Units(g) \in Nat /\ Units(g) < Pow10[Width]
    BY FractionFits
  <2>3. Seconds(whole, Units(g)) = [second |-> s, fraction |-> Units(g)]
    BY <1>3, <2>1, <2>2, SecondsOfUnits
  <2> QED
    BY <2>2, <2>3, Zenon
<1>8. Len(whole) + 1 + Len(g) = 2 + 1 + k /\ 2 + 1 + k # 0
  BY <1>2, <1>3
<1> QED
  <2> DEFINE most == 3 + Width
             place == a + 3 + k
             length == 2 + 1 + k
             value == [second |-> s, fraction |-> Decimal(g) * Pow10[Width - k]]
  <2>1. /\ Decimals(in, whole, most).point = 1
        /\ Decimals(in, whole, most).digits = g
    BY <1>6, SMTT(30)
  <2>2. Len(whole) + Decimals(in, whole, most).point + Len(g) = length /\ length # 0
    BY <1>8, <2>1
  <2>3. /\ Run(in, most) = whole /\ Past(in, length) = Stream(text, place, v) /\ ~in.failed
        /\ Seconds(whole, Units(g)) = value
    BY <1>3, <1>4, <1>7, Zenon
  <2> HIDE DEF most, place, value, length
  <2>4. ReadSeconds(in, most)
          = [Past(in, length) EXCEPT !.value = Seconds(whole, Units(g))]
    BY <2>1, <2>2, <2>3, Zenon DEF ReadSeconds
  <2>5. ReadSeconds(in, most) = [Stream(text, place, v) EXCEPT !.value = value]
    BY <2>3, <2>4, Zenon
  <2>6. ReadSeconds(in, most) = Stream(text, place, value)
    BY <2>5, StreamTakesValue, ZenonT(40)
  <2> QED
    BY <2>6, Zenon DEF most, place, value, in

-------------------------------------------------------------------------------
(* Reading a date and a time                                                  *)

(* The first 19 characters of a text are those of a date and a time. *)
Written(text, c, e, m, d, h, i, s) ==
  /\ text \in Seq(Int) /\ Len(text) >= 19
  /\ text[1] = c \div 10 /\ text[2] = c % 10 /\ text[3] = e \div 10 /\ text[4] = e % 10
  /\ text[5] = Dash /\ text[6] = m \div 10 /\ text[7] = m % 10
  /\ text[8] = Dash /\ text[9] = d \div 10 /\ text[10] = d % 10
  /\ text[11] = Tee /\ text[12] = h \div 10 /\ text[13] = h % 10
  /\ text[14] = Colon /\ text[15] = i \div 10 /\ text[16] = i % 10
  /\ text[17] = Colon /\ text[18] = s \div 10 /\ text[19] = s % 10

(* From place 18 on, seconds are read, whatever was read before. *)
SecondsAt(text, b, sec) ==
  \A v : ReadSeconds(Stream(text, 18, v), 3 + Width) = Stream(text, b, sec)

(* The date of such a text is read. *)
LEMMA DateIsRead ==
  ASSUME NEW text, NEW c \in Pairs, NEW e \in Pairs, NEW m \in Pairs, NEW d \in Pairs,
         NEW h, NEW i, NEW s, Written(text, c, e, m, d, h, i, s),
         NEW y, y = YearOf(c, e), NEW ymd, ymd = [year |-> y, month |-> m, day |-> d]
  PROVE  ReadDate(Stream(text, 1, 0)) = Stream(text, 11, ymd)
<1>1. text \in Seq(Int) /\ Len(text) \in Nat /\ Len(text) >= 19
  BY DEF Written
<1>2. ReadSigned(Stream(text, 1, 0), 4) = Stream(text, 5, y)
  <2>1. /\ text[1] = c \div 10 /\ text[1 + 1] = c % 10
        /\ text[1 + 2] = e \div 10 /\ text[1 + 3] = e % 10
        /\ 1 + 3 <= Len(text) /\ 1 \in Nat \ {0} /\ 1 + 4 = 5
    BY <1>1 DEF Written
  <2>2. ReadSigned(Stream(text, 1, 0), 4) = Stream(text, 1 + 4, YearOf(c, e))
    BY <1>1, <2>1, FourAreRead
  <2> QED
    BY <2>1, <2>2
<1>3. ReadChar(Stream(text, 5, y), Dash) = Stream(text, 6, y)
  <2>1. 5 \in 1 .. Len(text) /\ 5 + 1 = 6 /\ text[5] = Dash
    BY <1>1 DEF Written
  <2> QED
    BY <1>1, <2>1, CharIsRead
<1>4. ReadUnsigned(Stream(text, 6, y), 2) = Stream(text, 8, m)
  <2>1. /\ text[6] = m \div 10 /\ text[6 + 1] = m % 10
        /\ 6 + 1 <= Len(text) /\ 6 \in Nat \ {0} /\ 6 + 2 = 8
    BY <1>1 DEF Written
  <2> QED
    BY <1>1, <2>1, TwoAreRead
<1>5. ReadChar(Stream(text, 8, m), Dash) = Stream(text, 9, m)
  <2>1. 8 \in 1 .. Len(text) /\ 8 + 1 = 9 /\ text[8] = Dash
    BY <1>1 DEF Written
  <2> QED
    BY <1>1, <2>1, CharIsRead
<1>6. ReadUnsigned(Stream(text, 9, m), 2) = Stream(text, 11, d)
  <2>1. /\ text[9] = d \div 10 /\ text[9 + 1] = d % 10
        /\ 9 + 1 <= Len(text) /\ 9 \in Nat \ {0} /\ 9 + 2 = 11
    BY <1>1 DEF Written
  <2> QED
    BY <1>1, <2>1, TwoAreRead
<1>7. /\ Stream(text, 5, y).value = y /\ Stream(text, 8, m).value = m
      /\ Stream(text, 11, d).value = d
  BY DEF Stream
<1>8. ReadDay(Stream(text, 8, m), y) = Stream(text, 11, ymd)
  <2>1. ReadDay(Stream(text, 8, m), y) = [Stream(text, 11, d) EXCEPT !.value = ymd]
    BY <1>5, <1>6, <1>7, Zenon DEF ReadDay
  <2> QED
    BY <2>1, StreamTakesValue
<1>9. ReadMonth(Stream(text, 5, y)) = Stream(text, 11, ymd)
  BY <1>3, <1>4, <1>7, <1>8, Zenon DEF ReadMonth
<1> QED
  BY <1>2, <1>9, Zenon DEF ReadDate

(* The time of day of such a text is read. *)
LEMMA TimeIsRead ==
  ASSUME NEW text, NEW c, NEW e, NEW m, NEW d, NEW v,
         NEW h \in Pairs, NEW i \in Pairs, NEW s \in Pairs,
         Written(text, c, e, m, d, h, i, s), NEW b, NEW sec, SecondsAt(text, b, sec),
         NEW tod, tod = [hour |-> h, minute |-> i, seconds |-> sec]
  PROVE  ReadTime(ReadChar(Stream(text, 11, v), Tee)) = Stream(text, b, tod)
<1>1. text \in Seq(Int) /\ Len(text) \in Nat /\ Len(text) >= 19
  BY DEF Written
<1>2. ReadChar(Stream(text, 11, v), Tee) = Stream(text, 12, v)
  <2>1. 11 \in 1 .. Len(text) /\ 11 + 1 = 12 /\ text[11] = Tee
    BY <1>1 DEF Written
  <2> QED
    BY <1>1, <2>1, CharIsRead
<1>3. ReadUnsigned(Stream(text, 12, v), 2) = Stream(text, 14, h)
  <2>1. /\ text[12] = h \div 10 /\ text[12 + 1] = h % 10
        /\ 12 + 1 <= Len(text) /\ 12 \in Nat \ {0} /\ 12 + 2 = 14
    BY <1>1 DEF Written
  <2> QED
    BY <1>1, <2>1, TwoAreRead
<1>4. ReadChar(Stream(text, 14, h), Colon) = Stream(text, 15, h)
  <2>1. 14 \in 1 .. Len(text) /\ 14 + 1 = 15 /\ text[14] = Colon
    BY <1>1 DEF Written
  <2> QED
    BY <1>1, <2>1, CharIsRead
<1>5. ReadUnsigned(Stream(text, 15, h), 2) = Stream(text, 17, i)
  <2>1. /\ text[15] = i \div 10 /\ text[15 + 1] = i % 10
        /\ 15 + 1 <= Len(text) /\ 15 \in Nat \ {0} /\ 15 + 2 = 17
    BY <1>1 DEF Written
  <2> QED
    BY <1>1, <2>1, TwoAreRead
<1>6. ReadChar(Stream(text, 17, i), Colon) = Stream(text, 18, i)
  <2>1. 17 \in 1 .. Len(text) /\ 17 + 1 = 18 /\ text[17] = Colon
    BY <1>1 DEF Written
  <2> QED
    BY <1>1, <2>1, CharIsRead
<1>7. /\ Stream(text, 14, h).value = h /\ Stream(text, 17, i).value = i
  BY DEF Stream
<1>8. Stream(text, b, sec).value = sec
  BY DEF Stream
<1>9. ReadSeconds(Stream(text, 18, i), 3 + Width) = Stream(text, b, sec)
  BY DEF SecondsAt
<1>10. ReadSecond(Stream(text, 17, i), h) = Stream(text, b, tod)
  <2>1. ReadSecond(Stream(text, 17, i), h) = [Stream(text, b, sec) EXCEPT !.value = tod]
    BY <1>6, <1>7, <1>8, <1>9, Zenon DEF ReadSecond
  <2> QED
    BY <2>1, StreamTakesValue
<1>11. ReadMinute(Stream(text, 14, h)) = Stream(text, b, tod)
  BY <1>4, <1>5, <1>7, <1>10, Zenon DEF ReadMinute
<1>12. ReadTime(Stream(text, 12, v)) = Stream(text, b, tod)
  BY <1>3, <1>11, Zenon DEF ReadTime
<1> QED
  BY <1>2, <1>12, Zenon

(* The fields of a time of day, and what they count in seconds. *)
Hours == 0 .. 23
Sixty == 0 .. 59

SecondOf(h, i, s) == (h * 60 + i) * 60 + s

(* The time point of a date, a second of the day and a fraction. *)
Instant(d, t, f) == [days |-> ToDays(d), second |-> t, fraction |-> f]

(* A text with a date that exists is read as its time point. *)
LEMMA TimeIsTaken ==
  ASSUME NEW text, NEW c \in Pairs, NEW e \in Pairs, NEW m \in Pairs, NEW d \in Pairs,
         NEW h \in Hours, NEW i \in Sixty, NEW s \in Sixty,
         Written(text, c, e, m, d, h, i, s), NEW b, NEW f,
         NEW sec, sec = [second |-> s, fraction |-> f], SecondsAt(text, b, sec),
         NEW y, y = YearOf(c, e), NEW ymd, ymd = [year |-> y, month |-> m, day |-> d], Ok(ymd)
  PROVE  IsostringToEpoch(text) = Instant(ymd, SecondOf(h, i, s), f)
<1> DEFINE tod == [hour |-> h, minute |-> i, seconds |-> sec]
<1>1. ReadDate(Stream(text, 1, 0)) = Stream(text, 11, ymd)
  BY DateIsRead
<1>2. ReadTime(ReadChar(Stream(text, 11, ymd), Tee)) = Stream(text, b, tod)
  <2>1. h \in Pairs /\ i \in Pairs /\ s \in Pairs
    BY DEF Pairs, Hours, Sixty
  <2> QED
    BY <2>1, TimeIsRead
<1>3. /\ tod.hour = h /\ tod.minute = i /\ tod.seconds.second = s /\ tod.seconds.fraction = f
      /\ InConventionalRange(tod)
  BY DEF InConventionalRange, Hours, Sixty
<1> HIDE DEF tod
<1>4. /\ Stream(text, 11, ymd).value = ymd /\ Stream(text, b, tod).value = tod
      /\ ~Stream(text, b, tod).failed
  BY DEF Stream
<1>5. FromStream(Stream(text, 11, ymd)) = Instant(ymd, SecondOf(h, i, s), f)
  BY <1>2, <1>3, <1>4, Zenon DEF FromStream, TimePoint, Instant, SecondOf
<1>6. IsostringToEpoch(text) = FromStream(ReadDate(Stream(text, 1, 0)))
  BY Zenon DEF IsostringToEpoch, Stream
<1> QED
  BY <1>1, <1>5, <1>6, Zenon

-------------------------------------------------------------------------------
(* Writing a date and a time                                                  *)

(* What is written stays as it is when more is written behind it. *)
Starts(w, z) ==
  w \in Seq(Int) /\ z \in Seq(Int) /\ Len(w) <= Len(z) /\ \A i \in 1 .. Len(w) : z[i] = w[i]

(* What stays twice stays. *)
LEMMA StartsOn ==
  ASSUME NEW w, NEW x, NEW z, Starts(w, x), Starts(x, z)
  PROVE  Starts(w, z)
BY DEF Starts

(* Appending leaves what was written and adds what is appended. *)
LEMMA StartsAppend ==
  ASSUME NEW w \in Seq(Int), NEW z \in Seq(Int)
  PROVE  /\ Starts(w, w \o z) /\ Len(w \o z) = Len(w) + Len(z)
         /\ \A i \in 1 .. Len(z) : (w \o z)[Len(w) + i] = z[i]
<1>1. /\ w \o z \in Seq(Int) /\ Len(w \o z) = Len(w) + Len(z)
      /\ \A i \in 1 .. Len(w) + Len(z) :
           (w \o z)[i] = IF i <= Len(w) THEN w[i] ELSE z[i - Len(w)]
  BY ConcatProperties
<1>2. Len(w) \in Nat /\ Len(z) \in Nat
  OBVIOUS
<1> DEFINE x == w \o z
<1>3. /\ x \in Seq(Int) /\ Len(x) = Len(w) + Len(z)
      /\ \A i \in 1 .. Len(w) + Len(z) : x[i] = IF i <= Len(w) THEN w[i] ELSE z[i - Len(w)]
  BY <1>1
<1> HIDE DEF x
<1>4. Starts(w, x)
  BY <1>2, <1>3 DEF Starts
<1>5. ASSUME NEW i \in 1 .. Len(z)
      PROVE  x[Len(w) + i] = z[i]
  <2>1. Len(w) + i \in 1 .. Len(w) + Len(z) /\ ~(Len(w) + i <= Len(w)) /\ Len(w) + i - Len(w) = i
    BY <1>2
  <2> QED
    BY <1>3, <2>1
<1> QED
  BY <1>3, <1>4, <1>5 DEF x

(* x is w with a pair of digits, or a mark, behind it. *)
PairAt(w, x, p, q, n) ==
  Starts(w, x) /\ Len(x) = q /\ x[p] = n \div 10 /\ x[q] = n % 10

MarkAt(w, x, p, y) == Starts(w, x) /\ Len(x) = p /\ x[p] = y

(* Two digits are written behind a text. *)
LEMMA PairIsAdded ==
  ASSUME NEW w \in Seq(Int), NEW n \in Pairs, NEW x, x = w \o TwoDigits(n),
         NEW p, Len(w) + 1 = p, NEW q, Len(w) + 2 = q
  PROVE  PairAt(w, x, p, q, n)
<1> DEFINE z == TwoDigits(n)
<1>1. z \in Seq(Int) /\ Len(z) = 2 /\ z[1] = n \div 10 /\ z[2] = n % 10
  BY DEF TwoDigits, Pairs
<1> HIDE DEF z
<1>2. /\ Starts(w, x) /\ Len(x) = Len(w) + 2
      /\ \A i \in 1 .. 2 : x[Len(w) + i] = z[i]
  BY <1>1, StartsAppend, ZenonT(40) DEF z
<1>3. 1 \in 1 .. 2 /\ 2 \in 1 .. 2
  OBVIOUS
<1> QED
  BY <1>1, <1>2, <1>3 DEF PairAt

(* A mark is written behind a text. *)
LEMMA MarkIsAdded ==
  ASSUME NEW w \in Seq(Int), NEW y \in Int, NEW x, x = w \o <<y>>, NEW p, Len(w) + 1 = p
  PROVE  MarkAt(w, x, p, y)
<1> DEFINE z == <<y>>
<1>1. z \in Seq(Int) /\ Len(z) = 1 /\ z[1] = y
  OBVIOUS
<1> HIDE DEF z
<1>2. /\ Starts(w, x) /\ Len(x) = Len(w) + 1
      /\ \A i \in 1 .. 1 : x[Len(w) + i] = z[i]
  BY <1>1, StartsAppend DEF z
<1>3. 1 \in 1 .. 1
  OBVIOUS
<1> QED
  BY <1>1, <1>2, <1>3 DEF MarkAt

(* The text epochToIsostring writes. *)
Layout(c, e, m, d, h, i, s) ==
  TwoDigits(c) \o TwoDigits(e) \o <<Dash>> \o TwoDigits(m) \o <<Dash>> \o TwoDigits(d) \o <<Tee>>
    \o TwoDigits(h) \o <<Colon>> \o TwoDigits(i) \o <<Colon>> \o TwoDigits(s)

(* w is a date and a time, and nothing behind it. *)
WrittenOnly(w, c, e, m, d, h, i, s) == Written(w, c, e, m, d, h, i, s) /\ Len(w) = 19

(* Each character of the layout, part by part. *)
LEMMA LayoutIsWritten ==
  ASSUME NEW c \in Pairs, NEW e \in Pairs, NEW m \in Pairs, NEW d \in Pairs,
         NEW h \in Pairs, NEW i \in Pairs, NEW s \in Pairs,
         NEW w, w = Layout(c, e, m, d, h, i, s)
  PROVE  WrittenOnly(w, c, e, m, d, h, i, s)
<1> DEFINE w1 == TwoDigits(c)
           w2 == w1 \o TwoDigits(e)
           w3 == w2 \o <<Dash>>
           w4 == w3 \o TwoDigits(m)
           w5 == w4 \o <<Dash>>
           w6 == w5 \o TwoDigits(d)
           w7 == w6 \o <<Tee>>
           w8 == w7 \o TwoDigits(h)
           w9 == w8 \o <<Colon>>
           w10 == w9 \o TwoDigits(i)
           w11 == w10 \o <<Colon>>
           w12 == w11 \o TwoDigits(s)
<1>a. /\ w1 = TwoDigits(c) /\ w2 = w1 \o TwoDigits(e) /\ w3 = w2 \o <<Dash>>
      /\ w4 = w3 \o TwoDigits(m) /\ w5 = w4 \o <<Dash>> /\ w6 = w5 \o TwoDigits(d)
      /\ w7 = w6 \o <<Tee>> /\ w8 = w7 \o TwoDigits(h) /\ w9 = w8 \o <<Colon>>
      /\ w10 = w9 \o TwoDigits(i) /\ w11 = w10 \o <<Colon>> /\ w12 = w11 \o TwoDigits(s)
  OBVIOUS
<1>b. w = w12
  BY Zenon DEF Layout
<1> HIDE DEF w1, w2, w3, w4, w5, w6, w7, w8, w9, w10, w11, w12
<1>0. Dash \in Int /\ Tee \in Int /\ Colon \in Int
  BY DEF Dash, Tee, Colon
<1>1. w1 \in Seq(Int) /\ Len(w1) = 2 /\ w1[1] = c \div 10 /\ w1[2] = c % 10
  BY <1>a DEF TwoDigits, Pairs
<1>2. PairAt(w1, w2, 3, 4, e)
  <2>1. w1 \in Seq(Int) /\ Len(w1) + 1 = 3 /\ Len(w1) + 2 = 4
    BY <1>1
  <2>2. w2 = w1 \o TwoDigits(e)
    BY <1>a, Zenon
  <2> QED
    BY <1>0, <2>1, <2>2, PairIsAdded
<1>3. MarkAt(w2, w3, 5, Dash)
  <2>1. w2 \in Seq(Int) /\ Len(w2) + 1 = 5
    BY <1>2 DEF Starts, PairAt
  <2>2. w3 = w2 \o <<Dash>>
    BY <1>a, Zenon
  <2> QED
    BY <1>0, <2>1, <2>2, MarkIsAdded
<1>4. PairAt(w3, w4, 6, 7, m)
  <2>1. w3 \in Seq(Int) /\ Len(w3) + 1 = 6 /\ Len(w3) + 2 = 7
    BY <1>3 DEF Starts, MarkAt
  <2>2. w4 = w3 \o TwoDigits(m)
    BY <1>a, Zenon
  <2> QED
    BY <1>0, <2>1, <2>2, PairIsAdded
<1>5. MarkAt(w4, w5, 8, Dash)
  <2>1. w4 \in Seq(Int) /\ Len(w4) + 1 = 8
    BY <1>4 DEF Starts, PairAt
  <2>2. w5 = w4 \o <<Dash>>
    BY <1>a, Zenon
  <2> QED
    BY <1>0, <2>1, <2>2, MarkIsAdded
<1>6. PairAt(w5, w6, 9, 10, d)
  <2>1. w5 \in Seq(Int) /\ Len(w5) + 1 = 9 /\ Len(w5) + 2 = 10
    BY <1>5 DEF Starts, MarkAt
  <2>2. w6 = w5 \o TwoDigits(d)
    BY <1>a, Zenon
  <2> QED
    BY <1>0, <2>1, <2>2, PairIsAdded
<1>7. MarkAt(w6, w7, 11, Tee)
  <2>1. w6 \in Seq(Int) /\ Len(w6) + 1 = 11
    BY <1>6 DEF Starts, PairAt
  <2>2. w7 = w6 \o <<Tee>>
    BY <1>a, Zenon
  <2> QED
    BY <1>0, <2>1, <2>2, MarkIsAdded
<1>8. PairAt(w7, w8, 12, 13, h)
  <2>1. w7 \in Seq(Int) /\ Len(w7) + 1 = 12 /\ Len(w7) + 2 = 13
    BY <1>7 DEF Starts, MarkAt
  <2>2. w8 = w7 \o TwoDigits(h)
    BY <1>a, Zenon
  <2> QED
    BY <1>0, <2>1, <2>2, PairIsAdded
<1>9. MarkAt(w8, w9, 14, Colon)
  <2>1. w8 \in Seq(Int) /\ Len(w8) + 1 = 14
    BY <1>8 DEF Starts, PairAt
  <2>2. w9 = w8 \o <<Colon>>
    BY <1>a, Zenon
  <2> QED
    BY <1>0, <2>1, <2>2, MarkIsAdded
<1>10. PairAt(w9, w10, 15, 16, i)
  <2>1. w9 \in Seq(Int) /\ Len(w9) + 1 = 15 /\ Len(w9) + 2 = 16
    BY <1>9 DEF Starts, MarkAt
  <2>2. w10 = w9 \o TwoDigits(i)
    BY <1>a, Zenon
  <2> QED
    BY <1>0, <2>1, <2>2, PairIsAdded
<1>11. MarkAt(w10, w11, 17, Colon)
  <2>1. w10 \in Seq(Int) /\ Len(w10) + 1 = 17
    BY <1>10 DEF Starts, PairAt
  <2>2. w11 = w10 \o <<Colon>>
    BY <1>a, Zenon
  <2> QED
    BY <1>0, <2>1, <2>2, MarkIsAdded
<1>12. PairAt(w11, w12, 18, 19, s)
  <2>1. w11 \in Seq(Int) /\ Len(w11) + 1 = 18 /\ Len(w11) + 2 = 19
    BY <1>11 DEF Starts, MarkAt
  <2>2. w12 = w11 \o TwoDigits(s)
    BY <1>a, Zenon
  <2> QED
    BY <1>0, <2>1, <2>2, PairIsAdded
<1>13. Starts(w12, w12) /\ Len(w12) = 19
  BY <1>12 DEF PairAt, Starts
<1>14. Starts(w11, w12)
  BY <1>12, <1>13, StartsOn DEF PairAt, MarkAt
<1>15. Starts(w10, w12)
  BY <1>11, <1>14, StartsOn DEF PairAt, MarkAt
<1>16. Starts(w9, w12)
  BY <1>10, <1>15, StartsOn DEF PairAt, MarkAt
<1>17. Starts(w8, w12)
  BY <1>9, <1>16, StartsOn DEF PairAt, MarkAt
<1>18. Starts(w7, w12)
  BY <1>8, <1>17, StartsOn DEF PairAt, MarkAt
<1>19. Starts(w6, w12)
  BY <1>7, <1>18, StartsOn DEF PairAt, MarkAt
<1>20. Starts(w5, w12)
  BY <1>6, <1>19, StartsOn DEF PairAt, MarkAt
<1>21. Starts(w4, w12)
  BY <1>5, <1>20, StartsOn DEF PairAt, MarkAt
<1>22. Starts(w3, w12)
  BY <1>4, <1>21, StartsOn DEF PairAt, MarkAt
<1>23. Starts(w2, w12)
  BY <1>3, <1>22, StartsOn DEF PairAt, MarkAt
<1>24. Starts(w1, w12)
  BY <1>2, <1>23, StartsOn DEF PairAt, MarkAt
<1>25. w12[1] = c \div 10 /\ w12[2] = c % 10
  <2>1. 1 \in 1 .. Len(w1) /\ 2 \in 1 .. Len(w1)
    BY <1>1 DEF PairAt, MarkAt
  <2> QED
    BY <1>1, <1>24, <2>1 DEF Starts, PairAt, MarkAt
<1>26. w12[3] = e \div 10 /\ w12[4] = e % 10
  <2>1. 3 \in 1 .. Len(w2) /\ 4 \in 1 .. Len(w2)
    BY <1>2 DEF PairAt, MarkAt
  <2> QED
    BY <1>2, <1>23, <2>1 DEF Starts, PairAt, MarkAt
<1>27. w12[5] = Dash
  <2>1. 5 \in 1 .. Len(w3)
    BY <1>3 DEF PairAt, MarkAt
  <2> QED
    BY <1>3, <1>22, <2>1 DEF Starts, PairAt, MarkAt
<1>28. w12[6] = m \div 10 /\ w12[7] = m % 10
  <2>1. 6 \in 1 .. Len(w4) /\ 7 \in 1 .. Len(w4)
    BY <1>4 DEF PairAt, MarkAt
  <2> QED
    BY <1>4, <1>21, <2>1 DEF Starts, PairAt, MarkAt
<1>29. w12[8] = Dash
  <2>1. 8 \in 1 .. Len(w5)
    BY <1>5 DEF PairAt, MarkAt
  <2> QED
    BY <1>5, <1>20, <2>1 DEF Starts, PairAt, MarkAt
<1>30. w12[9] = d \div 10 /\ w12[10] = d % 10
  <2>1. 9 \in 1 .. Len(w6) /\ 10 \in 1 .. Len(w6)
    BY <1>6 DEF PairAt, MarkAt
  <2> QED
    BY <1>6, <1>19, <2>1 DEF Starts, PairAt, MarkAt
<1>31. w12[11] = Tee
  <2>1. 11 \in 1 .. Len(w7)
    BY <1>7 DEF PairAt, MarkAt
  <2> QED
    BY <1>7, <1>18, <2>1 DEF Starts, PairAt, MarkAt
<1>32. w12[12] = h \div 10 /\ w12[13] = h % 10
  <2>1. 12 \in 1 .. Len(w8) /\ 13 \in 1 .. Len(w8)
    BY <1>8 DEF PairAt, MarkAt
  <2> QED
    BY <1>8, <1>17, <2>1 DEF Starts, PairAt, MarkAt
<1>33. w12[14] = Colon
  <2>1. 14 \in 1 .. Len(w9)
    BY <1>9 DEF PairAt, MarkAt
  <2> QED
    BY <1>9, <1>16, <2>1 DEF Starts, PairAt, MarkAt
<1>34. w12[15] = i \div 10 /\ w12[16] = i % 10
  <2>1. 15 \in 1 .. Len(w10) /\ 16 \in 1 .. Len(w10)
    BY <1>10 DEF PairAt, MarkAt
  <2> QED
    BY <1>10, <1>15, <2>1 DEF Starts, PairAt, MarkAt
<1>35. w12[17] = Colon
  <2>1. 17 \in 1 .. Len(w11)
    BY <1>11 DEF PairAt, MarkAt
  <2> QED
    BY <1>11, <1>14, <2>1 DEF Starts, PairAt, MarkAt
<1>36. w12[18] = s \div 10 /\ w12[19] = s % 10
  <2>1. 18 \in 1 .. Len(w12) /\ 19 \in 1 .. Len(w12)
    BY <1>12 DEF PairAt, MarkAt
  <2> QED
    BY <1>12, <1>13, <2>1 DEF Starts, PairAt, MarkAt
<1>37. Written(w12, c, e, m, d, h, i, s)
  BY <1>13, <1>25, <1>26, <1>27, <1>28, <1>29, <1>30,
     <1>31, <1>32, <1>33, <1>34, <1>35, <1>36 DEF Written, Starts
<1> QED
  BY <1>b, <1>13, <1>37, Zenon DEF WrittenOnly

-------------------------------------------------------------------------------
(* What stands behind the seconds                                             *)

(* A date and a time stay when more is written behind them. *)
LEMMA WrittenStays ==
  ASSUME NEW c, NEW e, NEW m, NEW d, NEW h, NEW i, NEW s, NEW w, NEW text,
         Written(w, c, e, m, d, h, i, s), Starts(w, text)
  PROVE  Written(text, c, e, m, d, h, i, s)
<1>1. /\ w \in Seq(Int) /\ text \in Seq(Int) /\ Len(w) \in Nat /\ Len(text) \in Nat
      /\ 19 <= Len(w) /\ Len(w) <= Len(text)
  <2>1. w \in Seq(Int) /\ text \in Seq(Int) /\ Len(w) <= Len(text)
    BY DEF Starts
  <2>2. Len(w) >= 19
    BY DEF Written
  <2> QED
    BY <2>1, <2>2
<1>2. \A j \in 1 .. 19 : text[j] = w[j]
  <2>1. \A j \in 1 .. 19 : j \in 1 .. Len(w)
    BY <1>1
  <2> QED
    BY <2>1 DEF Starts
<1>3. /\ text[1] = w[1] /\ text[2] = w[2] /\ text[3] = w[3] /\ text[4] = w[4] /\ text[5] = w[5]
      /\ text[6] = w[6] /\ text[7] = w[7] /\ text[8] = w[8] /\ text[9] = w[9]
      /\ text[10] = w[10] /\ text[11] = w[11] /\ text[12] = w[12] /\ text[13] = w[13]
      /\ text[14] = w[14] /\ text[15] = w[15] /\ text[16] = w[16] /\ text[17] = w[17]
      /\ text[18] = w[18] /\ text[19] = w[19]
  BY <1>2
<1> QED
  BY <1>1, <1>3 DEF Written

(* Behind the 19 characters of w, the text has a Z, or a point, digits and a Z. *)
EndsAt(w, text) == Starts(w, text) /\ Len(text) = 20 /\ text[20] = Zulu

FractionAt(w, text, g) ==
  /\ Starts(w, text) /\ Len(text) = 21 + Len(g)
  /\ text[20] = Dot /\ text[21 + Len(g)] = Zulu
  /\ \A j \in 1 .. Len(g) : text[20 + j] = g[j]

(* A Z behind a date and a time. *)
LEMMA EndIsWritten ==
  ASSUME NEW w \in Seq(Int), Len(w) = 19
  PROVE  EndsAt(w, w \o <<>> \o <<Zulu>>)
<1> DEFINE text == w \o <<>> \o <<Zulu>>
<1>1. text = w \o <<Zulu>>
  <2>1. w \o <<>> = w
    OBVIOUS
  <2> QED
    BY <2>1, Zenon
<1> HIDE DEF text
<1>2. Zulu \in Int /\ Len(w) + 1 = 20
  BY DEF Zulu
<1>3. MarkAt(w, text, 20, Zulu)
  BY <1>1, <1>2, MarkIsAdded
<1> QED
  BY <1>3 DEF MarkAt, EndsAt, text

(* A fraction and a Z behind a date and a time. *)
LEMMA FractionIsWritten ==
  ASSUME NEW w \in Seq(Int), Len(w) = 19, NEW g \in Seq(Int)
  PROVE  FractionAt(w, w \o (<<Dot>> \o g) \o <<Zulu>>, g)
<1> DEFINE dot == <<Dot>>
           z == dot \o g
           x == w \o z
           text == x \o <<Zulu>>
           k == Len(g)
<1>1. dot \in Seq(Int) /\ Len(dot) = 1 /\ dot[1] = Dot /\ k \in Nat
  BY DEF Dot
<1> HIDE DEF dot
<1>2. Starts(dot, z) /\ Len(z) = 1 + k /\ \A j \in 1 .. k : z[1 + j] = g[j]
  <2>1. /\ Starts(dot, z) /\ Len(z) = Len(dot) + Len(g)
        /\ \A j \in 1 .. Len(g) : z[Len(dot) + j] = g[j]
    BY <1>1, StartsAppend
  <2> HIDE DEF z
  <2> QED
    BY <1>1, <2>1
<1>3. z \in Seq(Int) /\ z[1] = Dot
  <2>1. z[1] = dot[1]
    <3>1. 1 \in 1 .. Len(dot)
      BY <1>1
    <3> HIDE DEF z
    <3> QED
      BY <1>2, <3>1 DEF Starts
  <2> QED
    BY <1>1, <1>2, <2>1 DEF Starts
<1> HIDE DEF z, k
<1>4. Starts(w, x) /\ Len(x) = 20 + k /\ \A j \in 1 .. 1 + k : x[19 + j] = z[j]
  <2>1. /\ Starts(w, x) /\ Len(x) = Len(w) + Len(z)
        /\ \A j \in 1 .. Len(z) : x[Len(w) + j] = z[j]
    BY <1>3, StartsAppend
  <2> HIDE DEF x
  <2> QED
    BY <1>1, <1>2, <2>1
<1> HIDE DEF x
<1>5. Starts(x, text) /\ Len(text) = 21 + k /\ text[21 + k] = Zulu
  <2>1. x \in Seq(Int) /\ Zulu \in Int /\ Len(x) + 1 = 21 + k
    BY <1>1, <1>4 DEF Zulu, Starts
  <2>2. MarkAt(x, text, 21 + k, Zulu)
    BY <2>1, MarkIsAdded
  <2> QED
    BY <2>2 DEF MarkAt
<1> HIDE DEF text
<1>6. Starts(w, text)
  BY <1>4, <1>5, StartsOn
<1>7. \A j \in 1 .. 1 + k : text[19 + j] = z[j]
  <2> TAKE j \in 1 .. 1 + k
  <2>1. 19 + j \in 1 .. Len(x)
    BY <1>1, <1>4
  <2>2. text[19 + j] = x[19 + j]
    BY <1>5, <2>1 DEF Starts
  <2> QED
    BY <1>4, <2>2
<1>8. text[20] = Dot
  <2>1. 1 \in 1 .. 1 + k /\ 19 + 1 = 20
    BY <1>1
  <2> QED
    BY <1>3, <1>7, <2>1
<1>9. ASSUME NEW j \in 1 .. k PROVE text[20 + j] = g[j]
  <2>1. 1 + j \in 1 .. 1 + k /\ 19 + (1 + j) = 20 + j
    BY <1>1
  <2> QED
    BY <1>2, <1>7, <2>1
<1>10. FractionAt(w, text, g)
  BY <1>5, <1>6, <1>8, <1>9 DEF FractionAt, k
<1> QED
  BY <1>10 DEF text, x, z, dot

(* The seconds before a Z. *)
LEMMA EndIsRead ==
  ASSUME NEW w, NEW text, EndsAt(w, text), NEW s \in Pairs,
         text[18] = s \div 10, text[19] = s % 10
  PROVE  SecondsAt(text, 20, [second |-> s, fraction |-> 0])
<1> SUFFICES ASSUME NEW v
             PROVE  ReadSeconds(Stream(text, 18, v), 3 + Width)
                      = Stream(text, 20, [second |-> s, fraction |-> 0])
  BY Zenon DEF SecondsAt
<1>1. text \in Seq(Int) /\ Len(text) = 20 /\ text[20] = Zulu
  BY DEF EndsAt, Starts
<1>2. /\ 18 \in Nat \ {0} /\ 18 + 2 <= Len(text) /\ 18 + 2 = 20
      /\ text[18] = s \div 10 /\ text[18 + 1] = s % 10 /\ text[18 + 2] = Zulu
  BY <1>1
<1>3. ReadSeconds(Stream(text, 18, v), 3 + Width)
        = Stream(text, 18 + 2, [second |-> s, fraction |-> 0])
  BY <1>1, <1>2, SecondsWithoutFraction
<1> QED
  BY <1>2, <1>3, Zenon

(* The seconds before a fraction and a Z. *)
LEMMA FractionIsRead ==
  ASSUME NEW w, NEW text, NEW g \in Seq(Digit), Len(g) <= Width, FractionAt(w, text, g),
         NEW s \in Pairs, text[18] = s \div 10, text[19] = s % 10
  PROVE  SecondsAt(text, 21 + Len(g),
                   [second |-> s, fraction |-> Decimal(g) * Pow10[Width - Len(g)]])
<1> SUFFICES ASSUME NEW v
             PROVE  ReadSeconds(Stream(text, 18, v), 3 + Width)
                      = Stream(text, 21 + Len(g),
                          [second |-> s, fraction |-> Decimal(g) * Pow10[Width - Len(g)]])
  BY Zenon DEF SecondsAt
<1>1. /\ text \in Seq(Int) /\ Len(text) = 21 + Len(g) /\ text[20] = Dot
      /\ text[21 + Len(g)] = Zulu /\ \A j \in 1 .. Len(g) : text[20 + j] = g[j]
  BY DEF FractionAt, Starts
<1>2. Len(g) \in Nat
  OBVIOUS
<1>3. 18 + 3 + Len(g) = 21 + Len(g) /\ 18 + 1 = 19 /\ 18 + 2 = 20
  BY <1>2
<1>4. /\ 18 \in Nat \ {0} /\ 18 + 3 + Len(g) <= Len(text)
      /\ text[18] = s \div 10 /\ text[18 + 1] = s % 10 /\ text[18 + 2] = Dot
      /\ text[18 + 3 + Len(g)] = Zulu
  BY <1>1, <1>2, <1>3
<1>5. \A j \in 1 .. Len(g) : text[18 + 2 + j] = g[j]
  BY <1>1, <1>3
<1>6. ReadSeconds(Stream(text, 18, v), 3 + Width)
        = Stream(text, 18 + 3 + Len(g),
                 [second |-> s, fraction |-> Decimal(g) * Pow10[Width - Len(g)]])
  BY <1>1, <1>4, <1>5, SecondsWithFraction, ZenonT(40)
<1> QED
  BY <1>3, <1>6, Zenon

(* The layout of a time of day is a date and a time. *)
LEMMA LayoutIsLaid ==
  ASSUME NEW c \in Pairs, NEW e \in Pairs, NEW m \in Pairs, NEW d \in Pairs,
         NEW h \in Hours, NEW i \in Sixty, NEW s \in Sixty,
         NEW w, w = Layout(c, e, m, d, h, i, s)
  PROVE  /\ Written(w, c, e, m, d, h, i, s) /\ Len(w) = 19 /\ w \in Seq(Int)
         /\ h \in Pairs /\ i \in Pairs /\ s \in Pairs
<1>1. h \in Pairs /\ i \in Pairs /\ s \in Pairs
  BY DEF Pairs, Hours, Sixty
<1>2. WrittenOnly(w, c, e, m, d, h, i, s)
  BY <1>1, LayoutIsWritten
<1> QED
  BY <1>1, <1>2 DEF WrittenOnly, Written

(* What is read back, with the fields of the date and of the time apart. *)
LEMMA TimeIsReadBack ==
  ASSUME NEW c \in Pairs, NEW e \in Pairs, NEW m \in Pairs, NEW d \in Pairs,
         NEW h \in Hours, NEW i \in Sixty, NEW s \in Sixty,
         NEW y, y = YearOf(c, e), NEW ymd, ymd = [year |-> y, month |-> m, day |-> d], Ok(ymd),
         NEW w, w = Layout(c, e, m, d, h, i, s)
  PROVE  /\ IsostringToEpoch(w \o <<>> \o <<Zulu>>) = Instant(ymd, SecondOf(h, i, s), 0)
         /\ \A g \in Seq(Digit) :
              Len(g) <= Width =>
                IsostringToEpoch(w \o (<<Dot>> \o g) \o <<Zulu>>)
                  = Instant(ymd, SecondOf(h, i, s), Decimal(g) * Pow10[Width - Len(g)])
<1>1. h \in Pairs /\ i \in Pairs /\ s \in Pairs
  BY LayoutIsLaid
<1>2. Written(w, c, e, m, d, h, i, s) /\ Len(w) = 19 /\ w \in Seq(Int)
  BY LayoutIsLaid
<1>3. IsostringToEpoch(w \o <<>> \o <<Zulu>>) = Instant(ymd, SecondOf(h, i, s), 0)
  <2> DEFINE text == w \o <<>> \o <<Zulu>>
             sec == [second |-> s, fraction |-> 0]
  <2>1. EndsAt(w, text)
    BY <1>2, EndIsWritten
  <2> HIDE DEF text
  <2>2. Written(text, c, e, m, d, h, i, s)
    BY <1>2, <2>1, WrittenStays DEF EndsAt
  <2>3. text[18] = s \div 10 /\ text[19] = s % 10
    BY <2>2 DEF Written
  <2>4. SecondsAt(text, 20, sec)
    BY <1>1, <2>1, <2>3, EndIsRead
  <2>5. sec = [second |-> s, fraction |-> 0]
    OBVIOUS
  <2> HIDE DEF sec
  <2>6. IsostringToEpoch(text) = Instant(ymd, SecondOf(h, i, s), 0)
    BY <2>2, <2>4, <2>5, TimeIsTaken
  <2> QED
    BY <2>6 DEF text
<1>4. ASSUME NEW g \in Seq(Digit), Len(g) <= Width
      PROVE  IsostringToEpoch(w \o (<<Dot>> \o g) \o <<Zulu>>)
               = Instant(ymd, SecondOf(h, i, s), Decimal(g) * Pow10[Width - Len(g)])
  <2> DEFINE text == w \o (<<Dot>> \o g) \o <<Zulu>>
             f == Decimal(g) * Pow10[Width - Len(g)]
             sec == [second |-> s, fraction |-> f]
  <2>1. FractionAt(w, text, g)
    <3>1. g \in Seq(Int)
      BY DEF Digit
    <3> QED
      BY <1>2, <3>1, FractionIsWritten
  <2> HIDE DEF text
  <2>2. Written(text, c, e, m, d, h, i, s)
    BY <1>2, <2>1, WrittenStays DEF FractionAt
  <2>3. text[18] = s \div 10 /\ text[19] = s % 10
    BY <2>2 DEF Written
  <2>4. SecondsAt(text, 21 + Len(g), sec)
    BY <1>1, <1>4, <2>1, <2>3, FractionIsRead
  <2> HIDE DEF f
  <2>5. sec = [second |-> s, fraction |-> f]
    OBVIOUS
  <2> HIDE DEF sec
  <2>6. IsostringToEpoch(text) = Instant(ymd, SecondOf(h, i, s), f)
    BY <2>2, <2>4, <2>5, TimeIsTaken
  <2> QED
    BY <2>6 DEF text, f
<1> QED
  BY <1>3, <1>4

-------------------------------------------------------------------------------
(* Reading back                                                               *)

(* The years strftime writes with four digits, and the seconds of a day. *)
Years == 0 .. 9999
TimeOfDay == 0 .. 86399

(* A year is written as two pairs of digits. *)
LEMMA YearParts ==
  ASSUME NEW y \in Years
  PROVE  y \div 100 \in Pairs /\ y % 100 \in Pairs /\ y = YearOf(y \div 100, y % 100)
BY SMT DEF Years, Pairs, YearOf

(* A second of the day is written as hours, minutes and seconds. *)
LEMMA TimeParts ==
  ASSUME NEW t \in TimeOfDay
  PROVE  /\ t \div 3600 \in Hours /\ (t \div 60) % 60 \in Sixty /\ t % 60 \in Sixty
         /\ SecondOf(t \div 3600, (t \div 60) % 60, t % 60) = t
<1>1. t \div 3600 \in Hours
  BY SMT DEF TimeOfDay, Hours
<1>2. (t \div 60) % 60 \in Sixty /\ t % 60 \in Sixty
  <2>1. \A x \in Int : x % 60 \in 0 .. 59
    BY SMT
  <2>2. t \in Int /\ t \div 60 \in Int
    BY SMT DEF TimeOfDay
  <2> QED
    BY <2>1, <2>2, SMT DEF Sixty
<1>3. (t \div 60) \div 60 = t \div 3600
  BY SMT DEF TimeOfDay
<1>4. ((t \div 60) \div 60) * 60 + ((t \div 60) % 60) = t \div 60
  BY SMT DEF TimeOfDay
<1>5. (t \div 60) * 60 + (t % 60) = t
  BY SMT DEF TimeOfDay
<1> QED
  BY <1>1, <1>2, <1>3, <1>4, <1>5, SMT DEF SecondOf

(* The library accepts every date of the calendar. *)
LEMMA DatesAreOk ==
  ASSUME NEW d \in Dates
  PROVE  /\ Ok(d)
         /\ d = [year |-> d.year, month |-> d.month, day |-> d.day]
         /\ d.year \in Int /\ d.month \in Pairs /\ d.day \in Pairs
<1>1. /\ d \in [year : Int, month : 1 .. 12, day : 1 .. 31]
      /\ d.day <= MonthLength(d.year, d.month)
      /\ d.year \in Int /\ d.month \in 1 .. 12 /\ d.day \in 1 .. 31
  BY DEF Dates
<1>2. Ok(d)
  BY <1>1, LastIsMonthLength DEF Ok
<1>3. d.month \in Pairs /\ d.day \in Pairs
  BY <1>1 DEF Pairs
<1>4. d = [year |-> d.year, month |-> d.month, day |-> d.day]
  BY <1>1
<1> QED
  BY <1>1, <1>2, <1>3, <1>4

(* epochToIsostring and isostringToEpoch, datetime.hpp, with the reader of    *)
(* date.h: on every date of the calendar with a year of four digits, and at   *)
(* every second of the day, what is written and given back with a Z is read   *)
(* as the same time, without a fraction or with any one the Duration holds.   *)
THEOREM EveryTimeIsReadBack ==
  ASSUME NEW d \in Dates, d.year \in Years, NEW t \in TimeOfDay
  PROVE  /\ IsostringToEpoch(EpochToIsostring(d, t) \o <<>> \o <<Zulu>>) = Instant(d, t, 0)
         /\ \A g \in Seq(Digit) :
              Len(g) <= Width =>
                IsostringToEpoch(EpochToIsostring(d, t) \o (<<Dot>> \o g) \o <<Zulu>>)
                  = Instant(d, t, Decimal(g) * Pow10[Width - Len(g)])
<1> DEFINE y == d.year
           c == y \div 100
           e == y % 100
           h == t \div 3600
           i == (t \div 60) % 60
           s == t % 60
           w == Layout(c, e, d.month, d.day, h, i, s)
<1>1. c \in Pairs /\ e \in Pairs /\ y = YearOf(c, e)
  BY YearParts, SMT
<1>2. h \in Hours /\ i \in Sixty /\ s \in Sixty /\ SecondOf(h, i, s) = t
  BY TimeParts, SMT
<1>3. EpochToIsostring(d, t) = w
  BY SMT DEF EpochToIsostring, Layout
<1>4. /\ Ok(d) /\ d = [year |-> y, month |-> d.month, day |-> d.day]
      /\ d.month \in Pairs /\ d.day \in Pairs
  BY DatesAreOk
<1> HIDE DEF c, e, h, i, s, y
<1>5. w = Layout(c, e, d.month, d.day, h, i, s)
  OBVIOUS
<1> HIDE DEF w
<1>6. /\ IsostringToEpoch(w \o <<>> \o <<Zulu>>) = Instant(d, SecondOf(h, i, s), 0)
      /\ \A g \in Seq(Digit) :
           Len(g) <= Width =>
             IsostringToEpoch(w \o (<<Dot>> \o g) \o <<Zulu>>)
               = Instant(d, SecondOf(h, i, s), Decimal(g) * Pow10[Width - Len(g)])
  BY <1>1, <1>2, <1>4, <1>5, TimeIsReadBack
<1> QED
  BY <1>2, <1>3, <1>6

(* The fractions of TimesReadBack are points with digits behind them. *)
LEMMA FractionsOfDigits ==
  ASSUME NEW f \in Fractions, f # <<>>
  PROVE  \E g \in Seq(Digit) : /\ f = <<Dot>> \o g /\ Tail(f) = g
                               /\ Len(g) \in Nat /\ Len(g) <= Width /\ Len(f) = 1 + Len(g)
<1>1. Width \in Nat
  BY CalendarAssumption
<1>2. PICK n \in 1 .. Width : f = <<Dot>> \o [i \in 1 .. n |-> (i + 6) % 10]
  BY DEF Fractions
<1> DEFINE g == [i \in 1 .. n |-> (i + 6) % 10]
<1>3. g \in Seq(Digit) /\ Len(g) = n
  <2>1. \A i \in 1 .. n : (i + 6) % 10 \in Digit
    BY <1>1 DEF Digit
  <2> QED
    BY <1>1, <2>1
<1>4. f = <<Dot>> \o g
  BY <1>2
<1> HIDE DEF g
<1>5. g \in Seq(Int) /\ <<Dot>> \in Seq(Int) /\ Len(<<Dot>>) = 1
  BY <1>3 DEF Digit, Dot
<1>6. Len(f) = 1 + Len(g)
  BY <1>4, <1>5
<1>7. Tail(f) = g
  <2>1. f \in Seq(Int) /\ \A i \in 1 .. Len(g) : f[1 + i] = g[i]
    BY <1>4, <1>5
  <2>2. /\ Tail(f) \in Seq(Int) /\ Len(Tail(f)) = Len(g)
        /\ \A i \in 1 .. Len(g) : Tail(f)[i] = g[i]
    BY <1>3, <1>6, <2>1
  <2> QED
    BY <1>5, <2>2, SeqEqual
<1> QED
  <2>1. Len(g) \in Nat /\ Len(g) <= Width
    BY <1>1, <1>3
  <2> QED
    BY <1>3, <1>4, <1>6, <1>7, <2>1, Zenon

(* TimesReadBack, on one date. *)
LEMMA TimesOnADate ==
  ASSUME date \in Dates, days = ToDays(date), date.year \in Years
  PROVE  TimesReadBack
<1> SUFFICES ASSUME NEW t \in TimesOfDay, NEW f \in Fractions
             PROVE  IsostringToEpoch(EpochToIsostring(date, t) \o f \o <<Zulu>>)
                      = [days |-> days, second |-> t,
                         fraction |-> IF f = <<>> THEN 0
                                      ELSE Decimal(Tail(f)) * Pow10[Width - Len(f) + 1]]
  BY Zenon DEF TimesReadBack
<1>1. t \in TimeOfDay
  BY SMT DEF TimesOfDay, TimeOfDay
<1> DEFINE w == EpochToIsostring(date, t)
<1>2. /\ IsostringToEpoch(w \o <<>> \o <<Zulu>>) = Instant(date, t, 0)
      /\ \A g \in Seq(Digit) :
           Len(g) <= Width =>
             IsostringToEpoch(w \o (<<Dot>> \o g) \o <<Zulu>>)
               = Instant(date, t, Decimal(g) * Pow10[Width - Len(g)])
  BY <1>1, EveryTimeIsReadBack
<1> HIDE DEF w
<1>3. CASE f = <<>>
  BY <1>2, <1>3 DEF Instant, w
<1>4. CASE f # <<>>
  <2>1. PICK g \in Seq(Digit) : /\ f = <<Dot>> \o g /\ Tail(f) = g
                                /\ Len(g) \in Nat /\ Len(g) <= Width /\ Len(f) = 1 + Len(g)
    BY <1>4, FractionsOfDigits
  <2>2. Width - Len(f) + 1 = Width - Len(g)
    BY <2>1, CalendarAssumption
  <2>3. IsostringToEpoch(w \o f \o <<Zulu>>)
          = Instant(date, t, Decimal(Tail(f)) * Pow10[Width - Len(f) + 1])
    BY <1>2, <2>1, <2>2
  <2> QED
    BY <1>4, <2>3 DEF Instant, w
<1> QED
  BY <1>3, <1>4

(* datetime.hpp, day by day from 1970-01-01 until the years have five digits: *)
(* a time that is written is read back as the same time.                      *)
THEOREM TimesAreReadBack ==
  CalendarInit /\ [][Tomorrow]_calendarVars => [](date.year <= 9999 => TimesReadBack)
<1> DEFINE Inv == CalendarInv /\ date.year >= 1970
<1>1. CalendarInit => Inv
  <2>1. CalendarInit => date.year = 1970
    BY SMT DEF CalendarInit
  <2> QED
    BY <2>1, EpochIsDayZero, SMT
<1>2. Inv /\ [Tomorrow]_calendarVars => Inv'
  <2> SUFFICES ASSUME Inv, [Tomorrow]_calendarVars
               PROVE  Inv'
    OBVIOUS
  <2>1. date.year \in Int
    BY DEF CalendarInv, Dates
  <2>2. CASE Tomorrow
    <3>1. date' = FollowingDay(date) /\ days' = days + 1 /\ date \in Dates /\ days = ToDays(date)
      BY <2>2, TomorrowFollows DEF CalendarInv
    <3>2. date' \in Dates /\ ToDays(date') = ToDays(date) + 1
      BY <3>1, FollowingDayIsADate, FollowingDayCounts
    <3>3. date'.year >= date.year
      BY <2>1, <3>1, SMT DEF FollowingDay
    <3>4. date'.year \in Int
      BY <3>2 DEF Dates
    <3> QED
      BY <2>1, <3>1, <3>2, <3>3, <3>4, SMT DEF CalendarInv
  <2>3. CASE UNCHANGED calendarVars
    BY <2>3, SMT DEF CalendarInv, calendarVars
  <2> QED
    BY <2>2, <2>3, SMT
<1>3. Inv => (date.year <= 9999 => TimesReadBack)
  <2> SUFFICES ASSUME Inv, date.year <= 9999
               PROVE  TimesReadBack
    OBVIOUS
  <2>1. date.year \in Years
    <3>1. date.year \in Int
      BY DEF CalendarInv, Dates
    <3>2. date.year >= 1970 /\ date.year <= 9999
      BY SMT
    <3> DEFINE y == date.year
    <3> HIDE DEF y
    <3>3. y \in Int /\ y >= 1970 /\ y <= 9999 => y \in Years
      BY SMT DEF Years
    <3> QED
      BY <3>1, <3>2, <3>3, SMT DEF y
  <2> QED
    BY <2>1, TimesOnADate, SMT DEF CalendarInv
<1> QED
  BY <1>1, <1>2, <1>3, PTL

-------------------------------------------------------------------------------
(* Base64: decode undoes encode                                               *)

Byte == 0 .. 255

(* The parts of Encode: a byte, or zero beyond the end, and a character. *)
ByteAt(s, i) == IF i < Len(s) THEN s[i + 1] ELSE 0

CharAt(s, p) ==
  LET i == 3 * (p \div 4)
  IN  CASE p % 4 = 0 -> ByteAt(s, i) \div 4
        [] p % 4 = 1 -> (ByteAt(s, i) % 4) * 16 + ByteAt(s, i + 1) \div 16
        [] p % 4 = 2 -> IF i + 1 < Len(s)
                        THEN (ByteAt(s, i + 1) % 16) * 4 + ByteAt(s, i + 2) \div 64
                        ELSE Pad
        [] p % 4 = 3 -> IF i + 2 < Len(s) THEN ByteAt(s, i + 2) % 64 ELSE Pad

Groups(s) == (Len(s) + 2) \div 3

(* The parts of Decode. *)
SixAt(t, i) == IF t[i] = Pad THEN 0 ELSE t[i]

TripleAt(t, g) ==
  SixAt(t, 4 * g + 1) * 262144 + SixAt(t, 4 * g + 2) * 4096 + SixAt(t, 4 * g + 3) * 64
    + SixAt(t, 4 * g + 4)

PaddedAt(t, i) == IF t[i] = Pad THEN 1 ELSE 0

Weights == <<65536, 256, 1>>

DecodedAt(t, j) == (TripleAt(t, j \div 3) \div Weights[(j % 3) + 1]) % 256

-------------------------------------------------------------------------------
LEMMA EncodeParts ==
  ASSUME NEW s, Len(s) \in Nat, Len(s) >= 2
  PROVE  Encode(s) = [p \in 1 .. (4 * Groups(s)) |-> CharAt(s, p - 1)]
BY DEF Encode, Groups, CharAt, ByteAt

LEMMA DecodeParts ==
  ASSUME NEW t, Len(t) \in Nat, Len(t) # 0, Len(t) % 4 = 0
  PROVE  Decode(t) =
           [j \in 1 .. (3 * (Len(t) \div 4) - PaddedAt(t, Len(t)) - PaddedAt(t, Len(t) - 1))
              |-> DecodedAt(t, j - 1)]
BY DEF Decode, PaddedAt, DecodedAt, TripleAt, SixAt, Weights

LEMMA BytesAreBytes ==
  ASSUME NEW s \in Seq(Byte), NEW i \in Nat
  PROVE  ByteAt(s, i) \in Byte
<1>1. CASE i < Len(s)
  <2>1. i + 1 \in 1 .. Len(s)
    BY <1>1, LenProperties
  <2>2. s[i + 1] \in Byte
    BY <2>1, ElementOfSeq
  <2> QED
    BY <1>1, <2>2 DEF ByteAt
<1>2. CASE ~(i < Len(s))
  BY <1>2 DEF ByteAt, Byte
<1> QED
  BY <1>1, <1>2

(* Three bytes in four characters, *)
LEMMA FourSixes ==
  ASSUME NEW a \in Byte, NEW b \in Byte, NEW c \in Byte
  PROVE  /\ a \div 4 \in 0 .. 63 /\ (a % 4) * 16 + b \div 16 \in 0 .. 63
         /\ (b % 16) * 4 + c \div 64 \in 0 .. 63 /\ c % 64 \in 0 .. 63
         /\ (a \div 4) * 262144 + ((a % 4) * 16 + b \div 16) * 4096
              + ((b % 16) * 4 + c \div 64) * 64 + (c % 64) = a * 65536 + b * 256 + c
BY SMT DEF Byte

(* and out of them. *)
LEMMA ThreeBytes ==
  ASSUME NEW a \in Byte, NEW b \in Byte, NEW c \in Byte
  PROVE  LET n == a * 65536 + b * 256 + c
         IN  (n \div 65536) % 256 = a /\ (n \div 256) % 256 = b /\ (n \div 1) % 256 = c
BY SMT DEF Byte

(* The characters of a group. *)
LEMMA GroupOfChars ==
  ASSUME NEW s \in Seq(Byte), NEW g \in Nat
  PROVE  LET a == ByteAt(s, 3 * g)
             b == ByteAt(s, 3 * g + 1)
             c == ByteAt(s, 3 * g + 2)
         IN  /\ CharAt(s, 4 * g) = a \div 4
             /\ CharAt(s, 4 * g + 1) = (a % 4) * 16 + b \div 16
             /\ CharAt(s, 4 * g + 2) = IF 3 * g + 1 < Len(s) THEN (b % 16) * 4 + c \div 64 ELSE Pad
             /\ CharAt(s, 4 * g + 3) = IF 3 * g + 2 < Len(s) THEN c % 64 ELSE Pad
<1>1. (4 * g) % 4 = 0 /\ (4 * g) \div 4 = g
  BY SMT
<1>2. (4 * g + 1) % 4 = 1 /\ (4 * g + 1) \div 4 = g
  BY SMT
<1>3. (4 * g + 2) % 4 = 2 /\ (4 * g + 2) \div 4 = g
  BY SMT
<1>4. (4 * g + 3) % 4 = 3 /\ (4 * g + 3) \div 4 = g
  BY SMT
<1>5. CharAt(s, 4 * g) = ByteAt(s, 3 * g) \div 4
  BY <1>1 DEF CharAt
<1>6. CharAt(s, 4 * g + 1) = (ByteAt(s, 3 * g) % 4) * 16 + ByteAt(s, 3 * g + 1) \div 16
  BY <1>2, SMTT(30) DEF CharAt
<1>7. CharAt(s, 4 * g + 2) =
        IF 3 * g + 1 < Len(s)
        THEN (ByteAt(s, 3 * g + 1) % 16) * 4 + ByteAt(s, 3 * g + 2) \div 64
        ELSE Pad
  BY <1>3 DEF CharAt
<1>8. CharAt(s, 4 * g + 3) = IF 3 * g + 2 < Len(s) THEN ByteAt(s, 3 * g + 2) % 64 ELSE Pad
  BY <1>4 DEF CharAt
<1> QED
  BY <1>5, <1>6, <1>7, <1>8

(* An encoded text: its length, and its characters. *)
LEMMA EncodedText ==
  ASSUME NEW s \in Seq(Byte), Len(s) >= 2
  PROVE  /\ Len(Encode(s)) = 4 * Groups(s) /\ Groups(s) \in Nat \ {0}
         /\ \A p \in 0 .. (4 * Groups(s) - 1) : Encode(s)[p + 1] = CharAt(s, p)
         /\ 3 * Groups(s) - 2 <= Len(s) /\ Len(s) <= 3 * Groups(s)
<1> DEFINE m == Groups(s)
           t == Encode(s)
<1>1. Len(s) \in Nat
  BY LenProperties
<1>2. m \in Nat \ {0} /\ 3 * m - 2 <= Len(s) /\ Len(s) <= 3 * m
  BY <1>1, SMT DEF Groups
<1>3. t = [p \in 1 .. (4 * m) |-> CharAt(s, p - 1)]
  BY <1>1, EncodeParts
<1> HIDE DEF m, t
<1>4. 4 * m \in Nat /\ t \in Seq({CharAt(s, p - 1) : p \in 1 .. (4 * m)}) /\ DOMAIN t = 1 .. (4 * m)
  <2> DEFINE S == {CharAt(s, p - 1) : p \in 1 .. (4 * m)}
  <2>1. 4 * m \in Nat
    BY <1>2
  <2>2. \A p \in 1 .. (4 * m) : t[p] \in S
    BY <1>3
  <2>3. t \in [1 .. (4 * m) -> S]
    <3> HIDE DEF S
    <3> QED
      BY <1>3, <2>2
  <2> HIDE DEF S
  <2>4. t \in Seq(S)
    BY <2>1, <2>3, SeqDef
  <2> QED
    BY <2>1, <2>3, <2>4 DEF S
<1>5. Len(t) = 4 * m
  BY <1>4, LenProperties
<1>6. ASSUME NEW p \in 0 .. (4 * m - 1)
      PROVE  t[p + 1] = CharAt(s, p)
  <2>1. p + 1 \in 1 .. (4 * m) /\ (p + 1) - 1 = p
    BY <1>2
  <2> QED
    BY <1>3, <2>1
<1> QED
  BY <1>2, <1>5, <1>6 DEF m, t

(* The four characters of a group of bytes. *)
LEMMA GroupEncoded ==
  ASSUME NEW s \in Seq(Byte), Len(s) >= 2, NEW g \in 0 .. (Groups(s) - 1)
  PROVE  LET t == Encode(s)
             a == ByteAt(s, 3 * g)
             b == ByteAt(s, 3 * g + 1)
             c == ByteAt(s, 3 * g + 2)
         IN  /\ t[4 * g + 1] = a \div 4
             /\ t[4 * g + 2] = (a % 4) * 16 + b \div 16
             /\ t[4 * g + 3] = IF 3 * g + 1 < Len(s) THEN (b % 16) * 4 + c \div 64 ELSE Pad
             /\ t[4 * g + 4] = IF 3 * g + 2 < Len(s) THEN c % 64 ELSE Pad
<1> DEFINE t == Encode(s)
           a == ByteAt(s, 3 * g)
           b == ByteAt(s, 3 * g + 1)
           c == ByteAt(s, 3 * g + 2)
<1>1. Len(s) \in Nat /\ Groups(s) \in Nat /\ g \in Nat
  BY LenProperties, EncodedText
<1>2. \A p \in 0 .. (4 * Groups(s) - 1) : t[p + 1] = CharAt(s, p)
  BY EncodedText
<1>3. /\ t[4 * g + 1] = CharAt(s, 4 * g) /\ t[4 * g + 2] = CharAt(s, 4 * g + 1)
      /\ t[4 * g + 3] = CharAt(s, 4 * g + 2) /\ t[4 * g + 4] = CharAt(s, 4 * g + 3)
  <2>1. /\ 4 * g \in 0 .. (4 * Groups(s) - 1) /\ 4 * g + 1 \in 0 .. (4 * Groups(s) - 1)
        /\ 4 * g + 2 \in 0 .. (4 * Groups(s) - 1) /\ 4 * g + 3 \in 0 .. (4 * Groups(s) - 1)
    BY <1>1
  <2>2. /\ (4 * g + 1) + 1 = 4 * g + 2 /\ (4 * g + 2) + 1 = 4 * g + 3
        /\ (4 * g + 3) + 1 = 4 * g + 4
    BY <1>1
  <2> HIDE DEF t
  <2>3. t[4 * g + 1] = CharAt(s, 4 * g)
    BY <1>2, <2>1
  <2>4. t[(4 * g + 1) + 1] = CharAt(s, 4 * g + 1)
    BY <1>2, <2>1
  <2>5. t[(4 * g + 2) + 1] = CharAt(s, 4 * g + 2)
    BY <1>2, <2>1
  <2>6. t[(4 * g + 3) + 1] = CharAt(s, 4 * g + 3)
    BY <1>2, <2>1
  <2> QED
    BY <2>2, <2>3, <2>4, <2>5, <2>6
<1>4. /\ CharAt(s, 4 * g) = a \div 4
      /\ CharAt(s, 4 * g + 1) = (a % 4) * 16 + b \div 16
      /\ CharAt(s, 4 * g + 2) = IF 3 * g + 1 < Len(s) THEN (b % 16) * 4 + c \div 64 ELSE Pad
      /\ CharAt(s, 4 * g + 3) = IF 3 * g + 2 < Len(s) THEN c % 64 ELSE Pad
  BY <1>1, GroupOfChars
<1> QED
  BY <1>3, <1>4

(* What decode makes of a group is the three bytes it was made of. *)
LEMMA GroupDecoded ==
  ASSUME NEW s \in Seq(Byte), Len(s) >= 2, NEW g \in 0 .. (Groups(s) - 1)
  PROVE  TripleAt(Encode(s), g) = ByteAt(s, 3 * g) * 65536 + ByteAt(s, 3 * g + 1) * 256
                                    + ByteAt(s, 3 * g + 2)
<1> DEFINE t == Encode(s)
           a == ByteAt(s, 3 * g)
           b == ByteAt(s, 3 * g + 1)
           c == ByteAt(s, 3 * g + 2)
<1>1. Len(s) \in Nat /\ Groups(s) \in Nat /\ g \in Nat
  BY LenProperties, EncodedText
<1>2. a \in Byte /\ b \in Byte /\ c \in Byte
  BY <1>1, BytesAreBytes
<1>3. /\ 3 * g + 1 >= Len(s) => b = 0
      /\ 3 * g + 2 >= Len(s) => c = 0
  BY <1>1 DEF ByteAt
<1>7. /\ a \div 4 \in 0 .. 63 /\ (a % 4) * 16 + b \div 16 \in 0 .. 63
      /\ (b % 16) * 4 + c \div 64 \in 0 .. 63 /\ c % 64 \in 0 .. 63
      /\ (a \div 4) * 262144 + ((a % 4) * 16 + b \div 16) * 4096
           + ((b % 16) * 4 + c \div 64) * 64 + (c % 64) = a * 65536 + b * 256 + c
  BY <1>2, FourSixes, SMT
<1>8. /\ 3 * g + 1 >= Len(s) => (b % 16) * 4 + c \div 64 = 0
      /\ 3 * g + 2 >= Len(s) => c % 64 = 0
  <2>1. 3 * g + 1 >= Len(s) => 3 * g + 2 >= Len(s)
    BY <1>1
  <2>2. (0 % 16) * 4 + 0 \div 64 = 0 /\ 0 % 64 = 0
    BY SMT
  <2> HIDE DEF b, c
  <2> QED
    BY <1>3, <2>1, <2>2
<1> DEFINE w == a \div 4
           x == (a % 4) * 16 + b \div 16
           y == (b % 16) * 4 + c \div 64
           z == c % 64
<1>9. w \in 0 .. 63 /\ x \in 0 .. 63 /\ y \in 0 .. 63 /\ z \in 0 .. 63
  BY <1>7
<1>10. /\ t[4 * g + 1] = w /\ t[4 * g + 2] = x
       /\ t[4 * g + 3] = IF 3 * g + 1 < Len(s) THEN y ELSE Pad
       /\ t[4 * g + 4] = IF 3 * g + 2 < Len(s) THEN z ELSE Pad
  BY GroupEncoded
<1>11. (3 * g + 1 >= Len(s) => y = 0) /\ (3 * g + 2 >= Len(s) => z = 0)
  BY <1>8
<1>12. w * 262144 + x * 4096 + y * 64 + z = a * 65536 + b * 256 + c
  BY <1>7, SMT
<1> HIDE DEF t, w, x, y, z
<1>13. SixAt(t, 4 * g + 1) = w /\ SixAt(t, 4 * g + 2) = x
  BY <1>9, <1>10, SMTT(30) DEF SixAt, Pad
<1>14. SixAt(t, 4 * g + 3) = y
  <2>1. CASE 3 * g + 1 < Len(s)
    <3>1. t[4 * g + 3] = y
      BY <1>10, <2>1
    <3> QED
      BY <1>9, <3>1 DEF SixAt, Pad
  <2>2. CASE ~(3 * g + 1 < Len(s))
    <3>1. t[4 * g + 3] = Pad
      BY <1>10, <2>2
    <3>2. y = 0
      BY <1>1, <1>11, <2>2
    <3> QED
      BY <3>1, <3>2 DEF SixAt
  <2> QED
    BY <2>1, <2>2
<1>15. SixAt(t, 4 * g + 4) = z
  <2>1. CASE 3 * g + 2 < Len(s)
    <3>1. t[4 * g + 4] = z
      BY <1>10, <2>1
    <3> QED
      BY <1>9, <3>1 DEF SixAt, Pad
  <2>2. CASE ~(3 * g + 2 < Len(s))
    <3>1. t[4 * g + 4] = Pad
      BY <1>10, <2>2
    <3>2. z = 0
      BY <1>1, <1>11, <2>2
    <3> QED
      BY <3>1, <3>2 DEF SixAt
  <2> QED
    BY <2>1, <2>2
<1>16. TripleAt(t, g) = w * 262144 + x * 4096 + y * 64 + z
  BY <1>13, <1>14, <1>15, SMT DEF TripleAt
<1> HIDE DEF a, b, c
<1>17. TripleAt(t, g) = a * 65536 + b * 256 + c
  BY <1>12, <1>16, SMT
<1> QED
  BY <1>17, SMT DEF a, b, c, t

(* The padding is what the last group lacks. *)
LEMMA PaddingFills ==
  ASSUME NEW s \in Seq(Byte), Len(s) >= 2
  PROVE  LET n == 4 * Groups(s)
         IN  3 * (n \div 4) - PaddedAt(Encode(s), n) - PaddedAt(Encode(s), n - 1) = Len(s)
<1> DEFINE t == Encode(s)
           n == 4 * Groups(s)
           g == Groups(s) - 1
<1>1. /\ Len(s) \in Nat /\ Groups(s) \in Nat \ {0} /\ g \in Nat
      /\ 3 * Groups(s) - 2 <= Len(s) /\ Len(s) <= 3 * Groups(s)
  BY LenProperties, EncodedText
<1>2. n \div 4 = Groups(s) /\ n = 4 * g + 4 /\ n - 1 = 4 * g + 3 /\ g \in 0 .. (Groups(s) - 1)
  BY <1>1, SMT
<1> DEFINE a == ByteAt(s, 3 * g)
           b == ByteAt(s, 3 * g + 1)
           c == ByteAt(s, 3 * g + 2)
           y == (b % 16) * 4 + c \div 64
           z == c % 64
<1>3. y \in 0 .. 63 /\ z \in 0 .. 63
  <2>1. a \in Byte /\ b \in Byte /\ c \in Byte
    BY <1>1, BytesAreBytes
  <2> HIDE DEF a, b, c
  <2> QED
    BY <2>1, FourSixes
<1>4. /\ t[4 * g + 3] = IF 3 * g + 1 < Len(s) THEN y ELSE Pad
      /\ t[4 * g + 4] = IF 3 * g + 2 < Len(s) THEN z ELSE Pad
  BY <1>2, GroupEncoded
<1> HIDE DEF t, y, z, g, n
<1>5. PaddedAt(t, n - 1) = IF 3 * g + 1 < Len(s) THEN 0 ELSE 1
  BY <1>2, <1>3, <1>4 DEF PaddedAt, Pad
<1>6. PaddedAt(t, n) = IF 3 * g + 2 < Len(s) THEN 0 ELSE 1
  BY <1>2, <1>3, <1>4 DEF PaddedAt, Pad
<1>7. 3 * Groups(s) - PaddedAt(t, n) - PaddedAt(t, n - 1) = Len(s)
  <2>1. Groups(s) = g + 1
    BY <1>1 DEF g
  <2> QED
    BY <1>1, <1>5, <1>6, <2>1
<1> QED
  BY <1>2, <1>7 DEF t, n

(* Each byte that decode writes is the byte that encode read there. *)
LEMMA BytesDecoded ==
  ASSUME NEW s \in Seq(Byte), Len(s) >= 2, NEW j \in 0 .. (3 * Groups(s) - 1)
  PROVE  DecodedAt(Encode(s), j) = ByteAt(s, j)
<1> DEFINE t == Encode(s)
           g == j \div 3
           a == ByteAt(s, 3 * g)
           b == ByteAt(s, 3 * g + 1)
           c == ByteAt(s, 3 * g + 2)
           n == a * 65536 + b * 256 + c
<1>1. Groups(s) \in Nat
  BY EncodedText
<1>2. g \in 0 .. (Groups(s) - 1) /\ g \in Nat /\ j % 3 \in {0, 1, 2} /\ j = 3 * g + (j % 3)
  BY <1>1, SMT
<1>3. TripleAt(t, g) = n
  BY <1>2, GroupDecoded, SMT
<1>4. a \in Byte /\ b \in Byte /\ c \in Byte
  BY <1>2, BytesAreBytes
<1> HIDE DEF g, a, b, c
<1>5. (n \div 65536) % 256 = a /\ (n \div 256) % 256 = b /\ (n \div 1) % 256 = c
  BY <1>4, ThreeBytes, SMT
<1> HIDE DEF n, t
<1>6. DecodedAt(t, j) = (n \div Weights[(j % 3) + 1]) % 256
  BY <1>3, SMT DEF DecodedAt, g
<1>7. Weights[1] = 65536 /\ Weights[2] = 256 /\ Weights[3] = 1
  BY SMT DEF Weights
<1>8. CASE j % 3 = 0
  <2>1. (j % 3) + 1 = 1 /\ j = 3 * g
    BY <1>2, <1>8
  <2> QED
    BY <1>5, <1>6, <1>7, <2>1, SMT DEF a, t
<1>9. CASE j % 3 = 1
  <2>1. (j % 3) + 1 = 2 /\ j = 3 * g + 1
    BY <1>2, <1>9
  <2> QED
    BY <1>5, <1>6, <1>7, <2>1, SMT DEF b, t
<1>10. CASE j % 3 = 2
  <2>1. (j % 3) + 1 = 3 /\ j = 3 * g + 2
    BY <1>2, <1>10
  <2> QED
    BY <1>5, <1>6, <1>7, <2>1, SMT DEF c, t
<1> QED
  BY <1>2, <1>8, <1>9, <1>10

-------------------------------------------------------------------------------
(* encode and decode, base64.hpp: what was encoded is decoded again, whatever *)
(* the bytes and whatever their number from two on.                           *)
THEOREM RoundTrip ==
  ASSUME NEW s \in Seq(Byte), Len(s) >= 2
  PROVE  Decode(Encode(s)) = s
<1> DEFINE t == Encode(s)
           n == 4 * Groups(s)
<1>1. Len(t) = n /\ Groups(s) \in Nat \ {0} /\ Len(s) <= 3 * Groups(s)
  BY EncodedText
<1>2. n \in Nat /\ n # 0 /\ n % 4 = 0
  BY <1>1, SMT
<1> HIDE DEF t, n
<1>3. Decode(t) = [j \in 1 .. (3 * (n \div 4) - PaddedAt(t, n) - PaddedAt(t, n - 1))
                     |-> DecodedAt(t, j - 1)]
  BY <1>1, <1>2, DecodeParts
<1>4. 3 * (n \div 4) - PaddedAt(t, n) - PaddedAt(t, n - 1) = Len(s)
  BY PaddingFills DEF t, n
<1>5. Decode(t) = [j \in 1 .. Len(s) |-> DecodedAt(t, j - 1)]
  BY <1>3, <1>4
<1>6. ASSUME NEW j \in 1 .. Len(s)
      PROVE  DecodedAt(t, j - 1) = s[j]
  <2>1. /\ j - 1 \in 0 .. (3 * Groups(s) - 1) /\ j - 1 < Len(s) /\ (j - 1) + 1 = j
    BY <1>1, LenProperties
  <2>2. DecodedAt(t, j - 1) = ByteAt(s, j - 1)
    BY <2>1, BytesDecoded DEF t
  <2> QED
    BY <2>1, <2>2 DEF ByteAt
<1>7. s = [j \in 1 .. Len(s) |-> s[j]]
  BY LenProperties
<1>8. Decode(t) = s
  BY <1>5, <1>6, <1>7
<1> QED
  BY <1>8 DEF t

(* The same of the data that grows byte by byte. *)
THEOREM EncodedIsDecoded == DataInit /\ [][NextByte]_data => []DecodeUndoesEncode
<1> DEFINE DataInv == data \in Seq(Byte)
<1>1. DataInit => DataInv
  BY DEF DataInit
<1>2. DataInv /\ [NextByte]_data => DataInv'
  <2>1. Bytes \subseteq Byte
    BY Base64Assumption DEF Byte
  <2> QED
    BY <2>1 DEF NextByte
<1>3. DataInv => DecodeUndoesEncode
  BY RoundTrip DEF DecodeUndoesEncode
<1> QED
  BY <1>1, <1>2, <1>3, PTL

(* hmacBase64, cryptography.hpp, and getSignature, auth.cpp: the signature of *)
(* a digest without a zero byte decodes to the whole digest: it is only the   *)
(* zero bytes of a digest that spoil signatures.                              *)
THEOREM SignatureIsWhole ==
  ASSUME NEW digest \in Seq(Byte \ {0}), Len(digest) >= 2
  PROVE  Decode(Signature(digest)) = digest
<1>1. \A i \in DOMAIN digest : digest[i] # 0
  BY ElementOfSeq, LenProperties
<1>2. CString(digest) = digest
  BY <1>1 DEF CString
<1>3. digest \in Seq(Byte)
  OBVIOUS
<1> QED
  BY <1>2, <1>3, RoundTrip DEF Signature

-------------------------------------------------------------------------------
(* The lines of a file                                                        *)

(* A set of numbers up to n that is not empty has a greatest one. *)
LEMMA GreatestNumber ==
  ASSUME NEW n \in Nat, NEW T \in SUBSET (1 .. n), T # {}
  PROVE  \E m \in T : \A k \in T : k <= m
<1> DEFINE M == {k \in Nat : n - k \in T}
<1>1. PICK y \in T : TRUE
  OBVIOUS
<1>2. n - y \in Nat /\ n - (n - y) = y
  BY <1>1
<1>3. M \in SUBSET Nat /\ M # {}
  BY <1>2
<1>4. PICK m \in M : \A k \in M : m <= k
  BY <1>3, LeastNumber
<1>5. n - m \in T
  OBVIOUS
<1>6. \A z \in T : z <= n - m
  <2> TAKE z \in T
  <2>1. n - z \in Nat /\ n - (n - z) = z
    OBVIOUS
  <2>2. n - z \in M
    BY <2>1
  <2>3. m <= n - z
    BY <1>4, <2>2
  <2>4. m \in Nat /\ z \in Nat
    OBVIOUS
  <2> HIDE DEF M
  <2> QED
    BY <2>1, <2>3, <2>4
<1> QED
  BY <1>5, <1>6

(* Max of a set with a greatest number. *)
LEMMA MaxIs ==
  ASSUME NEW T \in SUBSET Nat, NEW m \in T, \A k \in T : k <= m
  PROVE  Max(T) = m
<1>1. \A x, y \in T : x >= y /\ y >= x => x = y
  OBVIOUS
<1>2. \A k \in T : m >= k
  OBVIOUS
<1>3. Max(T) \in T /\ \A k \in T : Max(T) >= k
  BY <1>2, Zenon DEF Max
<1> QED
  BY <1>1, <1>2, <1>3, Zenon

(* FirstOf of places of a sequence: the first, or the end. *)
LEMMA FirstIs ==
  ASSUME NEW lines, NEW N \in Nat, Len(lines) = N, NEW T \in SUBSET (1 .. N),
         NEW m \in T \cup {N + 1}, \A k \in T : m <= k
  PROVE  FirstOf(T, lines) = m
<1>1. \A x, y \in T \cup {N + 1} :
        (\A k \in T : x <= k) /\ (\A k \in T : y <= k) => x = y
  <2> TAKE x, y \in T \cup {N + 1}
  <2> HAVE (\A k \in T : x <= k) /\ (\A k \in T : y <= k)
  <2>1. CASE x \in T /\ y \in T
    BY <2>1
  <2>2. CASE x = N + 1 /\ y \in T
    BY <2>2
  <2>3. CASE x \in T /\ y = N + 1
    BY <2>3
  <2>4. CASE x = N + 1 /\ y = N + 1
    BY <2>4
  <2> QED
    BY <2>1, <2>2, <2>3, <2>4
<1>2. FirstOf(T, lines) = CHOOSE i \in T \cup {N + 1} : \A j \in T : i <= j
  BY DEF FirstOf
<1> QED
  BY <1>1, <1>2, Zenon

(* There is a first or no place at all. *)
LEMMA FirstExists ==
  ASSUME NEW lines, NEW N \in Nat, Len(lines) = N, NEW T \in SUBSET (1 .. N)
  PROVE  /\ FirstOf(T, lines) \in T \cup {N + 1}
         /\ FirstOf(T, lines) \in 1 .. N + 1
         /\ \A k \in T : FirstOf(T, lines) <= k
<1>1. CASE T = {}
  <2>1. N + 1 \in T \cup {N + 1} /\ \A k \in T : N + 1 <= k
    BY <1>1
  <2>2. FirstOf(T, lines) = N + 1
    BY <2>1, FirstIs
  <2> QED
    BY <1>1, <2>2
<1>2. CASE T # {}
  <2>1. PICK m \in T : \A k \in T : m <= k
    BY <1>2, LeastNumber
  <2>2. FirstOf(T, lines) = m
    BY <2>1, FirstIs
  <2> QED
    BY <2>1, <2>2
<1> QED
  BY <1>1, <1>2

(* The keys and values there may be on a line, and the lines. *)
Said == Names \cup {Nothing}

Given == Texts \cup {Nothing}

Lines == [offset : Nat, key : Said, value : Given, type : {"none", "map", "scalar"}]

(* How deep the name of a line is: the root, a section or a key. *)
Level(line) == IF line.key = Root THEN 0 ELSE IF line.key \in Sections THEN 1 ELSE 2

(* The next line after i that is not empty, or the end. *)
NextLine(f, i) == FirstOf({j \in Filled(f) : j > i}, f)

(* The line i is in the section that line s begins. *)
Within(f, i, s) ==
  /\ s \in 1 .. i /\ f[s].key \in Sections
  /\ \A j \in s + 1 .. i : f[j].key \notin Sections

(* The files that are written, with a step of indentation d. *)
Shaped(f, d) ==
  /\ f \in Seq(Lines) /\ d \in Nat /\ f # <<>>
  /\ f[1].key = Root /\ f[1].value = Nothing
  /\ \A i \in 1 .. Len(f) : f[i].key = Nothing => f[i].value = Nothing
  /\ \A i \in 2 .. Len(f) : f[i].key # Root
  /\ \A i \in 1 .. Len(f) : f[i].key # Nothing => f[i].offset = Level(f[i]) * d
  /\ \A i \in 1 .. Len(f) : f[i].key \notin Keys => f[i].value = Nothing
  /\ \A i \in 1 .. Len(f) : f[i].key \in Keys => \E s \in 1 .. Len(f) : Within(f, i, s)
  /\ \A i \in 1 .. Len(f) : f[i].key \in Sections => d > 0
  /\ \A i, j \in 1 .. Len(f) : f[i].key \in Sections /\ f[i].key = f[j].key => i = j

(* The lines that are not empty have a name. *)
LEMMA FilledLines ==
  ASSUME NEW f, NEW d, Shaped(f, d)
  PROVE  /\ Len(f) \in Nat /\ Len(f) >= 1 /\ DOMAIN f = 1 .. Len(f)
         /\ Filled(f) = {i \in 1 .. Len(f) : f[i].key # Nothing}
         /\ Filled(f) = {i \in 1 .. Len(f) : f[i].key \in Names}
         /\ 1 \in Filled(f)
         /\ \A i \in 1 .. Len(f) : f[i] \in Lines
<1>1. Len(f) \in Nat /\ DOMAIN f = 1 .. Len(f) /\ f # <<>>
  BY LenProperties DEF Shaped
<1>2. Len(f) >= 1
  BY <1>1, EmptySeq DEF Shaped
<1>3. \A i \in 1 .. Len(f) : f[i] \in Lines
  BY ElementOfSeq DEF Shaped
<1>4. Filled(f) = {i \in 1 .. Len(f) : f[i].key # Nothing}
  BY <1>1 DEF Filled, IsEmpty, Shaped
<1>5. \A i \in 1 .. Len(f) : f[i].key # Nothing <=> f[i].key \in Names
  BY <1>3, ConfigAssumption DEF Lines, Said
<1>6. 1 \in Filled(f)
  BY <1>2, <1>1, <1>4, ConfigAssumption DEF Shaped, Names
<1>7. Filled(f) = {i \in 1 .. Len(f) : f[i].key \in Names}
  BY <1>4, <1>5
<1> QED
  BY <1>1, <1>2, <1>3, <1>4, <1>6, <1>7

(* The next line. *)
LEMMA NextOf ==
  ASSUME NEW f, NEW d, Shaped(f, d), NEW i \in 1 .. Len(f)
  PROVE  /\ NextLine(f, i) \in i + 1 .. Len(f) + 1
         /\ NextLine(f, i) <= Len(f) => NextLine(f, i) \in Filled(f)
         /\ \A j \in i + 1 .. NextLine(f, i) - 1 : j \notin Filled(f)
<1> DEFINE T == {j \in Filled(f) : j > i}
           n == NextLine(f, i)
           N == Len(f)
<1>1. N \in Nat /\ Filled(f) \in SUBSET (1 .. N)
  BY FilledLines
<1>2. T \in SUBSET (1 .. N)
  BY <1>1
<1>3. n = FirstOf(T, f)
  BY DEF NextLine
<1> HIDE DEF T, n
<1>4. n \in T \cup {N + 1} /\ \A k \in T : n <= k
  BY <1>1, <1>2, <1>3, FirstExists
<1>5. n \in i + 1 .. N + 1
  BY <1>1, <1>4 DEF T
<1>6. n <= N => n \in Filled(f)
  BY <1>1, <1>4 DEF T
<1>7. \A j \in i + 1 .. n - 1 : j \notin Filled(f)
  BY <1>1, <1>4, <1>5 DEF T
<1> QED
  BY <1>5, <1>6, <1>7 DEF n

(* The next line is the only such line. *)
LEMMA NextIs ==
  ASSUME NEW f, NEW d, Shaped(f, d), NEW i \in 1 .. Len(f), NEW n \in i + 1 .. Len(f) + 1,
         n <= Len(f) => n \in Filled(f), \A j \in i + 1 .. n - 1 : j \notin Filled(f)
  PROVE  NextLine(f, i) = n
<1>1. Len(f) \in Nat /\ Filled(f) \in SUBSET (1 .. Len(f))
  BY FilledLines
<1>2. /\ NextLine(f, i) \in i + 1 .. Len(f) + 1
      /\ NextLine(f, i) <= Len(f) => NextLine(f, i) \in Filled(f)
      /\ \A j \in i + 1 .. NextLine(f, i) - 1 : j \notin Filled(f)
  BY NextOf
<1> DEFINE m == NextLine(f, i)
<1> HIDE DEF m
<1>3. ~(m < n)
  BY <1>1, <1>2 DEF m
<1>4. ~(n < m)
  BY <1>1, <1>2 DEF m
<1> QED
  BY <1>1, <1>2, <1>3, <1>4 DEF m

-------------------------------------------------------------------------------
(* Levels and paths                                                           *)

(* There is a step of indentation as soon as there is a second line. *)
LEMMA LevelOf ==
  ASSUME NEW f, NEW d, Shaped(f, d), NEW k \in Filled(f)
  PROVE  /\ d \in Nat /\ Level(f[k]) \in 0 .. 2 /\ f[k].offset = Level(f[k]) * d
         /\ Level(f[k]) = 0 <=> k = 1
         /\ Level(f[k]) = 0 <=> f[k].key = Root
         /\ Level(f[k]) = 1 <=> f[k].key \in Sections
         /\ Level(f[k]) = 2 <=> f[k].key \in Keys
         /\ k # 1 => d > 0
<1>1. k \in 1 .. Len(f) /\ f[k].key \in Names /\ f[k].key # Nothing /\ Len(f) \in Nat
  BY FilledLines
<1>2. d \in Nat /\ f[k].offset = Level(f[k]) * d
  BY <1>1 DEF Shaped
<1>3. f[k].key = Root <=> k = 1
  <2>1. k # 1 => k \in 2 .. Len(f)
    BY <1>1
  <2> QED
    BY <2>1, <1>1 DEF Shaped
<1>4. k # 1 => d > 0
  <2> SUFFICES ASSUME k # 1 PROVE d > 0
    OBVIOUS
  <2>1. CASE f[k].key \in Sections
    BY <1>1, <2>1 DEF Shaped
  <2>2. CASE f[k].key \in Keys
    <3>1. PICK s \in 1 .. Len(f) : Within(f, k, s)
      BY <1>1, <2>2 DEF Shaped
    <3>2. f[s].key \in Sections
      BY <3>1 DEF Within
    <3> QED
      BY <3>2 DEF Shaped
  <2> QED
    BY <1>1, <1>3, <2>1, <2>2 DEF Names
<1> QED
  BY <1>1, <1>2, <1>3, <1>4, ConfigAssumption DEF Level, Names

(* Indented means deeper. *)
LEMMA OffsetsAreLevels ==
  ASSUME NEW f, NEW d, Shaped(f, d), NEW k \in Filled(f), NEW n \in Filled(f), n # 1
  PROVE  /\ f[n].offset <= f[k].offset <=> Level(f[n]) <= Level(f[k])
         /\ f[n].offset < f[k].offset <=> Level(f[n]) < Level(f[k])
         /\ f[n].offset > f[k].offset <=> Level(f[n]) > Level(f[k])
<1>1. d \in Nat /\ d > 0 /\ Level(f[n]) \in 0 .. 2 /\ f[n].offset = Level(f[n]) * d
  BY LevelOf
<1>2. Level(f[k]) \in 0 .. 2 /\ f[k].offset = Level(f[k]) * d
  BY LevelOf
<1> DEFINE a == Level(f[n])
           b == Level(f[k])
<1> HIDE DEF a, b
<1>3. a \in {0, 1, 2} /\ b \in {0, 1, 2} /\ f[n].offset = a * d /\ f[k].offset = b * d
  BY <1>1, <1>2 DEF a, b
<1>4. 0 * d = 0 /\ 1 * d = d /\ 2 * d = d + d
  BY <1>1
<1>5. a * d <= b * d <=> a <= b
  BY <1>1, <1>3, <1>4
<1>6. a * d < b * d <=> a < b
  BY <1>1, <1>3, <1>4
<1>7. a * d > b * d <=> a > b
  BY <1>1, <1>3, <1>4
<1> QED
  BY <1>3, <1>5, <1>6, <1>7 DEF a, b

(* The path with one name more. *)
LEMMA AppendTwo ==
  ASSUME NEW a, NEW b
  PROVE  Append(<<a>>, b) = <<a, b>>
<1> DEFINE S == {a, b}
           l == Append(<<a>>, b)
           r == <<a, b>>
<1>1. <<a>> \in Seq(S) /\ b \in S /\ Len(<<a>>) = 1 /\ <<a>>[1] = a
  OBVIOUS
<1>2. l \in Seq(S) /\ Len(l) = 2 /\ l[1] = a /\ l[2] = b
  <2> HIDE DEF S
  <2> QED
    BY <1>1, AppendProperties
<1>3. r \in Seq(S) /\ Len(r) = 2 /\ r[1] = a /\ r[2] = b
  OBVIOUS
<1> HIDE DEF l, r, S
<1>4. \A i \in 1 .. Len(l) : l[i] = r[i]
  BY <1>2, <1>3
<1>5. l = r
  BY <1>2, <1>3, <1>4, SeqEqual
<1> QED
  BY <1>5 DEF l, r

(* The path of a key. *)
LEMMA AppendThree ==
  ASSUME NEW a, NEW b, NEW c
  PROVE  Append(<<a, b>>, c) = <<a, b, c>>
<1> DEFINE S == {a, b, c}
           l == Append(<<a, b>>, c)
           r == <<a, b, c>>
<1>1. <<a, b>> \in Seq(S) /\ c \in S /\ Len(<<a, b>>) = 2 /\ <<a, b>>[1] = a /\ <<a, b>>[2] = b
  OBVIOUS
<1>2. l \in Seq(S) /\ Len(l) = 3 /\ l[1] = a /\ l[2] = b /\ l[3] = c
  <2> HIDE DEF S
  <2> QED
    BY <1>1, AppendProperties
<1>3. r \in Seq(S) /\ Len(r) = 3 /\ r[1] = a /\ r[2] = b /\ r[3] = c
  OBVIOUS
<1> HIDE DEF l, r, S
<1>4. \A i \in 1 .. Len(l) : l[i] = r[i]
  BY <1>2, <1>3
<1>5. l = r
  BY <1>2, <1>3, <1>4, SeqEqual
<1> QED
  BY <1>5 DEF l, r

(* Where the value of the name of line k is put: below this path. *)
At(f, k, path) ==
  \/ Level(f[k]) = 0 /\ path = <<>>
  \/ Level(f[k]) = 1 /\ path = <<Root>>
  \/ Level(f[k]) = 2 /\ \E s \in 1 .. Len(f) : Within(f, k, s) /\ path = <<Root, f[s].key>>

(* Nothing is below the name of line k. *)
Leaf(f, k) == NextLine(f, k) > Len(f) \/ f[NextLine(f, k)].offset <= f[k].offset

(* A line is in one section only. *)
LEMMA WithinOne ==
  ASSUME NEW f, NEW k \in Nat, NEW s, NEW r, Within(f, k, s), Within(f, k, r)
  PROVE  s = r
<1>1. s \in 1 .. k /\ r \in 1 .. k /\ f[s].key \in Sections /\ f[r].key \in Sections
  BY DEF Within
<1>2. ~(s < r)
  <2> SUFFICES ASSUME s < r PROVE FALSE
    OBVIOUS
  <2>1. r \in s + 1 .. k
    BY <1>1
  <2> QED
    BY <1>1, <2>1 DEF Within
<1>3. ~(r < s)
  <2> SUFFICES ASSUME r < s PROVE FALSE
    OBVIOUS
  <2>1. s \in r + 1 .. k
    BY <1>1
  <2> QED
    BY <1>1, <2>1 DEF Within
<1> QED
  BY <1>1, <1>2, <1>3

(* There is one path. *)
LEMMA AtOne ==
  ASSUME NEW f, NEW d, Shaped(f, d), NEW k \in Filled(f), NEW p, NEW q, At(f, k, p), At(f, k, q)
  PROVE  p = q
<1>1. k \in Nat
  BY FilledLines
<1>2. Level(f[k]) \in 0 .. 2
  BY LevelOf
<1>3. CASE Level(f[k]) # 2
  BY <1>3 DEF At
<1>4. CASE Level(f[k]) = 2
  <2>1. PICK s \in 1 .. Len(f) : Within(f, k, s) /\ p = <<Root, f[s].key>>
    BY <1>4 DEF At
  <2>2. PICK r \in 1 .. Len(f) : Within(f, k, r) /\ q = <<Root, f[r].key>>
    BY <1>4 DEF At
  <2>3. s = r
    BY <1>1, <2>1, <2>2, WithinOne
  <2> QED
    BY <2>1, <2>2, <2>3
<1> QED
  BY <1>3, <1>4

(* Every line with a name has a path. *)
LEMMA AtSome ==
  ASSUME NEW f, NEW d, Shaped(f, d), NEW k \in Filled(f)
  PROVE  \E p \in Seq(Names) : At(f, k, p)
<1>1. Level(f[k]) \in 0 .. 2 /\ k \in 1 .. Len(f)
  BY LevelOf, FilledLines
<1>2. CASE Level(f[k]) = 0
  <2>1. <<>> \in Seq(Names)
    OBVIOUS
  <2> QED
    BY <1>2, <2>1 DEF At
<1>3. CASE Level(f[k]) = 1
  <2>1. <<Root>> \in Seq(Names)
    BY DEF Names
  <2> QED
    BY <1>3, <2>1 DEF At
<1>4. CASE Level(f[k]) = 2
  <2>1. f[k].key \in Keys
    BY <1>4, LevelOf
  <2>2. PICK s \in 1 .. Len(f) : Within(f, k, s)
    BY <1>1, <2>1 DEF Shaped
  <2>3. <<Root, f[s].key>> \in Seq(Names)
    BY <2>2 DEF Names, Within
  <2> QED
    BY <1>4, <2>2, <2>3 DEF At
<1> QED
  BY <1>1, <1>2, <1>3, <1>4

(* A section that stays the same until there is another one. *)
LEMMA WithinStays ==
  ASSUME NEW f, NEW k \in Nat, NEW n \in Nat, k < n, NEW s, Within(f, k, s),
         \A j \in k + 1 .. n : f[j].key \notin Sections
  PROVE  Within(f, n, s)
<1>1. s \in 1 .. n /\ f[s].key \in Sections
  BY DEF Within
<1>2. \A j \in s + 1 .. n : f[j].key \notin Sections
  <2> TAKE j \in s + 1 .. n
  <2>1. j \in s + 1 .. k \/ j \in k + 1 .. n
    BY <1>1
  <2> QED
    BY <2>1 DEF Within
<1> QED
  BY <1>1, <1>2 DEF Within

(* From a line to the next: at most one level deeper, and then its path goes  *)
(* on with the name of the line.                                              *)
LEMMA NextDown ==
  ASSUME NEW f, NEW d, Shaped(f, d), NEW k \in Filled(f), NEW n, n = NextLine(f, k),
         n <= Len(f), NEW path, At(f, k, path)
  PROVE  /\ n \in Filled(f) /\ n # 1 /\ Level(f[n]) \in 1 .. 2
         /\ Leaf(f, k) <=> Level(f[n]) <= Level(f[k])
         /\ ~Leaf(f, k) => Level(f[n]) = Level(f[k]) + 1 /\ At(f, n, Append(path, f[k].key))
<1>1. k \in 1 .. Len(f) /\ Len(f) \in Nat /\ Filled(f) \in SUBSET (1 .. Len(f))
  BY FilledLines
<1>2. n \in k + 1 .. Len(f) /\ n \in Filled(f) /\ \A j \in k + 1 .. n - 1 : j \notin Filled(f)
  BY <1>1, NextOf
<1>3. n # 1
  BY <1>1, <1>2
<1>4. Level(f[n]) \in 1 .. 2 /\ Level(f[k]) \in 0 .. 2
  <2>1. Level(f[n]) \in 0 .. 2 /\ Level(f[n]) # 0 /\ Level(f[k]) \in 0 .. 2
    BY <1>2, <1>3, LevelOf
  <2> QED
    BY <2>1
<1>5. Leaf(f, k) <=> Level(f[n]) <= Level(f[k])
  <2>1. ~(n > Len(f))
    BY <1>1, <1>2
  <2> QED
    BY <1>2, <1>3, <2>1, OffsetsAreLevels DEF Leaf
<1>6. ASSUME Level(f[n]) = 2
      PROVE  \/ Level(f[k]) = 2
             \/ Level(f[k]) = 1 /\ Within(f, n, k)
  <2>1. f[n].key \in Keys
    BY <1>2, <1>6, LevelOf
  <2> n \in 1 .. Len(f)
    BY <1>1, <1>2
  <2>2. PICK s \in 1 .. Len(f) : Within(f, n, s)
    BY <2>1 DEF Shaped
  <2>3. s \in Filled(f) /\ s <= n /\ f[s].key \in Sections /\ s # n
    BY <1>2, <2>1, <2>2, FilledLines, ConfigAssumption DEF Within, Names
  <2>4. s <= k
    BY <1>1, <1>2, <2>3
  <2>5. CASE s = k
    BY <2>2, <2>3, <2>5, LevelOf
  <2>6. CASE s < k
    <3>1. k \in s + 1 .. n
      BY <1>1, <1>2, <2>3, <2>6
    <3>2. f[k].key \notin Sections
      BY <2>2, <3>1 DEF Within
    <3>3. k # 1
      BY <1>1, <2>6
    <3> QED
      BY <1>4, <3>2, <3>3, LevelOf
  <2> QED
    BY <1>1, <2>3, <2>4, <2>5, <2>6
<1>7. ~Leaf(f, k) => Level(f[n]) = Level(f[k]) + 1 /\ At(f, n, Append(path, f[k].key))
  <2> SUFFICES ASSUME ~Leaf(f, k)
               PROVE  Level(f[n]) = Level(f[k]) + 1 /\ At(f, n, Append(path, f[k].key))
    OBVIOUS
  <2>1. Level(f[n]) > Level(f[k])
    BY <1>4, <1>5
  <2>2. CASE Level(f[k]) = 0
    <3>1. Level(f[n]) = 1
      BY <1>4, <1>6, <2>2
    <3>2. path = <<>> /\ f[k].key = Root
      BY <2>2, LevelOf DEF At
    <3>3. Append(path, f[k].key) = <<Root>>
      BY <3>2
    <3> QED
      BY <2>2, <3>1, <3>3 DEF At
  <2>3. CASE Level(f[k]) = 1
    <3>1. Level(f[n]) = 2
      BY <1>4, <2>1, <2>3
    <3>2. Within(f, n, k)
      BY <1>6, <2>3, <3>1
    <3>3. path = <<Root>>
      BY <2>3 DEF At
    <3>4. Append(path, f[k].key) = <<Root, f[k].key>>
      BY <3>3, AppendTwo
    <3> QED
      BY <1>1, <2>3, <3>1, <3>2, <3>4 DEF At
  <2>4. CASE Level(f[k]) = 2
    BY <1>4, <2>1, <2>4
  <2> QED
    BY <1>4, <2>2, <2>3, <2>4
<1> QED
  BY <1>2, <1>3, <1>4, <1>5, <1>7

-------------------------------------------------------------------------------
(* The rounds                                                                 *)

(* The line of a name, once it is processed, and the line made for its value. *)
MapOf(line) == [line EXCEPT !.type = "map", !.value = Nothing]

ScalarOf(line) ==
  Line(WidthOf[line.key] + 2 + IF line.value = Nothing THEN 0 ELSE line.offset,
       Nothing, line.value, "scalar")

(* A part of a sequence after another. *)
LEMMA Spliced ==
  ASSUME NEW S, NEW L \in Seq(S), NEW i \in 1 .. Len(L) + 1, NEW n \in 1 .. Len(L) + 1
  PROVE  LET R == SubSeq(L, 1, i - 1) \o SubSeq(L, n, Len(L)) IN
         /\ R \in Seq(S) /\ Len(R) = (i - 1) + (Len(L) + 1 - n)
         /\ \A j \in 1 .. i - 1 : R[j] = L[j]
         /\ \A j \in n .. Len(L) : R[i + j - n] = L[j]
<1> DEFINE N == Len(L)
           l == SubSeq(L, 1, i - 1)
           r == SubSeq(L, n, N)
           R == SubSeq(L, 1, i - 1) \o SubSeq(L, n, Len(L))
<1>1. N \in Nat /\ i \in 1 .. N + 1 /\ n \in 1 .. N + 1
  BY LenProperties
<1>2. l \in Seq(S) /\ Len(l) = i - 1 /\ \A j \in 1 .. i - 1 : l[j] = L[j]
  <2>1. \A j \in 1 .. i - 1 : j \in 1 .. N
    BY <1>1
  <2>2. \A j \in 1 .. i - 1 : L[j] \in S
    BY <2>1, ElementOfSeq
  <2>3. \A j \in 1 .. i - 1 : 1 + j - 1 = j
    OBVIOUS
  <2> QED
    BY <1>1, <2>1, <2>2, <2>3, SubSeqProperties
<1>3. r \in Seq(S) /\ Len(r) = N + 1 - n /\ \A j \in 1 .. N + 1 - n : r[j] = L[n + j - 1]
  BY <1>1, SubSeqProperties
<1> HIDE DEF N, l, r, R
<1>4. /\ l \o r \in Seq(S) /\ Len(l \o r) = Len(l) + Len(r)
      /\ \A j \in 1 .. Len(l) + Len(r) :
           (l \o r)[j] = IF j <= Len(l) THEN l[j] ELSE r[j - Len(l)]
  BY <1>2, <1>3, ConcatProperties
<1>5. R = l \o r
  BY DEF l, r, N, R
<1>6. R \in Seq(S) /\ Len(R) = (i - 1) + (N + 1 - n)
  BY <1>2, <1>3, <1>4, <1>5
<1>7. \A j \in 1 .. i - 1 : R[j] = L[j]
  BY <1>1, <1>2, <1>3, <1>4, <1>5
<1>8. \A j \in n .. N : R[i + j - n] = L[j]
  <2> TAKE j \in n .. N
  <2> DEFINE m == j + 1 - n
  <2>1. m \in 1 .. N + 1 - n /\ n + m - 1 = j /\ i + j - n = (i - 1) + m
    BY <1>1
  <2> HIDE DEF m
  <2>2. r[m] = L[j]
    BY <1>3, <2>1
  <2>3. (l \o r)[(i - 1) + m] = r[m]
    BY <1>1, <1>2, <1>3, <1>4, <2>1
  <2> QED
    BY <1>5, <2>1, <2>2, <2>3
<1> QED
  BY <1>6, <1>7, <1>8 DEF N, R

(* The empty lines are gone, the others are where they were or move up. *)
LEMMA ClearIs ==
  ASSUME NEW S, NEW L \in Seq(S), NEW i \in 1 .. Len(L) + 1, NEW n \in i .. Len(L) + 1,
         n <= Len(L) => n \in Filled(L), \A j \in i .. n - 1 : j \notin Filled(L)
  PROVE  LET R == ClearEmpty(L, i) IN
         /\ R \in Seq(S) /\ Len(R) = (i - 1) + (Len(L) + 1 - n)
         /\ \A j \in 1 .. i - 1 : R[j] = L[j]
         /\ \A j \in n .. Len(L) : R[i + j - n] = L[j]
<1> DEFINE T == {j \in Filled(L) : j >= i}
           N == Len(L)
<1>1. N \in Nat /\ Filled(L) \in SUBSET (1 .. N)
  BY LenProperties DEF Filled
<1> T \in SUBSET (1 .. N) /\ N = Len(L)
  BY <1>1
<1>2. n \in T \cup {N + 1}
  BY <1>1
<1>3. \A k \in T : n <= k
  BY <1>1
<1>4. FirstOf(T, L) = n
  <2> HIDE DEF T
  <2> QED
    BY <1>1, <1>2, <1>3, FirstIs
<1>5. ClearEmpty(L, i) = SubSeq(L, 1, i - 1) \o SubSeq(L, n, Len(L))
  BY <1>4 DEF ClearEmpty
<1>6. n \in 1 .. Len(L) + 1
  BY <1>1
<1> DEFINE R == ClearEmpty(L, i)
<1> HIDE DEF T, N, R
<1>7. R = SubSeq(L, 1, i - 1) \o SubSeq(L, n, Len(L))
  BY <1>5 DEF R
<1>8. /\ R \in Seq(S) /\ Len(R) = (i - 1) + (Len(L) + 1 - n)
      /\ \A j \in 1 .. i - 1 : R[j] = L[j]
      /\ \A j \in n .. Len(L) : R[i + j - n] = L[j]
  BY <1>6, <1>7, Spliced
<1> QED
  BY <1>8 DEF R

(* Nothing goes where there is no empty line. *)
LEMMA ClearNone ==
  ASSUME NEW S, NEW L \in Seq(S), NEW m \in 1 .. Len(L) + 1,
         m <= Len(L) => m \in Filled(L)
  PROVE  ClearEmpty(L, m) = L
<1> DEFINE T == {j \in Filled(L) : j >= m}
           N == Len(L)
<1>1. N \in Nat /\ Filled(L) \in SUBSET (1 .. N)
  BY LenProperties DEF Filled
<1>2. T \in SUBSET (1 .. N) /\ m \in T \cup {N + 1} /\ \A k \in T : m <= k
  BY <1>1
<1>3. FirstOf(T, L) = m
  <2> HIDE DEF T
  <2> QED
    BY <1>1, <1>2, FirstIs
<1>4. ClearEmpty(L, m) = SubSeq(L, 1, m - 1) \o SubSeq(L, m, N)
  BY <1>3 DEF ClearEmpty
<1> DEFINE k == m - 1
<1>5. k \in 1 - 1 .. N /\ N \in k .. N /\ m = k + 1 /\ 1 \in 1 .. N + 1
  BY <1>1
<1> HIDE DEF T, k
<1>6. SubSeq(L, 1, k) \o SubSeq(L, k + 1, N) = SubSeq(L, 1, N)
  BY <1>1, <1>5, ConcatAdjacentSubSeq
<1>7. SubSeq(L, 1, N) = L
  BY SubSeqFull
<1> QED
  BY <1>4, <1>5, <1>6, <1>7 DEF k

(* A line more. *)
LEMMA InsertIs ==
  ASSUME NEW S, NEW L \in Seq(S), NEW i \in 1 .. Len(L) + 1, NEW e \in S
  PROVE  LET R == InsertAt(L, i, e) IN
         /\ R \in Seq(S) /\ Len(R) = Len(L) + 1
         /\ \A j \in 1 .. i - 1 : R[j] = L[j]
         /\ R[i] = e
         /\ \A j \in i .. Len(L) : R[j + 1] = L[j]
<1> DEFINE N == Len(L)
           l == SubSeq(L, 1, i - 1)
           r == SubSeq(L, i, N)
           R == InsertAt(L, i, e)
<1>1. N \in Nat /\ i \in 1 .. N + 1
  BY LenProperties
<1>2. l \in Seq(S) /\ Len(l) = i - 1 /\ \A j \in 1 .. i - 1 : l[j] = L[j]
  <2>1. \A j \in 1 .. i - 1 : j \in 1 .. N
    BY <1>1
  <2>2. \A j \in 1 .. i - 1 : L[j] \in S
    BY <2>1, ElementOfSeq
  <2>3. \A j \in 1 .. i - 1 : 1 + j - 1 = j
    OBVIOUS
  <2> QED
    BY <1>1, <2>1, <2>2, <2>3, SubSeqProperties
<1>3. r \in Seq(S) /\ Len(r) = N + 1 - i /\ \A j \in 1 .. N + 1 - i : r[j] = L[i + j - 1]
  BY <1>1, SubSeqProperties
<1>4. <<e>> \in Seq(S) /\ Len(<<e>>) = 1 /\ <<e>>[1] = e
  OBVIOUS
<1> DEFINE one == <<e>>
           le == l \o one
<1> HIDE DEF N, l, r, one
<1>5. le \in Seq(S) /\ Len(le) = i /\ le[i] = e /\ \A j \in 1 .. i - 1 : le[j] = L[j]
  <2>1. one \in Seq(S) /\ Len(one) = 1 /\ one[1] = e
    BY <1>4 DEF one
  <2>2. /\ le \in Seq(S) /\ Len(le) = Len(l) + Len(one)
        /\ \A j \in 1 .. Len(l) + Len(one) : le[j] = IF j <= Len(l) THEN l[j] ELSE one[j - Len(l)]
    BY <1>2, <2>1, ConcatProperties
  <2> QED
    BY <1>1, <1>2, <2>1, <2>2
<1> HIDE DEF le
<1>6. /\ le \o r \in Seq(S) /\ Len(le \o r) = Len(le) + Len(r)
      /\ \A j \in 1 .. Len(le) + Len(r) :
           (le \o r)[j] = IF j <= Len(le) THEN le[j] ELSE r[j - Len(le)]
  BY <1>3, <1>5, ConcatProperties
<1>7. R = le \o r
  BY DEF InsertAt, le, l, r, one, N
<1> HIDE DEF R
<1>8. R \in Seq(S) /\ Len(R) = N + 1
  BY <1>1, <1>3, <1>5, <1>6, <1>7
<1>9. R[i] = e /\ \A j \in 1 .. i - 1 : R[j] = L[j]
  BY <1>1, <1>3, <1>5, <1>6, <1>7
<1>10. \A j \in i .. N : R[j + 1] = L[j]
  <2> TAKE j \in i .. N
  <2> DEFINE m == j + 1 - i
  <2>1. m \in 1 .. N + 1 - i /\ i + m - 1 = j /\ j + 1 = i + m
    BY <1>1
  <2> HIDE DEF m
  <2>2. r[m] = L[j]
    BY <1>3, <2>1
  <2>3. (le \o r)[i + m] = r[m]
    BY <1>1, <1>3, <1>5, <1>6, <2>1
  <2> QED
    BY <1>7, <2>1, <2>2, <2>3
<1> QED
  BY <1>8, <1>9, <1>10 DEF N, R

(* A line that is a scalar already, with a line behind it that is not further *)
(* right than the line before it: nothing changes. *)
LEMMA ScalarLineIs ==
  ASSUME NEW S, NEW L \in Seq(S), NEW i \in 2 .. Len(L),
         L[i] = [L[i] EXCEPT !.type = "scalar"],
         i < Len(L) => i + 1 \in Filled(L) /\ L[i + 1].offset <= L[i - 1].offset
  PROVE  ScalarLine(L, i) = [lines |-> L, next |-> i + 1]
<1> DEFINE N == Len(L)
           T == {j \in Filled(L) : j > i /\ L[j].offset <= ParentOffset(L, i)}
           U == {j \in Filled(L) : i < j /\ j < i + 1}
<1>1. N \in Nat /\ DOMAIN L = 1 .. N /\ Filled(L) \in SUBSET (1 .. N) /\ i \in 2 .. N
  BY LenProperties DEF Filled
<1>2. ParentOffset(L, i) = L[i - 1].offset
  BY <1>1 DEF ParentOffset
<1>3. FirstOf(T, L) = i + 1
  <2>1. i + 1 \in T \cup {N + 1}
    BY <1>1, <1>2
  <2>2. T \in SUBSET (1 .. N) /\ \A k \in T : i + 1 <= k
    BY <1>1
  <2> HIDE DEF T
  <2> QED
    BY <1>1, <2>1, <2>2, FirstIs
<1>4. Max({i} \cup U) = i
  <2>1. U = {}
    BY <1>1
  <2> DEFINE one == {i} \cup U
  <2>2. one = {i} /\ i \in one /\ one \in SUBSET Nat /\ \A k \in one : k <= i
    BY <1>1, <2>1
  <2> HIDE DEF one
  <2>3. Max(one) = i
    BY <2>2, MaxIs
  <2> QED
    BY <2>3 DEF one
<1>5. Typed(L, i, i + 1) = L
  <2> DEFINE R == [j \in 1 .. N |-> IF j \in i .. (i + 1 - 1) THEN [L[j] EXCEPT !.type = "scalar"] ELSE L[j]]
  <2>1. Typed(L, i, i + 1) = R
    BY <1>1 DEF Typed
  <2>2. \A j \in 1 .. N : R[j] = L[j]
    BY <1>1
  <2>3. R = [j \in 1 .. N |-> L[j]]
    BY <2>2
  <2>4. L = [j \in 1 .. N |-> L[j]]
    BY <1>1
  <2> QED
    BY <2>1, <2>3, <2>4
<1>6. ClearEmpty(L, i + 1) = L
  <2>1. i + 1 \in 1 .. Len(L) + 1
    BY <1>1
  <2>2. i + 1 <= Len(L) => i + 1 \in Filled(L)
    BY <1>1
  <2> HIDE DEF N, T, U
  <2> QED
    BY <2>1, <2>2, ClearNone
<1>7. /\ FirstOf({j \in Filled(L) : j > i /\ L[j].offset <= ParentOffset(L, i)}, L) = i + 1
      /\ Max({i} \cup {j \in Filled(L) : i < j /\ j < i + 1}) = i
  BY <1>3, <1>4
<1> HIDE DEF T, U
<1> QED
  BY <1>5, <1>6, <1>7 DEF ScalarLine

(* How many lines the name of line k becomes. *)
Size(f, k) == IF Leaf(f, k) THEN 2 ELSE 1

(* The lines made of a line with a name. *)
LEMMA MapAndScalar ==
  ASSUME NEW line \in Lines, line.key \in Names
  PROVE  /\ MapOf(line) \in Lines /\ ScalarOf(line) \in Lines
         /\ MapOf(line).offset = line.offset /\ MapOf(line).key = line.key
         /\ MapOf(line).type = "map" /\ MapOf(line).value = Nothing
         /\ ScalarOf(line).type = "scalar" /\ ScalarOf(line).value = line.value
         /\ ScalarOf(line).offset = WidthOf[line.key] + 2 + IF line.value = Nothing THEN 0 ELSE line.offset
         /\ ScalarOf(line) = [ScalarOf(line) EXCEPT !.type = "scalar"]
         /\ ~IsEmpty(MapOf(line))
<1>1. WidthOf[line.key] \in Nat /\ line.key # Nothing
  BY ConfigAssumption
<1>2. line.offset \in Nat /\ line.value \in Given /\ line.key \in Said
  BY DEF Lines
<1>3. WidthOf[line.key] + 2 + (IF line.value = Nothing THEN 0 ELSE line.offset) \in Nat
  BY <1>1, <1>2
<1>4. MapOf(line) \in Lines /\ MapOf(line).offset = line.offset /\ MapOf(line).key = line.key
      /\ MapOf(line).type = "map" /\ MapOf(line).value = Nothing
  BY DEF MapOf, Lines, Given
<1>5. ~IsEmpty(MapOf(line))
  BY <1>1, <1>4 DEF IsEmpty
<1> DEFINE o == WidthOf[line.key] + 2 + IF line.value = Nothing THEN 0 ELSE line.offset
<1>6. o \in Nat
  BY <1>3
<1>7. ScalarOf(line) = [offset |-> o, key |-> Nothing, value |-> line.value, type |-> "scalar"]
  BY DEF ScalarOf, Line
<1> HIDE DEF o
<1>8. ScalarOf(line) \in Lines /\ ScalarOf(line) = [ScalarOf(line) EXCEPT !.type = "scalar"]
      /\ ScalarOf(line).type = "scalar" /\ ScalarOf(line).value = line.value /\ ScalarOf(line).offset = o
  BY <1>2, <1>6, <1>7 DEF Lines, Said
<1> QED
  BY <1>4, <1>5, <1>8 DEF o

(* A name with something below it has no value. *)
LEMMA ValuesAreLeaves ==
  ASSUME NEW f, NEW d, Shaped(f, d), NEW k \in Filled(f), ~Leaf(f, k)
  PROVE  f[k].value = Nothing /\ NextLine(f, k) \in Filled(f)
<1> DEFINE n == NextLine(f, k)
<1>1. k \in 1 .. Len(f) /\ Len(f) \in Nat
  BY FilledLines
<1>2. n \in k + 1 .. Len(f) + 1 /\ (n <= Len(f) => n \in Filled(f)) /\ n <= Len(f)
  <2>1. n \in k + 1 .. Len(f) + 1 /\ (n <= Len(f) => n \in Filled(f))
    BY <1>1, NextOf
  <2>2. ~(n > Len(f))
    BY DEF Leaf
  <2> QED
    BY <1>1, <2>1, <2>2
<1>3. PICK path \in Seq(Names) : At(f, k, path)
  BY AtSome
<1>4. Level(f[n]) = Level(f[k]) + 1 /\ Level(f[n]) \in 1 .. 2
  BY <1>2, <1>3, NextDown
<1>5. Level(f[k]) \in 0 .. 2 /\ (Level(f[k]) = 2 <=> f[k].key \in Keys)
  BY LevelOf
<1>6. f[k].key \notin Keys
  BY <1>4, <1>5
<1> QED
  BY <1>1, <1>2, <1>6 DEF Shaped

(* A line with a name becomes its line and, if nothing is below it, the line  *)
(* of its value; the empty lines behind it are gone.                          *)
LEMMA MappingLineIs ==
  ASSUME NEW f, NEW d, Shaped(f, d), NEW k \in Filled(f),
         NEW L \in Seq(Lines), NEW i \in 1 .. Len(L), Len(L) = i + Len(f) - k,
         \A j \in k .. Len(f) : L[i + j - k] = f[j]
  PROVE  \E M \in Seq(Lines) :
           /\ MappingLine(L, i) = [lines |-> M, next |-> i + Size(f, k)]
           /\ Len(M) = i + Size(f, k) + Len(f) - NextLine(f, k)
           /\ \A j \in 1 .. i - 1 : M[j] = L[j]
           /\ M[i] = MapOf(f[k])
           /\ Leaf(f, k) => M[i + 1] = ScalarOf(f[k])
           /\ \A j \in NextLine(f, k) .. Len(f) : M[i + Size(f, k) + j - NextLine(f, k)] = f[j]
<1> DEFINE N == Len(f)
           n == NextLine(f, k)
           line == [L[i] EXCEPT !.type = "map", !.value = Nothing]
           E == [L EXCEPT ![i] = line]
           m == i + n - k
           C == ClearEmpty(E, i + 1)
<1>1. /\ N \in Nat /\ k \in 1 .. N /\ f[k] \in Lines /\ f[k].key \in Names
      /\ Filled(f) = {j \in 1 .. N : f[j].key # Nothing}
      /\ \A j \in 1 .. N : f[j] \in Lines
  BY FilledLines
<1>2. n \in k + 1 .. N + 1 /\ (n <= N => n \in Filled(f)) /\ \A j \in k + 1 .. n - 1 : j \notin Filled(f)
  BY <1>1, NextOf
<1>3. Len(L) \in Nat /\ i \in Nat /\ Len(L) = i + N - k
  BY LenProperties
<1>4. L[i] = f[k]
  <2>1. k \in k .. Len(f) /\ i + k - k = i
    BY <1>1, <1>3
  <2> QED
    BY <2>1
<1>5. line = MapOf(f[k]) /\ line \in Lines /\ line.offset = f[k].offset /\ line.key = f[k].key
  <2>1. line = MapOf(f[k])
    BY <1>4 DEF MapOf
  <2> HIDE DEF line
  <2>2. MapOf(f[k]) \in Lines /\ MapOf(f[k]).offset = f[k].offset /\ MapOf(f[k]).key = f[k].key
    BY <1>1, MapAndScalar
  <2> QED
    BY <2>1, <2>2
<1> HIDE DEF n, m, line
<1>6. E \in Seq(Lines) /\ Len(E) = Len(L) /\ E[i] = line /\ \A j \in 1 .. Len(L) : j # i => E[j] = L[j]
  BY <1>5, ExceptSeq
<1> HIDE DEF E
<1>7. \A j \in k + 1 .. N : i + j - k \in i + 1 .. Len(L) /\ E[i + j - k] = f[j]
  BY <1>1, <1>3, <1>6
<1>8. m \in i + 1 .. Len(L) + 1 /\ m = i + n - k
  BY <1>1, <1>2, <1>3 DEF m
<1>9. DOMAIN E = 1 .. Len(L)
  BY <1>6, LenProperties
<1>10. m <= Len(E) => m \in Filled(E)
  <2> SUFFICES ASSUME m <= Len(E) PROVE m \in Filled(E)
    OBVIOUS
  <2>1. n \in k + 1 .. N /\ n \in Filled(f)
    BY <1>1, <1>2, <1>3, <1>6, <1>8
  <2>2. E[m] = f[n] /\ m \in 1 .. Len(L)
    BY <1>3, <1>7, <1>8, <2>1
  <2>3. ~IsEmpty(f[n])
    BY <2>1 DEF Filled
  <2> QED
    BY <1>9, <2>2, <2>3 DEF Filled
<1>11. \A j \in i + 1 .. m - 1 : j \notin Filled(E)
  <2> TAKE j \in i + 1 .. m - 1
  <2> DEFINE l == k + j - i
  <2>1. l \in k + 1 .. n - 1 /\ l \in k + 1 .. N /\ i + l - k = j /\ l \in 1 .. N
    BY <1>1, <1>2, <1>3, <1>8
  <2>2. DOMAIN f = 1 .. N
    BY FilledLines
  <2> HIDE DEF l
  <2>3. E[j] = f[l] /\ l \notin Filled(f)
    BY <1>2, <1>7, <2>1
  <2>4. IsEmpty(f[l])
    BY <2>1, <2>2, <2>3 DEF Filled
  <2> QED
    BY <2>3, <2>4 DEF Filled
<1>12. /\ C \in Seq(Lines) /\ Len(C) = i + N + 1 - n
       /\ \A j \in 1 .. i - 1 : C[j] = L[j]
       /\ C[i] = line
       /\ \A j \in n .. N : C[i + 1 + j - n] = f[j]
  <2> DEFINE h == i + 1
             R == ClearEmpty(E, h)
  <2>1. h \in 1 .. Len(E) + 1 /\ m \in h .. Len(E) + 1 /\ h = i + 1
    BY <1>3, <1>6, <1>8
  <2> HIDE DEF h, C
  <2>2. \A j \in h .. m - 1 : j \notin Filled(E)
    BY <1>11, <2>1
  <2>3. /\ R \in Seq(Lines) /\ Len(R) = (h - 1) + (Len(E) + 1 - m)
        /\ \A j \in 1 .. h - 1 : R[j] = E[j]
        /\ \A j \in m .. Len(E) : R[h + j - m] = E[j]
    BY <1>6, <1>10, <2>1, <2>2, ClearIs
  <2>4. R = C
    BY <2>1 DEF C
  <2> HIDE DEF R
  <2>5. Len(R) = i + N + 1 - n
    <3>1. i \in Nat /\ k \in Nat /\ N \in Nat /\ n \in Nat
      BY <1>1, <1>2, <1>3
    <3>2. Len(R) = (h - 1) + (Len(E) + 1 - m) /\ Len(E) = i + N - k /\ m = i + n - k
      BY <1>3, <1>6, <1>8, <2>3
    <3> QED
      BY <2>1, <3>1, <3>2
  <2>6. \A j \in 1 .. i - 1 : R[j] = L[j]
    BY <1>3, <1>6, <2>1, <2>3
  <2>7. R[i] = line
    BY <1>3, <1>6, <2>1, <2>3
  <2>8. \A j \in n .. N : R[i + 1 + j - n] = f[j]
    <3> TAKE j \in n .. N
    <3> DEFINE l == i + j - k
    <3>1. j \in k + 1 .. N /\ j \in Nat /\ n \in Nat /\ k \in Nat /\ n <= j /\ j <= N
      BY <1>1, <1>2
    <3>2. l \in m .. Len(E)
      BY <1>1, <1>3, <1>6, <1>8, <3>1
    <3>3. h + l - m = i + 1 + j - n
      BY <1>3, <1>8, <2>1, <3>1
    <3>4. E[l] = f[j]
      BY <1>7, <3>1
    <3> HIDE DEF l
    <3>5. R[h + l - m] = E[l]
      BY <2>3, <3>2
    <3> QED
      BY <3>3, <3>4, <3>5
  <2> QED
    BY <2>3, <2>4, <2>5, <2>6, <2>7, <2>8
<1> HIDE DEF C
<1>13. (i < Len(C) /\ C[i + 1].offset > line.offset) <=> ~Leaf(f, k)
  <2>1. i < Len(C) <=> n <= N
    BY <1>1, <1>2, <1>3, <1>12
  <2>2. n <= N => C[i + 1] = f[n]
    <3> SUFFICES ASSUME n <= N PROVE C[i + 1] = f[n]
      OBVIOUS
    <3>1. n \in n .. N /\ i + 1 + n - n = i + 1
      BY <1>1, <1>2, <1>3
    <3> QED
      BY <1>12, <3>1
  <2>3. n <= N => f[n].offset \in Nat
    BY <1>1, <1>2 DEF Lines
  <2>4. f[k].offset \in Nat
    BY <1>1 DEF Lines
  <2>5. Leaf(f, k) <=> n > N \/ f[n].offset <= f[k].offset
    BY DEF Leaf, n
  <2>6. CASE n <= N
    <3>1. ~(n > N)
      BY <1>1, <1>2, <2>6
    <3>2. f[n].offset > f[k].offset <=> ~(f[n].offset <= f[k].offset)
      BY <2>3, <2>4, <2>6
    <3> QED
      BY <1>5, <2>1, <2>2, <2>5, <2>6, <3>1, <3>2
  <2>7. CASE ~(n <= N)
    <3>1. n > N
      BY <1>1, <1>2, <2>7
    <3> QED
      BY <2>1, <2>5, <2>7, <3>1
  <2> QED
    BY <2>6, <2>7
<1> DEFINE scalar == Line(WidthOf[line.key] + 2 + IF L[i].value = Nothing THEN 0 ELSE line.offset,
                          Nothing, L[i].value, "scalar")
<1>14. MappingLine(L, i) =
         IF L[i].value = Nothing /\ (i < Len(C) /\ C[i + 1].offset > line.offset)
         THEN [lines |-> C, next |-> i + 1]
         ELSE ScalarLine(InsertAt(C, i + 1, scalar), i + 1)
  BY Zenon DEF MappingLine, C, E, line
<1>15. scalar = ScalarOf(f[k])
  BY <1>4, <1>5 DEF ScalarOf
<1> HIDE DEF scalar
<1>16. CASE ~Leaf(f, k)
  <2>1. L[i].value = Nothing
    BY <1>4, <1>16, ValuesAreLeaves
  <2>2. MappingLine(L, i) = [lines |-> C, next |-> i + 1] /\ Size(f, k) = 1
    BY <1>13, <1>14, <1>16, <2>1 DEF Size
  <2>3. Len(C) = i + 1 + N - n
    BY <1>1, <1>2, <1>3, <1>12
  <2> QED
    BY <1>5, <1>12, <1>16, <2>2, <2>3 DEF n
<1>17. CASE Leaf(f, k)
  <2> DEFINE h == i + 1
             M == InsertAt(C, h, scalar)
  <2>1. MappingLine(L, i) = ScalarLine(M, h) /\ Size(f, k) = 2
    <3>1. ~(i < Len(C) /\ C[i + 1].offset > line.offset)
      BY <1>13, <1>17
    <3>2. MappingLine(L, i) = ScalarLine(M, h)
      BY <1>14, <3>1, Zenon
    <3> QED
      BY <1>17, <3>2 DEF Size
  <2>2. h \in 1 .. Len(C) + 1 /\ h = i + 1 /\ scalar \in Lines
    <3>1. scalar \in Lines
      BY <1>1, <1>15, MapAndScalar
    <3> QED
      BY <1>1, <1>2, <1>3, <1>12, <3>1
  <2> HIDE DEF h
  <2>3. /\ M \in Seq(Lines) /\ Len(M) = Len(C) + 1
        /\ \A j \in 1 .. h - 1 : M[j] = C[j]
        /\ M[h] = scalar
        /\ \A j \in h .. Len(C) : M[j + 1] = C[j]
    <3>1. C \in Seq(Lines) /\ h \in 1 .. Len(C) + 1 /\ scalar \in Lines
      BY <1>12, <2>2
    <3>2. M \in Seq(Lines) /\ Len(M) = Len(C) + 1
      BY <3>1, InsertIs
    <3>3. \A j \in 1 .. h - 1 : M[j] = C[j]
      BY <3>1, InsertIs
    <3>4. M[h] = scalar
      BY <3>1, InsertIs
    <3>5. \A j \in h .. Len(C) : M[j + 1] = C[j]
      BY <3>1, InsertIs
    <3> QED
      BY <3>2, <3>3, <3>4, <3>5
  <2> HIDE DEF M
  <2>4. Len(M) = i + 2 + N - n
    BY <1>1, <1>2, <1>3, <1>12, <2>3
  <2>5. \A j \in 1 .. i - 1 : M[j] = L[j]
    BY <1>3, <1>12, <2>2, <2>3
  <2>6. M[i] = line
    BY <1>3, <1>12, <2>2, <2>3
  <2>7. \A j \in n .. N : M[i + 2 + j - n] = f[j]
    <3> TAKE j \in n .. N
    <3> DEFINE l == i + 1 + j - n
    <3>1. l \in h .. Len(C) /\ l + 1 = i + 2 + j - n
      BY <1>1, <1>2, <1>3, <1>12, <2>2
    <3>2. C[l] = f[j]
      BY <1>12
    <3> HIDE DEF l
    <3> QED
      BY <2>3, <3>1, <3>2
  <2>8. M[h] = [M[h] EXCEPT !.type = "scalar"]
    BY <1>1, <1>15, <2>3, MapAndScalar
  <2>9. h < Len(M) => h + 1 \in Filled(M) /\ M[h + 1].offset <= M[h - 1].offset
    <3> SUFFICES ASSUME h < Len(M) PROVE h + 1 \in Filled(M) /\ M[h + 1].offset <= M[h - 1].offset
      OBVIOUS
    <3>1. n \in n .. N /\ i + 2 + n - n = h + 1 /\ n \in Filled(f) /\ h - 1 = i
      BY <1>1, <1>2, <1>3, <2>2, <2>4
    <3>2. M[h + 1] = f[n] /\ ~IsEmpty(f[n])
      BY <2>7, <3>1 DEF Filled
    <3>3. h + 1 \in DOMAIN M
      BY <1>3, <2>2, <2>3, LenProperties
    <3>4. f[n].offset <= f[k].offset
      <4>1. ~(n > N)
        BY <1>1, <1>2, <3>1
      <4> QED
        BY <1>17, <4>1 DEF Leaf, n
    <3> QED
      BY <1>5, <2>6, <3>1, <3>2, <3>3, <3>4 DEF Filled
  <2>10. ScalarLine(M, h) = [lines |-> M, next |-> h + 1]
    <3>1. h \in 2 .. Len(M)
      BY <1>1, <1>2, <1>3, <2>2, <2>4
    <3> QED
      BY <2>3, <2>8, <2>9, <3>1, ScalarLineIs
  <2>11. MappingLine(L, i) = [lines |-> M, next |-> i + Size(f, k)]
    BY <1>3, <2>1, <2>2, <2>10
  <2>12. M[i + 1] = ScalarOf(f[k])
    BY <1>15, <2>2, <2>3
  <2>13. Size(f, k) = 2
    BY <2>1
  <2> QED
    BY <1>5, <2>3, <2>4, <2>5, <2>6, <2>7, <2>11, <2>12, <2>13 DEF n
<1> QED
  BY <1>16, <1>17

(* The places of the lines with a name before k in what is processed. *)
Places(f, pos, k) ==
  /\ pos \in [1 .. Len(f) + 1 -> Nat] /\ pos[1] = 1
  /\ \A j \in Filled(f), l \in Filled(f) \cup {Len(f) + 1} :
       j < l /\ l <= k => pos[j] + Size(f, j) <= pos[l]
  /\ \A j \in Filled(f) :
       j < k => NextLine(f, j) <= k /\ pos[NextLine(f, j)] = pos[j] + Size(f, j)

(* What is at those places. *)
Placed(f, L, pos, k) ==
  \A j \in Filled(f) :
    j < k => L[pos[j]] = MapOf(f[j]) /\ (Leaf(f, j) => L[pos[j] + 1] = ScalarOf(f[j]))

(* The lines that are processed up to k, with the others as they were. *)
Spread(f, L, pos, k) ==
  /\ k \in Filled(f) \cup {Len(f) + 1} /\ L \in Seq(Lines) /\ Len(L) = pos[k] + Len(f) - k
  /\ Places(f, pos, k) /\ Placed(f, L, pos, k)
  /\ \A j \in k .. Len(f) : L[pos[k] + j - k] = f[j]

(* The first place is the first line's. *)
LEMMA PlacesCount ==
  ASSUME NEW f, NEW d, Shaped(f, d), NEW pos, NEW k \in Filled(f) \cup {Len(f) + 1}, Places(f, pos, k),
         NEW j \in Filled(f) \cup {Len(f) + 1}, j <= k
  PROVE  pos[j] \in Nat \ {0}
<1>1. Len(f) \in Nat /\ Filled(f) \in SUBSET (1 .. Len(f)) /\ 1 \in Filled(f)
  BY FilledLines
<1>2. j \in 1 .. Len(f) + 1 /\ pos[j] \in Nat /\ pos[1] = 1
  BY <1>1 DEF Places
<1>3. CASE j = 1
  BY <1>2, <1>3
<1>4. CASE j # 1
  <2>1. 1 < j
    BY <1>2, <1>4
  <2>2. pos[1] + Size(f, 1) <= pos[j]
    BY <1>1, <2>1 DEF Places
  <2> QED
    BY <1>2, <2>2 DEF Size
<1> QED
  BY <1>3, <1>4

(* A round takes the lines up to the next one with a name. *)
LEMMA RoundMoves ==
  ASSUME NEW f, NEW d, Shaped(f, d), NEW k \in Filled(f), NEW L, NEW pos, Spread(f, L, pos, k)
  PROVE  \E M, at :
           /\ Round([lines |-> L, next |-> pos[k]]) = [lines |-> M, next |-> at[NextLine(f, k)]]
           /\ Spread(f, M, at, NextLine(f, k))
<1> DEFINE N == Len(f)
           n == NextLine(f, k)
           i == pos[k]
           z == Size(f, k)
           at == [pos EXCEPT ![n] = i + z]
<1>1. /\ N \in Nat /\ k \in 1 .. N /\ f[k].key # Nothing
      /\ Filled(f) \in SUBSET (1 .. N)
  BY FilledLines
<1>2. n \in k + 1 .. N + 1 /\ (n <= N => n \in Filled(f)) /\ \A j \in k + 1 .. n - 1 : j \notin Filled(f)
  BY <1>1, NextOf
<1>3. Places(f, pos, k) /\ Placed(f, L, pos, k) /\ L \in Seq(Lines) /\ Len(L) = i + N - k
      /\ \A j \in k .. N : L[i + j - k] = f[j]
  BY DEF Spread
<1>4. i \in Nat \ {0} /\ z \in {1, 2} /\ i \in Nat
  <2>1. k <= k
    BY <1>1
  <2> QED
    BY <1>3, <2>1, PlacesCount DEF Size
<1>5. i \in 1 .. Len(L)
  BY <1>1, <1>3, <1>4
<1> HIDE DEF i, n
<1>6. PICK M \in Seq(Lines) :
        /\ MappingLine(L, i) = [lines |-> M, next |-> i + z]
        /\ Len(M) = i + z + N - n
        /\ \A j \in 1 .. i - 1 : M[j] = L[j]
        /\ M[i] = MapOf(f[k])
        /\ Leaf(f, k) => M[i + 1] = ScalarOf(f[k])
        /\ \A j \in n .. N : M[i + z + j - n] = f[j]
  BY <1>3, <1>5, MappingLineIs DEF n
<1> HIDE DEF z
<1>7. Round([lines |-> L, next |-> i]) = [lines |-> M, next |-> i + z]
  <2>1. ~(i > Len(L))
    BY <1>5
  <2>2. L[i] = f[k]
    <3>1. k \in k .. N /\ i + k - k = i
      BY <1>1, <1>4
    <3> QED
      BY <1>3, <3>1
  <2>3. Round([lines |-> L, next |-> i]) = MappingLine(L, i)
    BY <1>1, <2>1, <2>2 DEF Round
  <2> QED
    BY <1>6, <2>3
<1>8. /\ at \in [1 .. N + 1 -> Nat] /\ at[n] = i + z
      /\ \A j \in 1 .. N + 1 : j # n => at[j] = pos[j]
  <2>1. pos \in [1 .. N + 1 -> Nat]
    BY <1>3 DEF Places
  <2>2. i + z \in Nat /\ n \in 1 .. N + 1
    BY <1>1, <1>2, <1>4
  <2> QED
    BY <2>1, <2>2
<1> HIDE DEF at
<1>9. \A j \in Filled(f) : j < n => j <= k
  BY <1>1, <1>2
<1>10. Places(f, at, n)
  <2>1. at[1] = 1
    BY <1>1, <1>2, <1>3, <1>8 DEF Places
  <2>2. ASSUME NEW j \in Filled(f), NEW l \in Filled(f) \cup {N + 1}, j < l, l <= n
        PROVE  at[j] + Size(f, j) <= at[l]
    <3>1. j <= k /\ j \in 1 .. N /\ l \in 1 .. N + 1 /\ j # n /\ at[j] = pos[j]
      BY <1>1, <1>2, <1>8, <1>9, <2>2
    <3>2. pos[j] \in Nat /\ Size(f, j) \in {1, 2}
      BY <1>3, <3>1 DEF Places, Size
    <3>3. CASE l = n
      <4>1. CASE j = k
        BY <1>4, <1>8, <3>1, <3>3, <4>1 DEF i, z
      <4>2. CASE j # k
        <5>1. j < k /\ k <= k
          BY <1>1, <3>1, <4>2
        <5>2. pos[j] + Size(f, j) <= i
          BY <1>3, <5>1 DEF Places, i
        <5> QED
          BY <1>4, <1>8, <3>1, <3>2, <3>3, <5>2
      <4> QED
        BY <4>1, <4>2
    <3>4. CASE l # n
      <4>1. l \in Filled(f) /\ l <= k
        BY <1>1, <1>2, <1>9, <2>2, <3>1, <3>4
      <4>2. pos[j] + Size(f, j) <= pos[l]
        BY <1>3, <2>2, <4>1 DEF Places
      <4> QED
        BY <1>8, <3>1, <3>4, <4>2
    <3> QED
      BY <3>3, <3>4
  <2>3. ASSUME NEW j \in Filled(f), j < n
        PROVE  NextLine(f, j) <= n /\ at[NextLine(f, j)] = at[j] + Size(f, j)
    <3>1. j <= k /\ j \in 1 .. N /\ j # n /\ at[j] = pos[j]
      BY <1>1, <1>2, <1>8, <1>9, <2>3
    <3>2. CASE j = k
      <4>1. NextLine(f, j) = n
        BY <3>2 DEF n
      <4> QED
        BY <1>1, <1>2, <1>8, <3>1, <3>2, <4>1 DEF i, z
    <3>3. CASE j # k
      <4>1. j < k
        BY <1>1, <3>1, <3>3
      <4>2. NextLine(f, j) <= k /\ pos[NextLine(f, j)] = pos[j] + Size(f, j)
        BY <1>3, <4>1 DEF Places
      <4>3. NextLine(f, j) \in j + 1 .. N + 1
        BY <3>1, NextOf
      <4>4. NextLine(f, j) \in 1 .. N + 1 /\ NextLine(f, j) # n /\ NextLine(f, j) <= n
        BY <1>1, <1>2, <3>1, <4>2, <4>3
      <4> QED
        BY <1>8, <3>1, <4>2, <4>4
    <3> QED
      BY <3>2, <3>3
  <2> QED
    BY <1>8, <2>1, <2>2, <2>3 DEF Places
<1>11. Placed(f, M, at, n)
  <2> SUFFICES ASSUME NEW j \in Filled(f), j < n
               PROVE  M[at[j]] = MapOf(f[j]) /\ (Leaf(f, j) => M[at[j] + 1] = ScalarOf(f[j]))
    BY DEF Placed
  <2>1. j <= k /\ j \in 1 .. N /\ j # n /\ at[j] = pos[j]
    BY <1>1, <1>2, <1>8, <1>9
  <2>2. CASE j = k
    BY <1>6, <2>1, <2>2 DEF i
  <2>3. CASE j # k
    <3>1. j < k /\ k <= k /\ j <= k
      BY <1>1, <2>1, <2>3
    <3>2. pos[j] + Size(f, j) <= i
      BY <1>3, <3>1 DEF Places, i
    <3>3. pos[j] \in Nat \ {0} /\ Size(f, j) \in {1, 2}
      BY <1>3, <3>1, PlacesCount DEF Size
    <3>4. pos[j] \in 1 .. i - 1
      BY <1>4, <3>2, <3>3
    <3>5. Leaf(f, j) => pos[j] + 1 \in 1 .. i - 1
      <4>1. Leaf(f, j) => Size(f, j) = 2
        BY DEF Size
      <4> QED
        BY <1>4, <3>2, <3>3, <4>1
    <3>6. L[pos[j]] = MapOf(f[j]) /\ (Leaf(f, j) => L[pos[j] + 1] = ScalarOf(f[j]))
      BY <1>3, <3>1 DEF Placed
    <3>7. M[pos[j]] = L[pos[j]]
      BY <1>6, <3>4
    <3>8. Leaf(f, j) => M[pos[j] + 1] = L[pos[j] + 1]
      BY <1>6, <3>5
    <3> QED
      BY <2>1, <3>6, <3>7, <3>8
  <2> QED
    BY <2>2, <2>3
<1>12. n \in Filled(f) \cup {N + 1}
  BY <1>1, <1>2
<1>13. Len(M) = at[n] + N - n /\ \A j \in n .. N : M[at[n] + j - n] = f[j]
  BY <1>6, <1>8
<1>14. Spread(f, M, at, n)
  BY <1>6, <1>10, <1>11, <1>12, <1>13 DEF Spread
<1>15. Round([lines |-> L, next |-> pos[k]]) = [lines |-> M, next |-> at[n]]
  BY <1>7, <1>8 DEF i
<1> QED
  BY <1>14, <1>15 DEF n

(* The rounds there are. *)
LEMMA RoundsExist ==
  ASSUME NEW a, NEW m \in Nat
  PROVE  \E g : g = [n \in 0 .. m |-> IF n = 0 THEN a ELSE Round(g[n - 1])]
<1> DEFINE S == {p \in Nat : \E g : g = [n \in 0 .. p |-> IF n = 0 THEN a ELSE Round(g[n - 1])]}
<1>1. 0 \in S
  <2> DEFINE g == [n \in 0 .. 0 |-> a]
  <2>1. g = [n \in 0 .. 0 |-> IF n = 0 THEN a ELSE Round(g[n - 1])]
    OBVIOUS
  <2> QED
    BY <2>1
<1>2. ASSUME NEW p \in S PROVE p + 1 \in S
  <2>1. PICK g : g = [n \in 0 .. p |-> IF n = 0 THEN a ELSE Round(g[n - 1])]
    OBVIOUS
  <2> DEFINE h == [n \in 0 .. p + 1 |-> IF n = p + 1 THEN Round(g[p]) ELSE g[n]]
  <2>2. p \in Nat
    OBVIOUS
  <2> HIDE DEF S
  <2>3. \A n \in 0 .. p + 1 : h[n] = IF n = 0 THEN a ELSE Round(h[n - 1])
    <3> TAKE n \in 0 .. p + 1
    <3>1. CASE n = 0
      <4>1. g[0] = a
        BY <2>1, <2>2
      <4> QED
        BY <2>2, <3>1, <4>1
    <3>2. CASE n \in 1 .. p
      <4>1. g[n] = Round(g[n - 1])
        BY <2>1, <2>2, <3>2
      <4>2. n - 1 \in 0 .. p + 1 /\ n - 1 # p + 1 /\ n # p + 1
        BY <2>2, <3>2
      <4> QED
        BY <3>2, <4>1, <4>2
    <3>3. CASE n = p + 1
      <4>1. n - 1 \in 0 .. p + 1 /\ n - 1 = p /\ p # p + 1 /\ n # 0
        BY <2>2, <3>3
      <4> QED
        BY <3>3, <4>1
    <3> QED
      BY <2>2, <3>1, <3>2, <3>3
  <2>4. h = [n \in 0 .. p + 1 |-> h[n]]
    OBVIOUS
  <2> HIDE DEF h
  <2>5. h = [n \in 0 .. p + 1 |-> IF n = 0 THEN a ELSE Round(h[n - 1])]
    BY <2>3, <2>4, Zenon
  <2> QED
    BY <2>2, <2>5 DEF S
<1> HIDE DEF S
<1>3. S \in SUBSET Nat
  BY DEF S
<1>4. S = Nat
  BY <1>1, <1>2, <1>3, Induction
<1> QED
  BY <1>4 DEF S

(* The file from its first line that is not empty is the file. *)
LEMMA ReadWhole ==
  ASSUME NEW f, NEW d, Shaped(f, d)
  PROVE  ReadLines(f) = f
<1>1. Len(f) \in Nat /\ Filled(f) \in SUBSET (1 .. Len(f)) /\ 1 \in Filled(f)
  BY FilledLines
<1>2. \A k \in Filled(f) : 1 <= k
  BY <1>1
<1>3. FirstOf(Filled(f), f) = 1
  BY <1>1, <1>2, FirstIs
<1>4. f \in Seq(Lines)
  BY DEF Shaped
<1> QED
  BY <1>3, <1>4, SubSeqFull DEF ReadLines

(* What the rounds make of a file. *)
LEMMA PostProcessIs ==
  ASSUME NEW f, NEW d, Shaped(f, d)
  PROVE  \E pos : Spread(f, PostProcess(f), pos, Len(f) + 1)
<1> DEFINE N == Len(f)
           a == [lines |-> f, next |-> 1]
           after == CHOOSE g : g = [n \in 0 .. N |-> IF n = 0 THEN a ELSE Round(g[n - 1])]
           Reached(n) == \E k, L, pos : /\ Spread(f, L, pos, k) /\ after[n] = [lines |-> L, next |-> pos[k]]
                                        /\ k > n \/ k = N + 1
           S == {n \in Nat : n <= N => Reached(n)}
<1>1. N \in Nat /\ Filled(f) \in SUBSET (1 .. N) /\ 1 \in Filled(f) /\ f \in Seq(Lines)
  BY FilledLines DEF Shaped
<1>2. after = [n \in 0 .. N |-> IF n = 0 THEN a ELSE Round(after[n - 1])]
  <2>1. \E g : g = [n \in 0 .. N |-> IF n = 0 THEN a ELSE Round(g[n - 1])]
    BY <1>1, RoundsExist
  <2> QED
    BY <2>1, Zenon
<1>3. PostProcess(f) = after[N].lines
  BY DEF PostProcess
<1> HIDE DEF after
<1>4. after[0] = a /\ \A n \in 1 .. N : after[n] = Round(after[n - 1])
  BY <1>1, <1>2
<1>5. Reached(0)
  <2> DEFINE pos == [j \in 1 .. N + 1 |-> 1]
  <2>1. pos \in [1 .. N + 1 -> Nat] /\ pos[1] = 1
    BY <1>1
  <2>2. \A j \in Filled(f), l \in Filled(f) \cup {N + 1} : ~(j < l /\ l <= 1)
    BY <1>1
  <2>3. \A j \in Filled(f) : ~(j < 1)
    BY <1>1
  <2> HIDE DEF pos
  <2>4. Places(f, pos, 1) /\ Placed(f, f, pos, 1)
    BY <2>1, <2>2, <2>3 DEF Places, Placed
  <2>5. Len(f) = pos[1] + N - 1 /\ \A j \in 1 .. N : f[pos[1] + j - 1] = f[j]
    <3>1. \A j \in 1 .. N : pos[1] + j - 1 = j
      BY <2>1
    <3> QED
      BY <1>1, <2>1, <3>1
  <2>6. Spread(f, f, pos, 1)
    BY <1>1, <2>4, <2>5 DEF Spread
  <2>7. after[0] = [lines |-> f, next |-> pos[1]] /\ 1 > 0
    BY <1>4, <2>1
  <2> QED
    BY <2>6, <2>7
<1>6. ASSUME NEW n \in 1 .. N, Reached(n - 1)
      PROVE  Reached(n)
  <2>1. PICK k, L, pos : /\ Spread(f, L, pos, k) /\ after[n - 1] = [lines |-> L, next |-> pos[k]]
                         /\ k > n - 1 \/ k = N + 1
    BY <1>6
  <2>2. after[n] = Round([lines |-> L, next |-> pos[k]])
    BY <1>4, <2>1
  <2>3. k \in Filled(f) \cup {N + 1}
    BY <2>1 DEF Spread
  <2>4. CASE k \in Filled(f)
    <3>1. PICK M, at : /\ Round([lines |-> L, next |-> pos[k]]) = [lines |-> M, next |-> at[NextLine(f, k)]]
                       /\ Spread(f, M, at, NextLine(f, k))
      BY <2>1, <2>4, RoundMoves
    <3>2. NextLine(f, k) > n
      <4>1. k \in 1 .. N /\ NextLine(f, k) \in k + 1 .. N + 1
        BY <1>1, <2>4, NextOf
      <4> QED
        BY <1>1, <2>1, <4>1
    <3> QED
      BY <2>2, <3>1, <3>2
  <2>5. CASE k = N + 1
    <3>1. N + 1 <= N + 1 /\ N + 1 \in Filled(f) \cup {N + 1}
      BY <1>1
    <3>2. pos[k] \in Nat \ {0} /\ Len(L) = pos[k] + N - (N + 1)
      BY <2>1, <2>5, <3>1, PlacesCount DEF Spread
    <3>3. pos[k] > Len(L)
      BY <1>1, <3>2
    <3>4. Round([lines |-> L, next |-> pos[k]]) = [lines |-> L, next |-> pos[k]]
      BY <3>3 DEF Round
    <3> QED
      BY <2>1, <2>2, <2>5, <3>4
  <2> QED
    BY <2>3, <2>4, <2>5
<1> HIDE DEF Reached
<1>7. 0 \in S
  BY <1>5
<1>8. \A n \in S : n + 1 \in S
  <2> TAKE n \in S
  <2>1. n \in Nat /\ (n <= N => Reached(n)) /\ n + 1 \in Nat
    OBVIOUS
  <2>2. ASSUME n + 1 <= N PROVE Reached(n + 1)
    <3>1. n + 1 \in 1 .. N /\ (n + 1) - 1 = n /\ n <= N
      BY <1>1, <2>1, <2>2
    <3> DEFINE p == n + 1
    <3>2. p \in 1 .. N /\ Reached(p - 1)
      BY <2>1, <3>1
    <3> HIDE DEF p
    <3>3. Reached(p)
      BY <1>6, <3>2
    <3> QED
      BY <3>3 DEF p
  <2> QED
    BY <2>1, <2>2
<1>9. N \in S
  <2> HIDE DEF S
  <2>1. S \in SUBSET Nat
    BY DEF S
  <2>2. S = Nat
    BY <1>7, <1>8, <2>1, Induction
  <2> QED
    BY <1>1, <2>2
<1>10. Reached(N)
  BY <1>1, <1>9
<1>11. PICK k, L, pos : /\ Spread(f, L, pos, k) /\ after[N] = [lines |-> L, next |-> pos[k]]
                        /\ k > N \/ k = N + 1
  BY <1>10 DEF Reached
<1>12. k = N + 1
  <2>1. k \in Filled(f) \cup {N + 1}
    BY <1>11 DEF Spread
  <2> QED
    BY <1>1, <1>11, <2>1
<1>13. PostProcess(f) = L
  BY <1>3, <1>11
<1> QED
  BY <1>11, <1>12, <1>13

-------------------------------------------------------------------------------
(* The parser                                                                 *)

(* Where the lines with a name are once all are processed, and what follows   *)
(* each.                                                                      *)
LEMMA SpreadWhole ==
  ASSUME NEW f, NEW d, Shaped(f, d), NEW L, NEW pos, Spread(f, L, pos, Len(f) + 1),
         NEW k \in Filled(f)
  PROVE  /\ Len(L) \in Nat /\ pos[k] \in 1 .. Len(L) - 1 /\ pos[Len(f) + 1] = Len(L) + 1
         /\ \A l \in Filled(f) \cup {Len(f) + 1} : k < l => pos[k] < pos[l]
         /\ \A l \in Filled(f) \cup {Len(f) + 1} : pos[l] \in Nat
         /\ pos[NextLine(f, k)] = pos[k] + Size(f, k)
         /\ L[pos[k]] = MapOf(f[k])
         /\ Leaf(f, k) => L[pos[k] + 1] = ScalarOf(f[k])
         /\ ~Leaf(f, k) => L[pos[k] + 1] = MapOf(f[NextLine(f, k)])
<1> DEFINE N == Len(f)
           e == Len(f) + 1
           n == NextLine(f, k)
<1>1. N \in Nat /\ k \in 1 .. N /\ Filled(f) \in SUBSET (1 .. N) /\ e \in Nat /\ k < e /\ e = N + 1
  BY FilledLines
<1>2. Places(f, pos, e) /\ Placed(f, L, pos, e) /\ Len(L) = pos[e] + N - e /\ L \in Seq(Lines)
  BY DEF Spread
<1>3. Len(L) \in Nat
  BY <1>2, LenProperties
<1>4. \A l \in Filled(f) \cup {e} : pos[l] \in Nat \ {0}
  <2> TAKE l \in Filled(f) \cup {e}
  <2>1. e \in Filled(f) \cup {Len(f) + 1} /\ l \in Filled(f) \cup {Len(f) + 1} /\ l <= e
    BY <1>1
  <2> HIDE DEF e
  <2> QED
    BY <1>2, <2>1, PlacesCount
<1>5. n \in k + 1 .. e /\ (n <= N => n \in Filled(f)) /\ n \in Filled(f) \cup {e}
  <2>1. n \in k + 1 .. e /\ (n <= N => n \in Filled(f))
    BY <1>1, NextOf
  <2> QED
    BY <1>1, <2>1
<1>6. pos[e] = Len(L) + 1
  <2>1. pos[e] \in Nat
    BY <1>4
  <2> HIDE DEF e
  <2> QED
    BY <1>1, <1>2, <1>3, <2>1
<1>7. Size(f, k) \in {1, 2} /\ (Leaf(f, k) => Size(f, k) = 2) /\ (~Leaf(f, k) => Size(f, k) = 1)
  BY DEF Size
<1>8. \A l \in Filled(f) \cup {e} : k < l => pos[k] + Size(f, k) <= pos[l]
  <2> TAKE l \in Filled(f) \cup {e}
  <2> HAVE k < l
  <2>1. l <= e
    BY <1>1
  <2> QED
    BY <1>2, <2>1 DEF Places
<1>9. \A l \in Filled(f) \cup {e} : k < l => pos[k] < pos[l]
  <2> TAKE l \in Filled(f) \cup {e}
  <2> HAVE k < l
  <2>1. pos[k] + Size(f, k) <= pos[l] /\ pos[l] \in Nat /\ pos[k] \in Nat
    BY <1>4, <1>8
  <2> HIDE DEF e
  <2> QED
    BY <1>7, <2>1
<1>10. pos[k] \in 1 .. Len(L) - 1 + 1
  <2>1. pos[k] < pos[e] /\ pos[k] \in Nat \ {0}
    BY <1>1, <1>4, <1>9
  <2> HIDE DEF e
  <2> QED
    BY <1>3, <1>6, <2>1
<1>11. pos[n] = pos[k] + Size(f, k)
  BY <1>1, <1>2 DEF Places
<1>12. L[pos[k]] = MapOf(f[k]) /\ (Leaf(f, k) => L[pos[k] + 1] = ScalarOf(f[k]))
  BY <1>1, <1>2 DEF Placed
<1>13. ASSUME ~Leaf(f, k)
       PROVE  n \in Filled(f) /\ n < e /\ L[pos[k] + 1] = MapOf(f[n]) /\ pos[k] + 1 < pos[e]
  <2>1. n \in Filled(f) /\ n < e
    BY <1>1, <1>13, ValuesAreLeaves
  <2>2. L[pos[n]] = MapOf(f[n])
    BY <1>2, <2>1 DEF Placed
  <2>3. pos[n] + Size(f, n) <= pos[e] /\ pos[n] \in Nat /\ Size(f, n) \in {1, 2} /\ pos[e] \in Nat
    <3>1. pos[n] + Size(f, n) <= pos[e]
      <4>1. e <= e /\ e \in Filled(f) \cup {Len(f) + 1}
        BY <1>1
      <4> QED
        BY <1>2, <2>1, <4>1 DEF Places
    <3>2. pos[n] \in Nat /\ pos[e] \in Nat
      BY <1>4, <1>5
    <3> QED
      BY <3>1, <3>2 DEF Size
  <2>4. pos[n] = pos[k] + 1
    BY <1>7, <1>11, <1>13
  <2>5. pos[k] \in Nat
    BY <1>4
  <2> HIDE DEF e, n
  <2> QED
    BY <2>1, <2>2, <2>3, <2>4, <2>5
<1>14. pos[k] + 1 < pos[e]
  <2>1. CASE Leaf(f, k)
    <3>1. pos[k] + 2 <= pos[e]
      BY <1>1, <1>7, <1>8, <2>1
    <3>2. pos[k] \in Nat /\ pos[e] \in Nat
      BY <1>4
    <3> HIDE DEF e
    <3> QED
      BY <3>1, <3>2
  <2> QED
    BY <1>13, <2>1
<1>15. pos[k] \in 1 .. Len(L) - 1
  <2> HIDE DEF e
  <2> QED
    BY <1>3, <1>6, <1>10, <1>14
<1> QED
  BY <1>3, <1>4, <1>6, <1>9, <1>11, <1>12, <1>13, <1>15

(* What is read as the value of a name that has nothing below it. *)
ValueOf(line) == IF line.value = Nothing THEN LineEnd ELSE line.value

(* The assignments there may be. *)
Made == [path : Seq(Names), value : Texts \cup {LineEnd}]

(* The assignment that line j makes below path. *)
Item(f, j, path) == [path |-> Append(path, f[j].key), value |-> ValueOf(f[j])]

(* The line made for the value of line j is not further right than its name.  *)
Tight(f, j) ==
  /\ Leaf(f, j) /\ f[j].value = Nothing
  /\ f[j].offset >= WidthOf[f[j].key] + 2

(* The assignments of the lines from k to e. *)
Covers(f, made, k, e) ==
  /\ made \in Seq(Made)
  /\ \A n \in 1 .. Len(made) : \E j \in Filled(f), p \in Seq(Names) :
       k <= j /\ j < e /\ Leaf(f, j) /\ At(f, j, p) /\ made[n] = Item(f, j, p)
  /\ \A j \in Filled(f) : k <= j /\ j < e /\ Leaf(f, j) =>
       \E n \in 1 .. Len(made), p \in Seq(Names) : At(f, j, p) /\ made[n] = Item(f, j, p)

(* A name among the lines from k to e makes the parser refuse the file. *)
AnyTight(f, k, e) == \E j \in Filled(f) : k <= j /\ j < e /\ Tight(f, j)

(* What the parser makes of the lines from k to e. *)
Outcome(f, pos, res, k, e) ==
  \/ AnyTight(f, k, e) /\ res = Refused
  \/ ~AnyTight(f, k, e) /\ \E made : Covers(f, made, k, e) /\ res = Parsed(made, pos[e])

(* The lines from k on that are as deep or deeper end before e. *)
Ends(f, k, e) ==
  /\ e \in Filled(f) \cup {Len(f) + 1} /\ k < e
  /\ e = Len(f) + 1 \/ Level(f[e]) < Level(f[k])
  /\ \A j \in Filled(f) : k <= j /\ j < e => Level(f[j]) >= Level(f[k])

(* The lines after k that are deeper end before e. *)
ChildEnds(f, k, e) ==
  /\ e \in Filled(f) \cup {Len(f) + 1} /\ k < e
  /\ e = Len(f) + 1 \/ Level(f[e]) <= Level(f[k])
  /\ \A j \in Filled(f) : k < j /\ j < e => Level(f[j]) > Level(f[k])

(* The lines as deep as line k end somewhere. *)
LEMMA EndsExist ==
  ASSUME NEW f, NEW d, Shaped(f, d), NEW k \in Filled(f)
  PROVE  \E e : Ends(f, k, e)
<1> DEFINE N == Len(f)
           T == {j \in Filled(f) : j > k /\ Level(f[j]) < Level(f[k])}
           e == FirstOf(T, f)
<1>1. N \in Nat /\ k \in 1 .. N /\ Filled(f) \in SUBSET (1 .. N)
  BY FilledLines
<1>2. T \in SUBSET (1 .. N)
  BY <1>1
<1> HIDE DEF T
<1>3. e \in T \cup {N + 1} /\ \A j \in T : e <= j
  BY <1>1, <1>2, FirstExists
<1> HIDE DEF e
<1>4. e \in Filled(f) \cup {N + 1} /\ k < e /\ (e = N + 1 \/ Level(f[e]) < Level(f[k]))
  BY <1>1, <1>3 DEF T
<1>5. \A j \in Filled(f) : k <= j /\ j < e => Level(f[j]) >= Level(f[k])
  <2> TAKE j \in Filled(f)
  <2> HAVE k <= j /\ j < e
  <2>1. j \notin T
    BY <1>1, <1>3, <1>4
  <2>2. Level(f[j]) \in 0 .. 2 /\ Level(f[k]) \in 0 .. 2
    BY LevelOf
  <2>3. CASE j = k
    BY <2>2, <2>3
  <2>4. CASE j # k
    <3>1. j > k
      BY <1>1, <2>4
    <3> QED
      BY <2>1, <2>2, <3>1 DEF T
  <2> QED
    BY <2>3, <2>4
<1> QED
  BY <1>4, <1>5 DEF Ends

(* The next line as deep as this one has the same path. *)
LEMMA SameLevel ==
  ASSUME NEW f, NEW d, Shaped(f, d), NEW k \in Filled(f), NEW e \in Filled(f), ChildEnds(f, k, e),
         Level(f[e]) = Level(f[k]), NEW path, At(f, k, path)
  PROVE  At(f, e, path)
<1>1. /\ Len(f) \in Nat /\ k \in 1 .. Len(f) /\ e \in 1 .. Len(f) /\ k < e /\ e # 1
      /\ Filled(f) = {i \in 1 .. Len(f) : f[i].key \in Names}
  BY FilledLines DEF ChildEnds
<1>2. Level(f[e]) \in 1 .. 2
  <2>1. Level(f[e]) \in 0 .. 2 /\ Level(f[e]) # 0
    BY <1>1, LevelOf
  <2> QED
    BY <2>1
<1>3. CASE Level(f[k]) = 1
  BY <1>3 DEF At
<1>4. CASE Level(f[k]) = 2
  <2>1. PICK s \in 1 .. Len(f) : Within(f, k, s) /\ path = <<Root, f[s].key>>
    BY <1>4 DEF At
  <2>2. \A j \in k + 1 .. e : f[j].key \notin Sections
    <3> SUFFICES ASSUME NEW j \in k + 1 .. e, f[j].key \in Sections PROVE FALSE
      OBVIOUS
    <3>1. j \in Filled(f)
      BY <1>1 DEF Names
    <3>2. Level(f[j]) = 1
      BY <3>1, LevelOf
    <3>3. j # e
      BY <1>4, <3>2
    <3>4. k < j /\ j < e
      BY <1>1, <3>3
    <3> QED
      BY <1>4, <3>1, <3>2, <3>4 DEF ChildEnds
  <2>3. Within(f, e, s)
    BY <1>1, <2>1, <2>2, WithinStays
  <2> QED
    BY <1>4, <2>1, <2>3 DEF At
<1> QED
  BY <1>2, <1>3, <1>4

(* What line j assigns. *)
LEMMA ItemIs ==
  ASSUME NEW f, NEW d, Shaped(f, d), NEW j \in Filled(f), NEW p \in Seq(Names)
  PROVE  Item(f, j, p) \in Made
<1>1. f[j] \in Lines /\ f[j].key \in Names
  BY FilledLines
<1>2. ValueOf(f[j]) \in Texts \cup {LineEnd}
  BY <1>1 DEF Lines, Given, ValueOf
<1>3. Append(p, f[j].key) \in Seq(Names)
  BY <1>1, AppendProperties
<1> QED
  BY <1>2, <1>3 DEF Item, Made

(* The value of a name that has nothing below it. *)
LEMMA LeafScalar ==
  ASSUME NEW f, NEW d, Shaped(f, d), NEW L, NEW pos, Spread(f, L, pos, Len(f) + 1),
         NEW k \in Filled(f), Leaf(f, k), NEW path \in Seq(Names), At(f, k, path)
  PROVE  /\ ChildEnds(f, k, NextLine(f, k))
         /\ Outcome(f, pos, ParseScalar(L, pos[k] + 1, Append(path, f[k].key)), k, NextLine(f, k))
<1> DEFINE N == Len(f)
           n == NextLine(f, k)
           i == pos[k] + 1
           M == Len(L)
<1>1. /\ N \in Nat /\ k \in 1 .. N /\ Filled(f) \in SUBSET (1 .. N)
      /\ f[k] \in Lines /\ f[k].key \in Names
  BY FilledLines
<1>2. n \in k + 1 .. N + 1 /\ (n <= N => n \in Filled(f)) /\ \A j \in k + 1 .. n - 1 : j \notin Filled(f)
  BY <1>1, NextOf
<1>3. n \in Filled(f) \cup {N + 1} /\ k < n
  BY <1>1, <1>2
<1>4. /\ M \in Nat /\ pos[k] \in 1 .. M - 1 /\ pos[N + 1] = M + 1
      /\ pos[n] = pos[k] + 2 /\ L[pos[k]] = MapOf(f[k]) /\ L[i] = ScalarOf(f[k])
  BY SpreadWhole DEF Size
<1>5. i \in 2 .. M /\ i - 1 = pos[k] /\ i # 1 /\ pos[n] = i + 1
  BY <1>4
<1> HIDE DEF i, n, M
<1>6. \A j \in Filled(f) : k < j => n <= j
  BY <1>1, <1>2
<1>7. ChildEnds(f, k, n)
  <2>1. n = N + 1 \/ Level(f[n]) <= Level(f[k])
    <3> SUFFICES ASSUME n # N + 1 PROVE Level(f[n]) <= Level(f[k])
      OBVIOUS
    <3>1. n <= N /\ n # 1 /\ n \in Filled(f) /\ ~(n > N)
      BY <1>1, <1>2
    <3>2. f[n].offset <= f[k].offset
      BY <3>1 DEF Leaf, n
    <3> QED
      BY <3>1, <3>2, OffsetsAreLevels
  <2>2. \A j \in Filled(f) : ~(k < j /\ j < n)
    BY <1>1, <1>2, <1>6
  <2> QED
    BY <1>3, <2>1, <2>2 DEF ChildEnds
<1>8. L[i].type = "scalar" /\ L[i].value = f[k].value /\ L[pos[k]].offset = f[k].offset
      /\ L[i].offset = WidthOf[f[k].key] + 2 + IF f[k].value = Nothing THEN 0 ELSE f[k].offset
  BY <1>1, <1>4, MapAndScalar
<1> DEFINE T == {j \in i .. M : L[j].type # "scalar"}
<1>9. FirstOf(T, L) = i + 1
  <2>1. T \in SUBSET (1 .. M) /\ \A j \in T : i + 1 <= j
    <3>1. i \notin T
      BY <1>8
    <3>2. T \in SUBSET (i .. M)
      OBVIOUS
    <3> HIDE DEF T
    <3> QED
      BY <1>4, <1>5, <3>1, <3>2
  <2>2. i + 1 \in T \cup {M + 1}
    <3>1. CASE n = N + 1
      BY <1>4, <1>5, <3>1
    <3>2. CASE n # N + 1
      <4>1. n \in Filled(f) /\ n <= N
        BY <1>1, <1>2, <3>2
      <4>2. pos[n] \in 1 .. M - 1 /\ L[pos[n]] = MapOf(f[n])
        BY <4>1, SpreadWhole DEF M
      <4>3. f[n] \in Lines /\ f[n].key \in Names
        BY <4>1, FilledLines
      <4>4. L[i + 1].type = "map"
        BY <1>5, <4>2, <4>3, MapAndScalar
      <4>5. i + 1 \in i .. M
        BY <1>4, <1>5, <4>2
      <4> QED
        BY <4>4, <4>5
    <3> QED
      BY <3>1, <3>2
  <2> HIDE DEF T
  <2> QED
    BY <1>4, <2>1, <2>2, FirstIs DEF M
<1> HIDE DEF T
<1>10. /\ WidthOf[f[k].key] \in Nat /\ f[k].offset \in Nat
  BY <1>1, ConfigAssumption DEF Lines
<1>11. Tight(f, k) <=> (L[pos[k]].offset # 0 /\ \E j \in i .. (i + 1) - 1 : L[j].offset <= L[pos[k]].offset)
  <2>1. i .. (i + 1) - 1 = {i}
    BY <1>5
  <2>2. Tight(f, k) <=> f[k].value = Nothing /\ f[k].offset >= WidthOf[f[k].key] + 2
    BY DEF Tight
  <2>3. CASE f[k].value = Nothing
    <3>1. L[i].offset = WidthOf[f[k].key] + 2
      BY <1>8, <1>10, <2>3
    <3>2. (\E j \in i .. (i + 1) - 1 : L[j].offset <= L[pos[k]].offset)
            <=> f[k].offset >= WidthOf[f[k].key] + 2
      BY <1>8, <1>10, <2>1, <3>1
    <3>3. f[k].offset >= WidthOf[f[k].key] + 2 => f[k].offset # 0
      BY <1>10
    <3>4. L[pos[k]].offset = f[k].offset
      BY <1>8
    <3>5. Tight(f, k) <=> f[k].offset >= WidthOf[f[k].key] + 2
      BY <2>2, <2>3
    <3> QED
      BY <3>2, <3>3, <3>4, <3>5, ZenonT(20)
  <2>4. CASE f[k].value # Nothing
    <3>1. L[i].offset = WidthOf[f[k].key] + 2 + f[k].offset
      BY <1>8, <1>10, <2>4
    <3>2. ~(L[i].offset <= L[pos[k]].offset)
      BY <1>8, <1>10, <3>1
    <3> QED
      BY <2>1, <2>2, <2>4, <3>2
  <2> QED
    BY <2>3, <2>4
<1> DEFINE here == Append(path, f[k].key)
           res == ParseScalar(L, i, here)
<1>12. res = IF Tight(f, k) THEN Refused ELSE Parsed(<<Item(f, k, path)>>, pos[n])
  <2>1. FirstOf({j \in i .. Len(L) : L[j].type # "scalar"}, L) = i + 1
    BY <1>9 DEF T, M
  <2>2. ~(i + 1 > i + 1)
    BY <1>5
  <2>3. Item(f, k, path) = [path |-> here, value |-> IF L[i].value = Nothing THEN LineEnd ELSE L[i].value]
    BY <1>8 DEF Item, ValueOf
  <2> HIDE DEF here
  <2> DEFINE value == IF L[i].value = Nothing THEN LineEnd ELSE L[i].value
             refused == L[pos[k]].offset # 0 /\ \E j \in i .. (i + 1) - 1 : L[j].offset <= L[pos[k]].offset
  <2>4. res = IF refused THEN Refused ELSE Parsed(<<[path |-> here, value |-> value]>>, i + 1)
    BY <1>5, <2>1, <2>2 DEF ParseScalar
  <2> HIDE DEF refused, value
  <2>5. refused <=> Tight(f, k)
    BY <1>11 DEF refused
  <2>6. Item(f, k, path) = [path |-> here, value |-> value]
    BY <2>3 DEF value
  <2> HIDE DEF res
  <2> QED
    BY <1>5, <2>4, <2>5, <2>6
<1> HIDE DEF res, here
<1>13. \A j \in Filled(f) : k <= j /\ j < n => j = k
  BY <1>1, <1>2, <1>6
<1>14. k <= k
  BY <1>1
<1>15. AnyTight(f, k, n) <=> Tight(f, k)
  BY <1>3, <1>13, <1>14 DEF AnyTight
<1>16. Covers(f, <<Item(f, k, path)>>, k, n)
  <2> DEFINE it == Item(f, k, path)
  <2>1. it \in Made
    BY ItemIs
  <2> HIDE DEF it
  <2>2. <<it>> \in Seq(Made) /\ Len(<<it>>) = 1 /\ <<it>>[1] = it
    BY <2>1
  <2> DEFINE made == <<it>>
  <2> HIDE DEF made
  <2>3. made \in Seq(Made) /\ Len(made) = 1 /\ made[1] = it
    BY <2>2 DEF made
  <2>4. \A m \in 1 .. Len(made) : \E j \in Filled(f), p \in Seq(Names) :
          k <= j /\ j < n /\ Leaf(f, j) /\ At(f, j, p) /\ made[m] = Item(f, j, p)
    <3> TAKE m \in 1 .. Len(made)
    <3>1. made[m] = Item(f, k, path)
      BY <2>3 DEF it
    <3> QED
      BY <1>3, <1>14, <3>1
  <2>5. \A j \in Filled(f) : k <= j /\ j < n /\ Leaf(f, j) =>
          \E m \in 1 .. Len(made), p \in Seq(Names) : At(f, j, p) /\ made[m] = Item(f, j, p)
    <3> TAKE j \in Filled(f)
    <3> HAVE k <= j /\ j < n /\ Leaf(f, j)
    <3>1. j = k
      BY <1>13
    <3>2. 1 \in 1 .. Len(made) /\ made[1] = Item(f, k, path)
      BY <2>3 DEF it
    <3> QED
      BY <3>1, <3>2
  <2>6. Covers(f, made, k, n)
    BY <2>3, <2>4, <2>5 DEF Covers
  <2> QED
    BY <2>6 DEF made, it
<1>17. Outcome(f, pos, res, k, n)
  BY <1>12, <1>15, <1>16 DEF Outcome
<1> QED
  BY <1>7, <1>17 DEF res, here, i, n

(* What is refused and what is not. *)
LEMMA RefusedOrNot ==
  /\ Refused.refused = TRUE
  /\ \A made, at : /\ Parsed(made, at).refused = FALSE
                   /\ Parsed(made, at).made = made /\ Parsed(made, at).at = at
BY DEF Refused, Parsed

(* Whether it was refused says which of the two an outcome is. *)
LEMMA OutcomeIs ==
  ASSUME NEW f, NEW pos, NEW res, NEW k, NEW e, Outcome(f, pos, res, k, e)
  PROVE  /\ res.refused \in BOOLEAN
         /\ res.refused => AnyTight(f, k, e) /\ res = Refused
         /\ ~res.refused => /\ ~AnyTight(f, k, e) /\ res.at = pos[e]
                            /\ Covers(f, res.made, k, e) /\ res = Parsed(res.made, res.at)
<1>1. CASE AnyTight(f, k, e) /\ res = Refused
  BY <1>1, RefusedOrNot
<1>2. CASE ~AnyTight(f, k, e) /\ \E made : Covers(f, made, k, e) /\ res = Parsed(made, pos[e])
  <2>1. PICK made : Covers(f, made, k, e) /\ res = Parsed(made, pos[e])
    BY <1>2
  <2> QED
    BY <1>2, <2>1, RefusedOrNot
<1> QED
  BY <1>1, <1>2 DEF Outcome

(* Nothing is assigned by a name with something below it. *)
LEMMA OutcomeBelow ==
  ASSUME NEW f, NEW d, Shaped(f, d), NEW k \in Filled(f), ~Leaf(f, k), NEW pos, NEW res, NEW e,
         Outcome(f, pos, res, NextLine(f, k), e)
  PROVE  Outcome(f, pos, res, k, e)
<1> DEFINE n == NextLine(f, k)
<1>1. k \in 1 .. Len(f) /\ Len(f) \in Nat /\ Filled(f) \in SUBSET (1 .. Len(f))
  BY FilledLines
<1>2. n \in k + 1 .. Len(f) + 1 /\ \A j \in k + 1 .. n - 1 : j \notin Filled(f)
  BY <1>1, NextOf
<1> HIDE DEF n
<1>3. \A j \in Filled(f) : Leaf(f, j) => (k <= j <=> n <= j)
  <2> TAKE j \in Filled(f)
  <2> HAVE Leaf(f, j)
  <2>1. j # k
    OBVIOUS
  <2>2. k < j => n <= j
    BY <1>1, <1>2
  <2> QED
    BY <1>1, <1>2, <2>1, <2>2
<1>4. \A j \in Filled(f) : Tight(f, j) => Leaf(f, j)
  BY DEF Tight
<1>5. AnyTight(f, k, e) <=> AnyTight(f, n, e)
  BY <1>3, <1>4 DEF AnyTight
<1>6. ASSUME NEW made, Covers(f, made, n, e) PROVE Covers(f, made, k, e)
  <2>1. made \in Seq(Made)
    BY <1>6 DEF Covers
  <2>2. \A m \in 1 .. Len(made) : \E j \in Filled(f), p \in Seq(Names) :
          k <= j /\ j < e /\ Leaf(f, j) /\ At(f, j, p) /\ made[m] = Item(f, j, p)
    <3> TAKE m \in 1 .. Len(made)
    <3>1. PICK j \in Filled(f), p \in Seq(Names) :
            n <= j /\ j < e /\ Leaf(f, j) /\ At(f, j, p) /\ made[m] = Item(f, j, p)
      BY <1>6 DEF Covers
    <3>2. k <= j
      BY <1>3, <3>1
    <3> QED
      BY <3>1, <3>2
  <2>3. \A j \in Filled(f) : k <= j /\ j < e /\ Leaf(f, j) =>
          \E m \in 1 .. Len(made), p \in Seq(Names) : At(f, j, p) /\ made[m] = Item(f, j, p)
    BY <1>3, <1>6 DEF Covers
  <2> QED
    BY <2>1, <2>2, <2>3 DEF Covers
<1>7. Outcome(f, pos, res, n, e)
  BY DEF n
<1> QED
  BY <1>5, <1>6, <1>7 DEF Outcome

(* The assignments of lines and of the lines behind them. *)
LEMMA CoversJoin ==
  ASSUME NEW f, NEW d, Shaped(f, d), NEW k \in Filled(f), NEW c \in Filled(f), k < c,
         NEW e \in Filled(f) \cup {Len(f) + 1}, c < e,
         NEW a, NEW b, Covers(f, a, k, c), Covers(f, b, c, e)
  PROVE  Covers(f, a \o b, k, e)
<1>1. Len(f) \in Nat /\ Filled(f) \in SUBSET (1 .. Len(f))
  BY FilledLines
<1>2. k \in Nat /\ c \in Nat /\ e \in Nat
  BY <1>1
<1>3. a \in Seq(Made) /\ b \in Seq(Made)
  BY DEF Covers
<1>4. Len(a) \in Nat /\ Len(b) \in Nat
  BY <1>3, LenProperties
<1> DEFINE ab == a \o b
<1>5. /\ ab \in Seq(Made) /\ Len(ab) = Len(a) + Len(b)
      /\ \A i \in 1 .. Len(a) + Len(b) : ab[i] = IF i <= Len(a) THEN a[i] ELSE b[i - Len(a)]
  BY <1>3, ConcatProperties
<1> HIDE DEF ab
<1>6. ASSUME NEW m \in 1 .. Len(ab)
      PROVE  \E j \in Filled(f), p \in Seq(Names) :
               k <= j /\ j < e /\ Leaf(f, j) /\ At(f, j, p) /\ ab[m] = Item(f, j, p)
  <2>1. CASE m <= Len(a)
    <3>1. m \in 1 .. Len(a) /\ ab[m] = a[m]
      BY <1>4, <1>5, <2>1
    <3>2. PICK j \in Filled(f), p \in Seq(Names) :
            k <= j /\ j < c /\ Leaf(f, j) /\ At(f, j, p) /\ a[m] = Item(f, j, p)
      BY <3>1 DEF Covers
    <3>3. j < e
      BY <1>1, <1>2, <3>2
    <3> QED
      BY <3>1, <3>2, <3>3
  <2>2. CASE ~(m <= Len(a))
    <3> DEFINE l == m - Len(a)
    <3>1. l \in 1 .. Len(b) /\ ab[m] = b[l]
      BY <1>4, <1>5, <2>2
    <3> HIDE DEF l
    <3>2. PICK j \in Filled(f), p \in Seq(Names) :
            c <= j /\ j < e /\ Leaf(f, j) /\ At(f, j, p) /\ b[l] = Item(f, j, p)
      BY <3>1 DEF Covers
    <3>3. k <= j
      BY <1>1, <1>2, <3>2
    <3> QED
      BY <3>1, <3>2, <3>3
  <2> QED
    BY <2>1, <2>2
<1>7. ASSUME NEW j \in Filled(f), k <= j, j < e, Leaf(f, j)
      PROVE  \E m \in 1 .. Len(ab), p \in Seq(Names) : At(f, j, p) /\ ab[m] = Item(f, j, p)
  <2>1. CASE j < c
    <3>1. PICK m \in 1 .. Len(a), p \in Seq(Names) : At(f, j, p) /\ a[m] = Item(f, j, p)
      BY <1>7, <2>1 DEF Covers
    <3>2. m \in 1 .. Len(ab) /\ ab[m] = a[m]
      BY <1>4, <1>5
    <3> QED
      BY <3>1, <3>2
  <2>2. CASE c <= j
    <3>1. PICK l \in 1 .. Len(b), p \in Seq(Names) : At(f, j, p) /\ b[l] = Item(f, j, p)
      BY <1>7, <2>2 DEF Covers
    <3> DEFINE m == Len(a) + l
    <3>2. m \in 1 .. Len(ab) /\ ~(m <= Len(a)) /\ m - Len(a) = l
      BY <1>4, <1>5
    <3> HIDE DEF m
    <3>3. m \in 1 .. Len(a) + Len(b)
      BY <1>5, <3>2
    <3>4. ab[m] = b[l]
      BY <1>5, <3>2, <3>3
    <3> QED
      BY <3>1, <3>2, <3>4
  <2> QED
    BY <1>1, <1>2, <2>1, <2>2
<1>8. Covers(f, ab, k, e)
  BY <1>5, <1>6, <1>7 DEF Covers
<1> QED
  BY <1>8 DEF ab

(* What the parser makes of the name of line k and of what is below it, where *)
(* later does so for the lines behind it: what it ought to.                   *)
LEMMA EntryIs ==
  ASSUME NEW f, NEW d, Shaped(f, d), NEW L, NEW pos, Spread(f, L, pos, Len(f) + 1),
         NEW k \in Filled(f), NEW path \in Seq(Names), At(f, k, path), NEW later,
         \A j \in Filled(f), p \in Seq(Names) : k < j /\ At(f, j, p) =>
           \E e : Ends(f, j, e) /\ Outcome(f, pos, later[pos[j]][p], j, e)
  PROVE  \E e : Ends(f, k, e) /\ Outcome(f, pos, Entry(L, pos[k], path, later), k, e)
<1> DEFINE N == Len(f)
           i == pos[k]
           n == NextLine(f, k)
           here == Append(path, f[k].key)
           child == IF L[i + 1].type = "map" THEN later[i + 1][here] ELSE ParseScalar(L, i + 1, here)
           entry == Entry(L, i, path, later)
<1>1. /\ N \in Nat /\ k \in 1 .. N /\ Filled(f) \in SUBSET (1 .. N)
      /\ f[k] \in Lines /\ f[k].key \in Names
  BY FilledLines
<1>2. /\ Len(L) \in Nat /\ i \in 1 .. Len(L) - 1 /\ pos[N + 1] = Len(L) + 1
      /\ pos[n] = i + Size(f, k)
      /\ L[i] = MapOf(f[k])
      /\ Leaf(f, k) => L[i + 1] = ScalarOf(f[k])
      /\ ~Leaf(f, k) => L[i + 1] = MapOf(f[n])
  BY SpreadWhole
<1>3. L[i].offset = f[k].offset /\ L[i].key = f[k].key
  BY <1>1, <1>2, MapAndScalar
<1>4. here \in Seq(Names)
  BY <1>1, AppendProperties
<1>5. entry = NextKey(L, i, path, child, later)
  <2>1. i # Len(L)
    BY <1>2
  <2> QED
    BY <1>3, <2>1 DEF Entry
<1> HIDE DEF entry, i
<1>6. \E c : ChildEnds(f, k, c) /\ Outcome(f, pos, child, k, c)
  <2>1. CASE Leaf(f, k)
    <3>1. L[i + 1].type = "scalar"
      BY <1>1, <1>2, <2>1, MapAndScalar
    <3>2. child = ParseScalar(L, i + 1, here)
      BY <3>1
    <3> HIDE DEF child
    <3> QED
      BY <2>1, <3>2, LeafScalar DEF i
  <2>2. CASE ~Leaf(f, k)
    <3>1. n \in Filled(f)
      BY <2>2, ValuesAreLeaves
    <3>2. n \in k + 1 .. N /\ k < n
      <4>1. n \in k + 1 .. N + 1 /\ n \in 1 .. N
        BY <1>1, <3>1, NextOf
      <4> QED
        BY <1>1, <4>1
    <3>3. f[n] \in Lines /\ f[n].key \in Names
      BY <3>1, FilledLines
    <3>4. L[i + 1].type = "map"
      BY <1>2, <2>2, <3>3, MapAndScalar
    <3>5. pos[n] = i + 1
      BY <1>2, <2>2 DEF Size
    <3>6. child = later[pos[n]][here]
      BY <3>4, <3>5
    <3> HIDE DEF child
    <3>7. n <= Len(f)
      BY <3>2
    <3>8. Level(f[n]) = Level(f[k]) + 1 /\ At(f, n, here)
      BY <2>2, <3>7, NextDown
    <3> HIDE DEF here
    <3>9. PICK c : Ends(f, n, c) /\ Outcome(f, pos, child, n, c)
      BY <1>4, <3>1, <3>2, <3>6, <3>8
    <3>10. Outcome(f, pos, child, k, c)
      BY <2>2, <3>9, OutcomeBelow
    <3>11. Level(f[k]) \in 0 .. 2 /\ \A j \in Filled(f) : Level(f[j]) \in 0 .. 2
      BY LevelOf
    <3>12. c \in Filled(f) \cup {N + 1} /\ n < c /\ (c = N + 1 \/ Level(f[c]) < Level(f[n]))
           /\ \A j \in Filled(f) : n <= j /\ j < c => Level(f[j]) >= Level(f[n])
      BY <3>9 DEF Ends
    <3>13. \A j \in Filled(f) : k < j => n <= j
      <4>1. \A j \in k + 1 .. n - 1 : j \notin Filled(f)
        BY <1>1, NextOf
      <4> HIDE DEF n
      <4> QED
        BY <1>1, <3>2, <4>1
    <3> HIDE DEF n
    <3>14. k < c
      BY <1>1, <3>2, <3>12
    <3>15. c = N + 1 \/ Level(f[c]) <= Level(f[k])
      BY <3>8, <3>11, <3>12
    <3>16. \A j \in Filled(f) : k < j /\ j < c => Level(f[j]) > Level(f[k])
      BY <3>8, <3>11, <3>12, <3>13
    <3>17. ChildEnds(f, k, c)
      BY <3>12, <3>14, <3>15, <3>16 DEF ChildEnds
    <3> QED
      BY <3>10, <3>17
  <2> QED
    BY <2>1, <2>2
<1> HIDE DEF child
<1>7. PICK c : ChildEnds(f, k, c) /\ Outcome(f, pos, child, k, c)
  BY <1>6
<1>8. /\ c \in Filled(f) \cup {N + 1} /\ k < c /\ (c = N + 1 \/ Level(f[c]) <= Level(f[k]))
      /\ \A j \in Filled(f) : k < j /\ j < c => Level(f[j]) > Level(f[k])
  BY <1>7 DEF ChildEnds
<1>9. /\ child.refused => AnyTight(f, k, c) /\ child = Refused
      /\ ~child.refused => /\ ~AnyTight(f, k, c) /\ child.at = pos[c]
                           /\ Covers(f, child.made, k, c) /\ child = Parsed(child.made, child.at)
  BY <1>7, OutcomeIs
<1>10. Level(f[k]) \in 0 .. 2 /\ \A j \in Filled(f) : Level(f[j]) \in 0 .. 2
  BY LevelOf
<1>11. \A j \in Filled(f) : k <= j /\ j < c => Level(f[j]) >= Level(f[k])
  <2> TAKE j \in Filled(f)
  <2> HAVE k <= j /\ j < c
  <2>1. CASE j = k
    BY <1>10, <2>1
  <2>2. CASE j # k
    <3>1. k < j
      BY <1>1, <2>2
    <3> QED
      BY <1>8, <1>10, <3>1
  <2> QED
    BY <2>1, <2>2
<1>12. CASE child.refused
  <2>1. entry = Refused
    BY <1>5, <1>12 DEF NextKey
  <2>2. PICK e : Ends(f, k, e)
    BY EndsExist
  <2>3. e \in Filled(f) \cup {N + 1} /\ k < e /\ (e = N + 1 \/ Level(f[e]) < Level(f[k]))
    BY <2>2 DEF Ends
  <2>4. c <= e
    <3> SUFFICES ASSUME e < c PROVE FALSE
      BY <1>1, <1>8, <2>3
    <3>1. e \in Filled(f)
      BY <1>1, <1>8, <2>3
    <3>2. Level(f[e]) < Level(f[k]) /\ Level(f[e]) > Level(f[k])
      BY <1>1, <1>8, <2>3, <3>1
    <3> QED
      BY <1>10, <3>1, <3>2
  <2>5. AnyTight(f, k, e)
    <3>1. PICK j \in Filled(f) : k <= j /\ j < c /\ Tight(f, j)
      BY <1>9, <1>12 DEF AnyTight
    <3>2. j < e
      BY <1>1, <1>8, <2>3, <2>4, <3>1
    <3> QED
      BY <3>1, <3>2 DEF AnyTight
  <2>6. Outcome(f, pos, entry, k, e)
    BY <2>1, <2>5 DEF Outcome
  <2> QED
    BY <2>2, <2>6 DEF entry, i
<1>13. CASE ~child.refused /\ c = N + 1
  <2>1. child.at > Len(L)
    BY <1>2, <1>9, <1>13
  <2>2. entry = child
    BY <1>5, <1>13, <2>1 DEF NextKey
  <2>3. Ends(f, k, c)
    BY <1>8, <1>11, <1>13 DEF Ends
  <2> QED
    BY <1>7, <2>2, <2>3 DEF entry, i
<1>14. CASE ~child.refused /\ c # N + 1
  <2>1. c \in Filled(f) /\ c # 1
    BY <1>1, <1>8, <1>14
  <2>2. pos[c] \in 1 .. Len(L) - 1 /\ L[pos[c]] = MapOf(f[c]) /\ f[c] \in Lines /\ f[c].key \in Names
    BY <2>1, SpreadWhole, FilledLines
  <2>3. L[pos[c]].offset = f[c].offset /\ L[pos[c]].type = "map"
    BY <2>2, MapAndScalar
  <2>4. child.at = pos[c] /\ ~(pos[c] > Len(L))
    BY <1>2, <1>9, <1>14, <2>2
  <2>5. CASE Level(f[c]) < Level(f[k])
    <3>1. f[c].offset < f[k].offset
      BY <2>1, <2>5, OffsetsAreLevels
    <3>2. entry = child
      BY <1>3, <1>5, <1>14, <2>3, <2>4, <3>1 DEF NextKey
    <3>3. Ends(f, k, c)
      BY <1>8, <1>11, <2>5 DEF Ends
    <3> QED
      BY <1>7, <3>2, <3>3 DEF entry, i
  <2>6. CASE Level(f[c]) = Level(f[k])
    <3> DEFINE rest == later[pos[c]][path]
    <3>1. At(f, c, path)
      BY <1>7, <2>1, <2>6, SameLevel
    <3>2. PICK e : Ends(f, c, e) /\ Outcome(f, pos, rest, c, e)
      BY <1>8, <2>1, <3>1
    <3>3. ~(f[c].offset < f[k].offset) /\ ~(f[c].offset > f[k].offset)
      <4>1. ~(Level(f[c]) < Level(f[k])) /\ ~(Level(f[c]) > Level(f[k]))
        BY <1>10, <2>1, <2>6
      <4> QED
        BY <2>1, <4>1, OffsetsAreLevels
    <3>4. entry = IF rest.refused THEN Refused ELSE Parsed(child.made \o rest.made, rest.at)
      <4>1. rest = later[child.at][path]
        BY <2>4
      <4>2. ~(L[child.at].offset < L[i].offset)
        BY <1>3, <2>3, <2>4, <3>3
      <4>3. ~(L[child.at].offset > L[i].offset \/ L[child.at].type # "map")
        BY <1>3, <2>3, <2>4, <3>3
      <4>4. ~(child.at > Len(L))
        BY <2>4
      <4> HIDE DEF rest
      <4> QED
        BY <1>5, <1>14, <4>1, <4>2, <4>3, <4>4 DEF NextKey
    <3> HIDE DEF rest
    <3>5. /\ e \in Filled(f) \cup {N + 1} /\ c < e /\ (e = N + 1 \/ Level(f[e]) < Level(f[c]))
          /\ \A j \in Filled(f) : c <= j /\ j < e => Level(f[j]) >= Level(f[c])
      BY <3>2 DEF Ends
    <3>6. k < e
      BY <1>1, <1>8, <2>1, <3>5
    <3>7. Ends(f, k, e)
      <4>1. \A j \in Filled(f) : k <= j /\ j < e => Level(f[j]) >= Level(f[k])
        <5> TAKE j \in Filled(f)
        <5> HAVE k <= j /\ j < e
        <5>1. j < c \/ c <= j
          BY <1>1, <2>1
        <5> QED
          BY <1>11, <2>6, <3>5, <5>1
      <4> QED
        BY <2>6, <3>5, <3>6, <4>1 DEF Ends
    <3>8. AnyTight(f, k, e) <=> AnyTight(f, k, c) \/ AnyTight(f, c, e)
      <4>1. \A j \in Filled(f) : (k <= j /\ j < e) <=> ((k <= j /\ j < c) \/ (c <= j /\ j < e))
        BY <1>1, <1>8, <2>1, <3>5
      <4> QED
        BY <4>1 DEF AnyTight
    <3>9. /\ rest.refused => AnyTight(f, c, e) /\ rest = Refused
          /\ ~rest.refused => /\ ~AnyTight(f, c, e) /\ rest.at = pos[e] /\ Covers(f, rest.made, c, e)
      BY <3>2, OutcomeIs
    <3>10. CASE rest.refused
      <4>1. entry = Refused /\ AnyTight(f, k, e)
        BY <3>4, <3>8, <3>9, <3>10
      <4>2. Outcome(f, pos, entry, k, e)
        BY <4>1 DEF Outcome
      <4> QED
        BY <3>7, <4>2 DEF entry, i
    <3>11. CASE ~rest.refused
      <4>1. Covers(f, child.made \o rest.made, k, e)
        BY <1>8, <1>9, <1>14, <2>1, <3>5, <3>9, <3>11, CoversJoin
      <4>2. entry = Parsed(child.made \o rest.made, pos[e])
        BY <3>4, <3>9, <3>11
      <4>3. ~AnyTight(f, k, e)
        BY <1>9, <1>14, <3>8, <3>9, <3>11
      <4>4. Outcome(f, pos, entry, k, e)
        BY <4>1, <4>2, <4>3 DEF Outcome
      <4> QED
        BY <3>7, <4>4 DEF entry, i
    <3> QED
      BY <3>10, <3>11
  <2> QED
    BY <1>8, <1>10, <1>14, <2>1, <2>5, <2>6
<1> QED
  BY <1>12, <1>13, <1>14

(* The maps for so many keys to come, made of those for one key less. *)
Looked(L, left, later) ==
  [i \in 1 .. Len(L) |-> [path \in Seq(Names) |->
     IF left = 0 THEN Refused ELSE Entry(L, i, path, later)]]

(* The maps there are. *)
LEMMA MapsExist ==
  ASSUME NEW L, NEW m \in Nat
  PROVE  \E g : g = [n \in 0 .. m |-> Looked(L, n, g[n - 1])]
<1> DEFINE S == {p \in Nat : \E g : g = [n \in 0 .. p |-> Looked(L, n, g[n - 1])]}
<1>1. 0 \in S
  <2> DEFINE g == [n \in 0 .. 0 |-> Looked(L, 0, {})]
  <2>1. \A later : Looked(L, 0, later) = Looked(L, 0, {})
    BY Zenon DEF Looked
  <2> HIDE DEF S
  <2>2. \A n \in 0 .. 0 : g[n] = Looked(L, n, g[n - 1])
    <3> TAKE n \in 0 .. 0
    <3>1. n = 0
      OBVIOUS
    <3> QED
      BY <2>1, <3>1
  <2>3. g = [n \in 0 .. 0 |-> g[n]]
    OBVIOUS
  <2> HIDE DEF g
  <2>4. g = [n \in 0 .. 0 |-> Looked(L, n, g[n - 1])]
    BY <2>2, <2>3, Zenon
  <2> QED
    BY <2>4 DEF S
<1>2. ASSUME NEW p \in S PROVE p + 1 \in S
  <2>1. PICK g : g = [n \in 0 .. p |-> Looked(L, n, g[n - 1])]
    OBVIOUS
  <2> DEFINE h == [n \in 0 .. p + 1 |-> IF n = p + 1 THEN Looked(L, p + 1, g[p]) ELSE g[n]]
  <2>2. p \in Nat
    OBVIOUS
  <2> HIDE DEF S
  <2>3. \A n \in 0 .. p + 1 : h[n] = Looked(L, n, h[n - 1])
    <3> TAKE n \in 0 .. p + 1
    <3>1. CASE n = 0
      <4>1. g[0] = Looked(L, 0, g[0 - 1]) /\ h[0] = g[0]
        BY <2>1, <2>2
      <4>2. Looked(L, 0, g[0 - 1]) = Looked(L, 0, h[0 - 1])
        BY Zenon DEF Looked
      <4> QED
        BY <3>1, <4>1, <4>2
    <3>2. CASE n \in 1 .. p
      <4>1. g[n] = Looked(L, n, g[n - 1])
        BY <2>1, <2>2, <3>2
      <4>2. n - 1 \in 0 .. p + 1 /\ n - 1 # p + 1 /\ n # p + 1
        BY <2>2, <3>2
      <4>3. h[n] = g[n] /\ h[n - 1] = g[n - 1]
        BY <4>2
      <4> QED
        BY <4>1, <4>3
    <3>3. CASE n = p + 1
      <4>1. n - 1 \in 0 .. p + 1 /\ n - 1 = p /\ p # p + 1
        BY <2>2, <3>3
      <4>2. h[n] = Looked(L, p + 1, g[p]) /\ h[n - 1] = g[p]
        BY <3>3, <4>1
      <4> QED
        BY <3>3, <4>2
    <3> QED
      BY <2>2, <3>1, <3>2, <3>3
  <2>4. h = [n \in 0 .. p + 1 |-> h[n]]
    OBVIOUS
  <2> HIDE DEF h
  <2>5. h = [n \in 0 .. p + 1 |-> Looked(L, n, h[n - 1])]
    BY <2>3, <2>4, Zenon
  <2> QED
    BY <2>2, <2>5 DEF S
<1> HIDE DEF S
<1>3. S \in SUBSET Nat
  BY DEF S
<1>4. S = Nat
  BY <1>1, <1>2, <1>3, Induction
<1> QED
  BY <1>4 DEF S

(* ParseMap is the maps for as many keys as there are lines. *)
LEMMA ParseMapIs ==
  ASSUME NEW L \in Seq(Lines)
  PROVE  \E maps :
           /\ ParseMap(L) = maps[Len(L)]
           /\ \A left \in 1 .. Len(L), i \in 1 .. Len(L), path \in Seq(Names) :
                maps[left][i][path] = Entry(L, i, path, maps[left - 1])
<1> DEFINE maps == CHOOSE g : g = [n \in 0 .. Len(L) |-> Looked(L, n, g[n - 1])]
<1>1. Len(L) \in Nat
  BY LenProperties
<1>2. maps = [n \in 0 .. Len(L) |-> Looked(L, n, maps[n - 1])]
  <2>1. \E g : g = [n \in 0 .. Len(L) |-> Looked(L, n, g[n - 1])]
    BY <1>1, MapsExist
  <2> QED
    BY <2>1, Zenon
<1>3. ParseMap(L) = maps[Len(L)]
  BY DEF ParseMap, Looked
<1> HIDE DEF maps
<1>4. \A left \in 1 .. Len(L), i \in 1 .. Len(L), path \in Seq(Names) :
        maps[left][i][path] = Entry(L, i, path, maps[left - 1])
  <2> TAKE left \in 1 .. Len(L), i \in 1 .. Len(L), path \in Seq(Names)
  <2>1. maps[left] = Looked(L, left, maps[left - 1]) /\ left # 0
    BY <1>1, <1>2
  <2> DEFINE later == maps[left - 1]
  <2> HIDE DEF later
  <2>2. Looked(L, left, later)[i][path] = Entry(L, i, path, later)
    BY <2>1 DEF Looked
  <2> QED
    BY <2>1, <2>2 DEF later
<1> QED
  BY <1>3, <1>4

(* ParseMap makes of each line what it ought to. *)
LEMMA Parsing ==
  ASSUME NEW f, NEW d, Shaped(f, d), NEW L, NEW pos, Spread(f, L, pos, Len(f) + 1),
         NEW k \in Filled(f), NEW path \in Seq(Names), At(f, k, path)
  PROVE  \E e : Ends(f, k, e) /\ Outcome(f, pos, ParseMap(L)[pos[k]][path], k, e)
<1> DEFINE M == Len(L)
<1>1. L \in Seq(Lines) /\ M \in Nat
  BY LenProperties DEF Spread
<1>2. PICK maps : /\ ParseMap(L) = maps[M]
                  /\ \A left \in 1 .. M, i \in 1 .. M, p \in Seq(Names) :
                       maps[left][i][p] = Entry(L, i, p, maps[left - 1])
  BY <1>1, ParseMapIs
<1> DEFINE Right(left, j, p) == \E e : Ends(f, j, e) /\ Outcome(f, pos, maps[left][pos[j]][p], j, e)
           S == {left \in Nat : left <= M =>
                   \A j \in Filled(f), p \in Seq(Names) :
                     At(f, j, p) /\ M + 1 - pos[j] <= left => Right(left, j, p)}
<1>3. \A j \in Filled(f) : /\ pos[j] \in 1 .. M - 1
                           /\ \A l \in Filled(f) : j < l => pos[j] < pos[l]
  BY SpreadWhole
<1> HIDE DEF M, Right
<1>4. 0 \in S
  <2>1. \A j \in Filled(f) : ~(M + 1 - pos[j] <= 0)
    BY <1>1, <1>3
  <2> QED
    BY <2>1
<1>5. ASSUME NEW n \in S PROVE n + 1 \in S
  <2> DEFINE left == n + 1
  <2> SUFFICES ASSUME left <= M, NEW j \in Filled(f), NEW p \in Seq(Names), At(f, j, p), M + 1 - pos[j] <= left
               PROVE  Right(left, j, p)
    OBVIOUS
  <2>1. n \in Nat /\ n <= M /\ left \in 1 .. M /\ left - 1 = n
    BY <1>1
  <2>2. \A l \in Filled(f), q \in Seq(Names) : At(f, l, q) /\ M + 1 - pos[l] <= n => Right(n, l, q)
    BY <2>1
  <2>3. pos[j] \in 1 .. M /\ M + 1 - pos[j] <= n + 1
    BY <1>1, <1>3
  <2> HIDE DEF left, S
  <2>4. \A l \in Filled(f) : j < l => M + 1 - pos[l] <= n
    <3> TAKE l \in Filled(f)
    <3> HAVE j < l
    <3>1. pos[j] < pos[l] /\ pos[l] \in 1 .. M - 1
      BY <1>3
    <3> QED
      BY <1>1, <2>1, <2>3, <3>1
  <2>5. maps[left][pos[j]][p] = Entry(L, pos[j], p, maps[n])
    BY <1>2, <2>1, <2>3
  <2>6. \A l \in Filled(f), q \in Seq(Names) : j < l /\ At(f, l, q) =>
          \E e : Ends(f, l, e) /\ Outcome(f, pos, maps[n][pos[l]][q], l, e)
    BY <2>2, <2>4 DEF Right
  <2> DEFINE later == maps[n]
  <2> HIDE DEF later
  <2>7. \A l \in Filled(f), q \in Seq(Names) : j < l /\ At(f, l, q) =>
          \E e : Ends(f, l, e) /\ Outcome(f, pos, later[pos[l]][q], l, e)
    BY <2>6 DEF later
  <2>8. \E e : Ends(f, j, e) /\ Outcome(f, pos, Entry(L, pos[j], p, later), j, e)
    BY <2>7, EntryIs
  <2> QED
    BY <2>5, <2>8 DEF Right, later
<1>6. M \in S
  <2> HIDE DEF S
  <2>1. S \in SUBSET Nat
    BY DEF S
  <2>2. S = Nat
    BY <1>4, <1>5, <2>1, Induction
  <2> QED
    BY <1>1, <2>2
<1>7. M + 1 - pos[k] <= M /\ M <= M
  BY <1>1, <1>3
<1>8. Right(M, k, path)
  BY <1>6, <1>7
<1> QED
  BY <1>2, <1>8 DEF Right

(* The file is refused for a pinched name and for nothing else; otherwise it  *)
(* makes the assignments of its lines.                                        *)
LEMMA ParseRootIs ==
  ASSUME NEW f, NEW d, Shaped(f, d)
  PROVE  LET config == ParseRoot(f)
             e == Len(f) + 1
         IN  /\ config.refused \in BOOLEAN /\ (config.refused <=> AnyTight(f, 1, e))
             /\ ~config.refused => Covers(f, config.made, 1, e)
<1> DEFINE N == Len(f)
           e == Len(f) + 1
           L == PostProcess(f)
           root == ParseMap(L)[1][<<>>]
           config == ParseRoot(f)
<1>1. PICK pos : Spread(f, L, pos, N + 1)
  BY PostProcessIs
<1>2. ReadLines(f) = f
  BY ReadWhole
<1>3. config = ParseLines(L)
  BY <1>2 DEF ParseRoot
<1> HIDE DEF L
<1>4. /\ N \in Nat /\ N >= 1 /\ Filled(f) \in SUBSET (1 .. N) /\ 1 \in Filled(f)
      /\ \A j \in Filled(f) : f[j] \in Lines /\ f[j].key \in Names
  BY FilledLines
<1>5. pos[1] = 1 /\ L \in Seq(Lines)
  BY <1>1 DEF Spread, Places
<1>6. /\ Len(L) \in Nat /\ pos[1] \in 1 .. Len(L) - 1 /\ pos[N + 1] = Len(L) + 1
      /\ L[pos[1]] = MapOf(f[1])
  BY <1>1, <1>4, SpreadWhole
<1>7. L # <<>> /\ Len(L) >= 2 /\ L[1].type = "map"
  <2>1. L[1].type = "map"
    BY <1>4, <1>5, <1>6, MapAndScalar
  <2>2. Len(L) >= 2
    BY <1>5, <1>6
  <2>3. Len(<<>>) = 0
    OBVIOUS
  <2> QED
    BY <1>6, <2>1, <2>2, <2>3
<1>8. At(f, 1, <<>>) /\ <<>> \in Seq(Names) /\ Level(f[1]) = 0
  <2>1. Level(f[1]) = 0
    BY <1>4, LevelOf
  <2> QED
    BY <2>1 DEF At
<1>9. PICK c : Ends(f, 1, c) /\ Outcome(f, pos, ParseMap(L)[pos[1]][<<>>], 1, c)
  BY <1>1, <1>4, <1>8, Parsing
<1>10. c = N + 1
  <2>1. c \in Filled(f) \cup {N + 1} /\ (c = N + 1 \/ Level(f[c]) < Level(f[1]))
    BY <1>9 DEF Ends
  <2>2. \A j \in Filled(f) : Level(f[j]) \in 0 .. 2
    BY LevelOf
  <2> QED
    BY <1>8, <2>1, <2>2
<1>11. Outcome(f, pos, root, 1, e)
  BY <1>5, <1>9, <1>10
<1> HIDE DEF root
<1>12. Last(L).type = "scalar"
  <2>1. PICK z \in Filled(f) : \A j \in Filled(f) : j <= z
    BY <1>4, GreatestNumber
  <2> DEFINE n == NextLine(f, z)
  <2>2. z \in 1 .. N /\ n \in z + 1 .. N + 1 /\ (n <= N => n \in Filled(f))
    BY <1>4, NextOf
  <2> HIDE DEF n
  <2>3. n = N + 1
    BY <1>4, <2>1, <2>2
  <2>4. Leaf(f, z)
    BY <1>4, <2>3 DEF Leaf, n
  <2>5. pos[n] = pos[z] + 2 /\ L[pos[z] + 1] = ScalarOf(f[z]) /\ pos[z] \in 1 .. Len(L) - 1
    BY <1>1, <2>4, SpreadWhole DEF n, Size
  <2>6. pos[z] + 1 = Len(L)
    BY <1>6, <2>3, <2>5
  <2>7. L[Len(L)] = ScalarOf(f[z])
    BY <2>5, <2>6
  <2> QED
    BY <1>4, <2>7, MapAndScalar DEF Last
<1>13. config = Whole(L, root)
  BY <1>3, <1>7 DEF ParseLines, root
<1> HIDE DEF config
<1>14. CASE root.refused
  <2>1. AnyTight(f, 1, e)
    BY <1>11, <1>14, OutcomeIs
  <2>2. config = Refused
    BY <1>13, <1>14 DEF Whole
  <2> QED
    BY <2>1, <2>2, RefusedOrNot DEF config
<1>15. CASE ~root.refused
  <2>1. ~AnyTight(f, 1, e) /\ root.at = pos[e] /\ Covers(f, root.made, 1, e) /\ root = Parsed(root.made, root.at)
    BY <1>11, <1>15, OutcomeIs
  <2>2. ~(root.at <= Len(L))
    BY <1>6, <2>1
  <2>3. config = root
    BY <1>12, <1>13, <1>15, <2>2 DEF Whole
  <2>4. root.refused = FALSE
    BY <2>1, RefusedOrNot
  <2> QED
    BY <2>1, <2>3, <2>4 DEF config
<1> QED
  BY <1>14, <1>15

-------------------------------------------------------------------------------
(* The nodes                                                                  *)

(* The nodes there are after each assignment. *)
LEMMA NodesExist ==
  ASSUME NEW made, NEW m \in Nat
  PROVE  \E g : g = [n \in 0 .. m |->
                       IF n = 0 THEN <<>> ELSE Assign(g[n - 1], made[n].path, made[n].value)]
<1> DEFINE S == {p \in Nat : \E g : g = [n \in 0 .. p |->
                       IF n = 0 THEN <<>> ELSE Assign(g[n - 1], made[n].path, made[n].value)]}
<1>1. 0 \in S
  <2> DEFINE g == [n \in 0 .. 0 |-> <<>>]
  <2>1. g = [n \in 0 .. 0 |-> IF n = 0 THEN <<>> ELSE Assign(g[n - 1], made[n].path, made[n].value)]
    OBVIOUS
  <2> QED
    BY <2>1
<1>2. ASSUME NEW p \in S PROVE p + 1 \in S
  <2>1. PICK g : g = [n \in 0 .. p |->
                        IF n = 0 THEN <<>> ELSE Assign(g[n - 1], made[n].path, made[n].value)]
    OBVIOUS
  <2> DEFINE h == [n \in 0 .. p + 1 |->
                     IF n = p + 1 THEN Assign(g[p], made[n].path, made[n].value) ELSE g[n]]
  <2>2. p \in Nat
    OBVIOUS
  <2> HIDE DEF S
  <2>3. \A n \in 0 .. p + 1 :
          h[n] = IF n = 0 THEN <<>> ELSE Assign(h[n - 1], made[n].path, made[n].value)
    <3> TAKE n \in 0 .. p + 1
    <3>1. CASE n = 0
      <4>1. g[0] = <<>>
        BY <2>1, <2>2
      <4> QED
        BY <2>2, <3>1, <4>1
    <3>2. CASE n \in 1 .. p
      <4>1. g[n] = Assign(g[n - 1], made[n].path, made[n].value)
        BY <2>1, <2>2, <3>2
      <4>2. n - 1 \in 0 .. p + 1 /\ n - 1 # p + 1 /\ n # p + 1
        BY <2>2, <3>2
      <4> QED
        BY <3>2, <4>1, <4>2
    <3>3. CASE n = p + 1
      <4>1. n - 1 \in 0 .. p + 1 /\ n - 1 = p /\ p # p + 1 /\ n # 0
        BY <2>2, <3>3
      <4> QED
        BY <3>3, <4>1
    <3> QED
      BY <2>2, <3>1, <3>2, <3>3
  <2>4. h = [n \in 0 .. p + 1 |-> h[n]]
    OBVIOUS
  <2> HIDE DEF h
  <2>5. h = [n \in 0 .. p + 1 |->
               IF n = 0 THEN <<>> ELSE Assign(h[n - 1], made[n].path, made[n].value)]
    BY <2>3, <2>4, Zenon
  <2> QED
    BY <2>2, <2>5 DEF S
<1> HIDE DEF S
<1>3. S \in SUBSET Nat
  BY DEF S
<1>4. S = Nat
  BY <1>1, <1>2, <1>3, Induction
<1> QED
  BY <1>4 DEF S

(* One path is no part of another. *)
Apart(made) ==
  \A a, b \in 1 .. Len(made) :
    /\ made[a].path = made[b].path => made[a].value = made[b].value
    /\ made[a].path # made[b].path => ~IsPrefix(made[a].path, made[b].path)

(* Assignments to paths that are apart are all there in the end. *)
LEMMA NodeIs ==
  ASSUME NEW made \in Seq(Made), Apart(made)
  PROVE  /\ DOMAIN Node(made) = {made[n].path : n \in 1 .. Len(made)}
         /\ \A n \in 1 .. Len(made) : Node(made)[made[n].path] = made[n].value
<1> DEFINE N == Len(made)
           node == CHOOSE g : g = [n \in 0 .. N |->
                     IF n = 0 THEN <<>> ELSE Assign(g[n - 1], made[n].path, made[n].value)]
           Upto(n) == {made[m].path : m \in 1 .. n}
           Holds(n) == /\ DOMAIN node[n] = Upto(n)
                       /\ \A m \in 1 .. n : node[n][made[m].path] = made[m].value
           S == {n \in Nat : n <= N => Holds(n)}
<1>1. N \in Nat
  BY LenProperties
<1>2. node = [n \in 0 .. N |->
                IF n = 0 THEN <<>> ELSE Assign(node[n - 1], made[n].path, made[n].value)]
  <2>1. \E g : g = [n \in 0 .. N |->
                IF n = 0 THEN <<>> ELSE Assign(g[n - 1], made[n].path, made[n].value)]
    BY <1>1, NodesExist
  <2> QED
    BY <2>1, Zenon
<1>3. Node(made) = node[N]
  BY DEF Node
<1> HIDE DEF node
<1>4. node[0] = <<>> /\ \A n \in 1 .. N : node[n] = Assign(node[n - 1], made[n].path, made[n].value)
  BY <1>1, <1>2
<1>5. Holds(0)
  <2>1. DOMAIN <<>> = {}
    OBVIOUS
  <2>2. Upto(0) = {}
    OBVIOUS
  <2> QED
    BY <1>4, <2>1, <2>2
<1>6. ASSUME NEW n \in 1 .. N, Holds(n - 1)
      PROVE  Holds(n)
  <2> DEFINE path == made[n].path
             old == node[n - 1]
             kept == {p \in DOMAIN old : ~IsPrefix(path, p) /\ ~IsStrictPrefix(p, path)}
  <2>1. node[n] = [p \in kept \cup {path} |-> IF p = path THEN made[n].value ELSE old[p]]
    BY <1>4 DEF Assign
  <2>2. DOMAIN old = Upto(n - 1) /\ \A m \in 1 .. n - 1 : old[made[m].path] = made[m].value
    BY <1>6
  <2>3. \A m \in 1 .. n - 1 : m \in 1 .. N
    BY <1>1
  <2>4. \A m \in 1 .. n - 1 : made[m].path # path => made[m].path \in kept
    <3> TAKE m \in 1 .. n - 1
    <3> HAVE made[m].path # path
    <3>1. ~IsPrefix(made[m].path, path) /\ ~IsPrefix(path, made[m].path)
      BY <2>3 DEF Apart
    <3> QED
      BY <2>2, <3>1 DEF IsStrictPrefix
  <2>5. kept \subseteq Upto(n - 1)
    BY <2>2
  <2> HIDE DEF kept
  <2>6. 1 .. n = (1 .. n - 1) \cup {n}
    BY <1>1
  <2>7. kept \cup {path} = Upto(n)
    <3>1. Upto(n) = Upto(n - 1) \cup {path}
      BY <2>6
    <3>2. Upto(n - 1) \subseteq kept \cup {path}
      BY <2>4
    <3> QED
      BY <2>5, <3>1, <3>2
  <2>8. DOMAIN node[n] = Upto(n)
    BY <2>1, <2>7
  <2>9. \A m \in 1 .. n : node[n][made[m].path] = made[m].value
    <3> TAKE m \in 1 .. n
    <3>1. made[m].path \in kept \cup {path}
      BY <2>7
    <3>2. CASE made[m].path = path
      <4>1. made[m].value = made[n].value
        BY <1>1, <3>2 DEF Apart
      <4> QED
        BY <2>1, <3>1, <3>2, <4>1
    <3>3. CASE made[m].path # path
      <4>1. m \in 1 .. n - 1
        BY <1>1, <2>6, <3>3
      <4>2. old[made[m].path] = made[m].value
        BY <2>2, <4>1
      <4> QED
        BY <2>1, <3>1, <3>3, <4>2
    <3> QED
      BY <3>2, <3>3
  <2> QED
    BY <2>8, <2>9
<1> HIDE DEF Holds
<1>7. 0 \in S
  BY <1>5
<1>8. \A n \in S : n + 1 \in S
  <2> TAKE n \in S
  <2>1. n \in Nat /\ (n <= N => Holds(n)) /\ n + 1 \in Nat
    OBVIOUS
  <2>2. ASSUME n + 1 <= N PROVE Holds(n + 1)
    <3> DEFINE p == n + 1
    <3>1. p \in 1 .. N /\ p - 1 = n /\ n <= N
      BY <1>1, <2>1, <2>2
    <3>2. Holds(p - 1)
      BY <2>1, <3>1
    <3> HIDE DEF p
    <3>3. Holds(p)
      BY <1>6, <3>1, <3>2
    <3> QED
      BY <3>3 DEF p
  <2> QED
    BY <2>1, <2>2
<1>9. N \in S
  <2> HIDE DEF S
  <2>1. S \in SUBSET Nat
    BY DEF S
  <2>2. S = Nat
    BY <1>7, <1>8, <2>1, Induction
  <2> QED
    BY <1>1, <2>2
<1>10. Holds(N)
  BY <1>1, <1>9
<1> QED
  BY <1>3, <1>10 DEF Holds

(* A part of a path agrees with it. *)
LEMMA PrefixAgrees ==
  ASSUME NEW P \in Seq(Names), NEW Q \in Seq(Names), IsPrefix(P, Q)
  PROVE  Len(P) <= Len(Q) /\ \A i \in 1 .. Len(P) : P[i] = Q[i]
<1> DEFINE n == Len(P)
<1>1. n \in Nat /\ Len(Q) \in Nat /\ n <= Len(Q) /\ SubSeq(P, 1, n) = SubSeq(Q, 1, n)
  BY LenProperties DEF IsPrefix
<1>2. \A i \in 1 .. n : P[i] \in Names /\ Q[i] \in Names
  <2> TAKE i \in 1 .. n
  <2>1. i \in 1 .. Len(P) /\ i \in 1 .. Len(Q)
    BY <1>1
  <2> QED
    BY <2>1, ElementOfSeq
<1> HIDE DEF n
<1>3. \A i \in 1 .. n : SubSeq(P, 1, n)[i] = P[1 + i - 1] /\ SubSeq(Q, 1, n)[i] = Q[1 + i - 1]
  <2>1. n - 1 + 1 = n
    BY <1>1
  <2>2. \A i \in 1 .. n - 1 + 1 : SubSeq(P, 1, n)[i] = P[1 + i - 1]
    BY <1>1, <1>2, SubSeqProperties
  <2>3. \A i \in 1 .. n - 1 + 1 : SubSeq(Q, 1, n)[i] = Q[1 + i - 1]
    BY <1>1, <1>2, SubSeqProperties
  <2> QED
    BY <2>1, <2>2, <2>3
<1>4. \A i \in 1 .. n : P[i] = Q[i]
  <2> TAKE i \in 1 .. n
  <2>1. 1 + i - 1 = i
    OBVIOUS
  <2> QED
    BY <1>1, <1>3, <2>1
<1> QED
  BY <1>1, <1>4 DEF n

(* The path of line j's assignment, by the level of its name. *)
LEMMA ItemPath ==
  ASSUME NEW f, NEW d, Shaped(f, d), NEW j \in Filled(f), NEW p \in Seq(Names), At(f, j, p)
  PROVE  LET P == Item(f, j, p).path IN
         /\ P \in Seq(Names) /\ Level(f[j]) \in 0 .. 2
         /\ Level(f[j]) = 0 => P = <<Root>> /\ j = 1
         /\ Level(f[j]) = 1 => P = <<Root, f[j].key>> /\ f[j].key \in Sections
         /\ Level(f[j]) = 2 => /\ f[j].key \in Keys
                               /\ \E s \in 1 .. Len(f) : Within(f, j, s) /\ P = <<Root, f[s].key, f[j].key>>
<1> DEFINE P == Item(f, j, p).path
<1>1. f[j] \in Lines /\ f[j].key \in Names /\ j \in 1 .. Len(f)
  BY FilledLines
<1>2. P = Append(p, f[j].key)
  BY DEF Item
<1> HIDE DEF P
<1>3. P \in Seq(Names)
  BY <1>1, <1>2, AppendProperties
<1>4. Level(f[j]) \in 0 .. 2
  BY LevelOf
<1>5. CASE Level(f[j]) = 0
  <2>1. p = <<>> /\ f[j].key = Root /\ j = 1
    BY <1>5, LevelOf DEF At
  <2>2. Append(<<>>, Root) = <<Root>>
    OBVIOUS
  <2> QED
    BY <1>2, <1>3, <1>5, <2>1, <2>2 DEF P
<1>6. CASE Level(f[j]) = 1
  <2>1. p = <<Root>> /\ f[j].key \in Sections
    BY <1>6, LevelOf DEF At
  <2>2. Append(<<Root>>, f[j].key) = <<Root, f[j].key>>
    BY AppendTwo
  <2> QED
    BY <1>2, <1>3, <1>6, <2>1, <2>2 DEF P
<1>7. CASE Level(f[j]) = 2
  <2>1. f[j].key \in Keys
    BY <1>7, LevelOf
  <2>2. PICK s \in 1 .. Len(f) : Within(f, j, s) /\ p = <<Root, f[s].key>>
    BY <1>7 DEF At
  <2>3. Append(<<Root, f[s].key>>, f[j].key) = <<Root, f[s].key, f[j].key>>
    BY AppendThree
  <2> QED
    BY <1>2, <1>3, <1>7, <2>1, <2>2, <2>3 DEF P
<1> QED
  BY <1>3, <1>4, <1>5, <1>6, <1>7 DEF P

(* Nothing is in a section that has nothing below it. *)
LEMMA EmptySection ==
  ASSUME NEW f, NEW d, Shaped(f, d), NEW j \in Filled(f), Leaf(f, j), Level(f[j]) = 1,
         NEW l \in Filled(f), Within(f, l, j)
  PROVE  l = j
<1> DEFINE n == NextLine(f, j)
<1>1. /\ Len(f) \in Nat /\ j \in 1 .. Len(f) /\ l \in 1 .. Len(f) /\ j <= l
      /\ \A i \in j + 1 .. l : f[i].key \notin Sections
  BY FilledLines DEF Within
<1> SUFFICES ASSUME j < l PROVE FALSE
  BY <1>1
<1>2. n \in j + 1 .. Len(f) + 1 /\ (n <= Len(f) => n \in Filled(f)) /\ \A i \in j + 1 .. n - 1 : i \notin Filled(f)
  BY <1>1, NextOf
<1> HIDE DEF n
<1>3. n \in j + 1 .. l
  BY <1>1, <1>2
<1>4. n \in Filled(f) /\ n # 1 /\ n <= Len(f) /\ ~(n > Len(f))
  BY <1>1, <1>2, <1>3
<1>5. f[n].offset <= f[j].offset
  BY <1>4 DEF Leaf, n
<1>6. Level(f[n]) <= 1
  BY <1>4, <1>5, OffsetsAreLevels
<1>7. Level(f[n]) \in 0 .. 2 /\ Level(f[n]) # 0
  BY <1>4, LevelOf
<1>8. Level(f[n]) = 1
  BY <1>6, <1>7
<1>9. f[n].key \in Sections
  BY <1>4, <1>8, LevelOf
<1> QED
  BY <1>1, <1>3, <1>9

(* Nothing else is in a file whose root has nothing below it. *)
LEMMA EmptyRoot ==
  ASSUME NEW f, NEW d, Shaped(f, d), Leaf(f, 1), NEW l \in Filled(f)
  PROVE  l = 1
<1> DEFINE n == NextLine(f, 1)
<1>1. Len(f) \in Nat /\ 1 \in 1 .. Len(f) /\ l \in 1 .. Len(f) /\ 1 \in Filled(f)
  BY FilledLines
<1> SUFFICES ASSUME 1 < l PROVE FALSE
  BY <1>1
<1>2. n \in 1 + 1 .. Len(f) + 1 /\ (n <= Len(f) => n \in Filled(f)) /\ \A i \in 1 + 1 .. n - 1 : i \notin Filled(f)
  BY <1>1, NextOf
<1> HIDE DEF n
<1>3. n \in Filled(f) /\ n # 1 /\ n <= Len(f) /\ ~(n > Len(f))
  BY <1>1, <1>2
<1>4. f[n].offset <= f[1].offset
  BY <1>3 DEF Leaf, n
<1>5. Level(f[n]) <= Level(f[1])
  BY <1>1, <1>3, <1>4, OffsetsAreLevels
<1>6. Level(f[1]) = 0
  BY <1>1, LevelOf
<1>7. Level(f[n]) \in 0 .. 2 /\ Level(f[n]) # 0
  BY <1>3, LevelOf
<1> QED
  BY <1>5, <1>6, <1>7

(* What the file gives is what is on its lines. *)
Matches(f, given) ==
  /\ given \in [Paths -> Texts \cup {LineEnd, Nothing}]
  /\ \A i, s \in 1 .. Len(f) : f[i].key \in Keys /\ Within(f, i, s) =>
       given[<<f[s].key, f[i].key>>] = ValueOf(f[i])
  /\ \A p \in Paths : given[p] # Nothing =>
       \E i, s \in 1 .. Len(f) : Within(f, i, s) /\ f[s].key = p[1] /\ f[i].key = p[2]

(* Two assignments are to the same path, with the same value, or apart. *)
LEMMA LeavesApart ==
  ASSUME NEW f, NEW d, Shaped(f, d), NEW given, Matches(f, given),
         NEW j \in Filled(f), NEW p \in Seq(Names), At(f, j, p), Leaf(f, j),
         NEW l \in Filled(f), NEW q \in Seq(Names), At(f, l, q), Leaf(f, l),
         IsPrefix(Item(f, j, p).path, Item(f, l, q).path)
  PROVE  Item(f, j, p) = Item(f, l, q)
<1> DEFINE P == Item(f, j, p).path
           Q == Item(f, l, q).path
<1>1. j \in 1 .. Len(f) /\ l \in 1 .. Len(f)
  BY FilledLines
<1>2. /\ P \in Seq(Names) /\ Level(f[j]) \in 0 .. 2
      /\ Level(f[j]) = 0 => P = <<Root>> /\ j = 1
      /\ Level(f[j]) = 1 => P = <<Root, f[j].key>> /\ f[j].key \in Sections
      /\ Level(f[j]) = 2 => /\ f[j].key \in Keys
                            /\ \E s \in 1 .. Len(f) : Within(f, j, s) /\ P = <<Root, f[s].key, f[j].key>>
  BY ItemPath
<1>3. /\ Q \in Seq(Names) /\ Level(f[l]) \in 0 .. 2
      /\ Level(f[l]) = 0 => Q = <<Root>> /\ l = 1
      /\ Level(f[l]) = 1 => Q = <<Root, f[l].key>> /\ f[l].key \in Sections
      /\ Level(f[l]) = 2 => /\ f[l].key \in Keys
                            /\ \E s \in 1 .. Len(f) : Within(f, l, s) /\ Q = <<Root, f[s].key, f[l].key>>
  BY ItemPath
<1> HIDE DEF P, Q
<1>4. Len(P) <= Len(Q) /\ \A i \in 1 .. Len(P) : P[i] = Q[i]
  <2>1. IsPrefix(P, Q)
    BY DEF P, Q
  <2> QED
    BY <1>2, <1>3, <2>1, PrefixAgrees
<1>5. ASSUME j = l PROVE Item(f, j, p) = Item(f, l, q)
  <2>1. p = q
    BY <1>5, AtOne
  <2> QED
    BY <1>5, <2>1
<1>6. CASE Level(f[j]) = 0
  <2>1. l = j
    BY <1>2, <1>6, EmptyRoot
  <2> QED
    BY <1>5, <2>1
<1>7. CASE Level(f[j]) = 1
  <2>1. Len(P) = 2 /\ P[2] = f[j].key /\ f[j].key \in Sections
    BY <1>2, <1>7
  <2>2. Len(Q) >= 2 /\ Q[2] = f[j].key
    BY <1>4, <2>1
  <2>3. CASE Level(f[l]) = 0
    <3>1. Len(Q) = 1
      BY <1>3, <2>3
    <3> QED
      BY <2>2, <3>1
  <2>4. CASE Level(f[l]) = 1
    <3>1. f[l].key = f[j].key
      BY <1>3, <2>2, <2>4
    <3>2. j = l
      BY <1>1, <2>1, <3>1 DEF Shaped
    <3> QED
      BY <1>5, <3>2
  <2>5. CASE Level(f[l]) = 2
    <3>1. PICK s \in 1 .. Len(f) : Within(f, l, s) /\ Q = <<Root, f[s].key, f[l].key>>
      BY <1>3, <2>5
    <3>2. f[s].key = f[j].key
      BY <2>2, <3>1
    <3>3. s = j
      BY <1>1, <2>1, <3>2 DEF Shaped
    <3>4. l = j
      BY <1>7, <3>1, <3>3, EmptySection
    <3> QED
      BY <1>5, <3>4
  <2> QED
    BY <1>3, <2>3, <2>4, <2>5
<1>8. CASE Level(f[j]) = 2
  <2>1. PICK s \in 1 .. Len(f) : Within(f, j, s) /\ P = <<Root, f[s].key, f[j].key>>
    BY <1>2, <1>8
  <2>2. Len(P) = 3 /\ P[2] = f[s].key /\ P[3] = f[j].key
    BY <2>1
  <2>3. Len(Q) >= 3 /\ Q[2] = f[s].key /\ Q[3] = f[j].key
    BY <1>4, <2>2
  <2>4. CASE Level(f[l]) = 0
    <3>1. Len(Q) = 1
      BY <1>3, <2>4
    <3> QED
      BY <2>3, <3>1
  <2>5. CASE Level(f[l]) = 1
    <3>1. Len(Q) = 2
      BY <1>3, <2>5
    <3> QED
      BY <2>3, <3>1
  <2>6. CASE Level(f[l]) = 2
    <3>1. PICK r \in 1 .. Len(f) : Within(f, l, r) /\ Q = <<Root, f[r].key, f[l].key>>
      BY <1>3, <2>6
    <3>2. f[r].key = f[s].key /\ f[l].key = f[j].key
      BY <2>3, <3>1
    <3>3. P = Q
      BY <2>1, <3>1, <3>2
    <3>4. given[<<f[s].key, f[j].key>>] = ValueOf(f[j])
      BY <1>1, <1>2, <1>8, <2>1 DEF Matches
    <3>5. given[<<f[r].key, f[l].key>>] = ValueOf(f[l])
      BY <1>1, <1>3, <2>6, <3>1 DEF Matches
    <3>6. ValueOf(f[j]) = ValueOf(f[l])
      BY <3>2, <3>4, <3>5
    <3> QED
      BY <3>3, <3>6 DEF Item, P, Q
  <2> QED
    BY <1>3, <2>4, <2>5, <2>6
<1> QED
  BY <1>2, <1>6, <1>7, <1>8

(* A key of a section, at its line. *)
LEMMA KeyLine ==
  ASSUME NEW f, NEW d, Shaped(f, d), NEW i \in 1 .. Len(f), f[i].key \in Keys
  PROVE  i \in Filled(f) /\ Level(f[i]) = 2 /\ Leaf(f, i)
<1>1. i \in Filled(f)
  BY FilledLines DEF Names
<1>2. Level(f[i]) = 2
  BY <1>1, LevelOf
<1>3. Leaf(f, i)
  <2> SUFFICES ASSUME ~Leaf(f, i) PROVE FALSE
    OBVIOUS
  <2>1. f[i].value = Nothing /\ NextLine(f, i) \in Filled(f)
    BY <1>1, ValuesAreLeaves
  <2>2. PICK path \in Seq(Names) : At(f, i, path)
    BY <1>1, AtSome
  <2>3. NextLine(f, i) <= Len(f)
    BY <2>1, FilledLines
  <2>4. Level(f[NextLine(f, i)]) = 3 /\ Level(f[NextLine(f, i)]) \in 1 .. 2
    BY <1>1, <1>2, <2>2, <2>3, NextDown
  <2> QED
    BY <2>4
<1> QED
  BY <1>1, <1>2, <1>3

(* The nodes read as what the file gives. *)
LEMMA ReadsAsGiven ==
  ASSUME NEW f, NEW d, Shaped(f, d), NEW given, Matches(f, given),
         NEW made, Covers(f, made, 1, Len(f) + 1), NEW p \in Paths
  PROVE  Read(Node(made), p[1], p[2]) = given[p]
<1> DEFINE N == Len(f)
           path == <<Root, p[1], p[2]>>
<1>1. /\ N \in Nat /\ Filled(f) \in SUBSET (1 .. N)
      /\ \A j \in Filled(f) : 1 <= j /\ j < N + 1
  BY FilledLines
<1>2. made \in Seq(Made)
  BY DEF Covers
<1>3. \A n \in 1 .. Len(made) : \E j \in Filled(f), q \in Seq(Names) :
        Leaf(f, j) /\ At(f, j, q) /\ made[n] = Item(f, j, q)
  BY DEF Covers
<1>4. Apart(made)
  <2> SUFFICES ASSUME NEW a \in 1 .. Len(made), NEW b \in 1 .. Len(made)
               PROVE  /\ made[a].path = made[b].path => made[a].value = made[b].value
                      /\ made[a].path # made[b].path => ~IsPrefix(made[a].path, made[b].path)
    BY DEF Apart
  <2>1. PICK j \in Filled(f), q \in Seq(Names) : Leaf(f, j) /\ At(f, j, q) /\ made[a] = Item(f, j, q)
    BY <1>3
  <2>2. PICK l \in Filled(f), r \in Seq(Names) : Leaf(f, l) /\ At(f, l, r) /\ made[b] = Item(f, l, r)
    BY <1>3
  <2>3. IsPrefix(made[a].path, made[b].path) => made[a] = made[b]
    BY <2>1, <2>2, LeavesApart
  <2>4. made[a].path = made[b].path => IsPrefix(made[a].path, made[b].path)
    <3>1. made[a] \in Made
      BY <1>2, ElementOfSeq
    <3>2. made[a].path \in Seq(Names)
      BY <3>1 DEF Made
    <3>3. Len(made[a].path) <= Len(made[a].path)
      BY <3>2, LenProperties
    <3> QED
      BY <3>3 DEF IsPrefix
  <2> QED
    BY <2>3, <2>4
<1>5. /\ DOMAIN Node(made) = {made[n].path : n \in 1 .. Len(made)}
      /\ \A n \in 1 .. Len(made) : Node(made)[made[n].path] = made[n].value
  BY <1>2, <1>4, NodeIs
<1>6. p[1] \in Sections /\ p[2] \in Keys /\ p = <<p[1], p[2]>>
  BY DEF Paths
<1>7. Read(Node(made), p[1], p[2]) = IF path \in DOMAIN Node(made) THEN Node(made)[path] ELSE Nothing
  BY DEF Read
<1> HIDE DEF path
<1>8. CASE path \in DOMAIN Node(made)
  <2>1. PICK n \in 1 .. Len(made) : made[n].path = path
    BY <1>5, <1>8
  <2>2. PICK j \in Filled(f), q \in Seq(Names) : Leaf(f, j) /\ At(f, j, q) /\ made[n] = Item(f, j, q)
    BY <1>3
  <2>3. /\ Level(f[j]) \in 0 .. 2
        /\ Level(f[j]) = 0 => path = <<Root>>
        /\ Level(f[j]) = 1 => path = <<Root, f[j].key>>
        /\ Level(f[j]) = 2 => /\ f[j].key \in Keys
                              /\ \E s \in 1 .. Len(f) : Within(f, j, s) /\ path = <<Root, f[s].key, f[j].key>>
    <3> DEFINE P == Item(f, j, q).path
    <3>1. /\ Level(f[j]) \in 0 .. 2
          /\ Level(f[j]) = 0 => P = <<Root>>
          /\ Level(f[j]) = 1 => P = <<Root, f[j].key>>
          /\ Level(f[j]) = 2 => /\ f[j].key \in Keys
                                /\ \E s \in 1 .. Len(f) : Within(f, j, s) /\ P = <<Root, f[s].key, f[j].key>>
      BY <2>2, ItemPath
    <3>2. P = path
      BY <2>1, <2>2
    <3> HIDE DEF P
    <3> QED
      BY <3>1, <3>2
  <2>4. Len(path) = 3 /\ path[2] = p[1] /\ path[3] = p[2]
    BY DEF path
  <2>5. Level(f[j]) # 0 /\ Level(f[j]) # 1
    <3>1. Level(f[j]) = 0 => Len(path) = 1
      BY <2>3
    <3>2. Level(f[j]) = 1 => Len(path) = 2
      BY <2>3
    <3> QED
      BY <2>4, <3>1, <3>2
  <2>6. Level(f[j]) = 2
    BY <2>3, <2>5
  <2>7. PICK s \in 1 .. Len(f) : Within(f, j, s) /\ path = <<Root, f[s].key, f[j].key>>
    BY <2>3, <2>6
  <2>8. f[s].key = p[1] /\ f[j].key = p[2]
    BY <2>4, <2>7
  <2>9. given[<<f[s].key, f[j].key>>] = ValueOf(f[j])
    BY <1>1, <2>3, <2>6, <2>7 DEF Matches
  <2>10. given[p] = ValueOf(f[j])
    BY <1>6, <2>8, <2>9
  <2>11. made[n].value = ValueOf(f[j])
    BY <2>2 DEF Item
  <2> QED
    BY <1>5, <1>7, <1>8, <2>1, <2>10, <2>11
<1>9. CASE path \notin DOMAIN Node(made)
  <2> SUFFICES ASSUME given[p] # Nothing PROVE FALSE
    BY <1>7, <1>9
  <2>1. PICK i \in 1 .. Len(f), s \in 1 .. Len(f) : Within(f, i, s) /\ f[s].key = p[1] /\ f[i].key = p[2]
    BY DEF Matches
  <2>2. i \in Filled(f) /\ Level(f[i]) = 2 /\ Leaf(f, i)
    BY <1>6, <2>1, KeyLine
  <2>3. PICK n \in 1 .. Len(made), q \in Seq(Names) : At(f, i, q) /\ made[n] = Item(f, i, q)
    BY <1>1, <2>2 DEF Covers
  <2>4. PICK r \in 1 .. Len(f) : Within(f, i, r) /\ made[n].path = <<Root, f[r].key, f[i].key>>
    BY <2>2, <2>3, ItemPath
  <2>5. r = s
    BY <2>1, <2>4, WithinOne
  <2>6. made[n].path = path
    BY <2>1, <2>4, <2>5 DEF path
  <2> QED
    BY <1>5, <1>9, <2>6
<1> QED
  BY <1>8, <1>9

(* A pinched name is what the file is refused for. *)
LEMMA PinchedIsTight ==
  ASSUME NEW d, Shaped(file, d)
  PROVE  AnyTight(file, 1, Len(file) + 1) <=> \E i \in DOMAIN file : Pinched(i)
<1>1. /\ Len(file) \in Nat /\ DOMAIN file = 1 .. Len(file) /\ Filled(file) \in SUBSET (1 .. Len(file))
      /\ Filled(file) = {i \in 1 .. Len(file) : file[i].key \in Names}
  BY FilledLines
<1>2. ASSUME NEW i \in Filled(file), Tight(file, i) PROVE Pinched(i)
  <2>1. file[i].key \in Names /\ file[i] \in Lines
    BY <1>1, FilledLines
  <2>2. file[i].key # Root
    <3> SUFFICES ASSUME file[i].key = Root PROVE FALSE
      OBVIOUS
    <3>1. file[i].offset = 0
      BY LevelOf
    <3>2. WidthOf[file[i].key] \in Nat
      BY <2>1, ConfigAssumption
    <3> QED
      BY <1>2, <3>1, <3>2 DEF Tight
  <2> QED
    BY <1>2, <2>1, <2>2 DEF Tight, Pinched, Leaf, NextLine, Names
<1>3. ASSUME NEW i \in DOMAIN file, Pinched(i) PROVE i \in Filled(file) /\ Tight(file, i)
  <2>1. file[i].key \in Names
    BY <1>3 DEF Pinched, Names
  <2> QED
    BY <1>1, <1>3, <2>1 DEF Tight, Pinched, Leaf, NextLine
<1>4. \A i \in Filled(file) : 1 <= i /\ i < Len(file) + 1
  BY <1>1
<1> QED
  BY <1>1, <1>2, <1>3, <1>4 DEF AnyTight

-------------------------------------------------------------------------------
(* The environment                                                            *)

(* A line more is where it is, and changes nothing for those before it. *)
LEMMA Appended ==
  ASSUME NEW f \in Seq(Lines), NEW line \in Lines
  PROVE  LET g == Append(f, line)
             N == Len(f)
         IN  /\ N \in Nat /\ g \in Seq(Lines) /\ g # <<>> /\ Len(g) = N + 1
             /\ g[N + 1] = line /\ \A i \in 1 .. N : g[i] = f[i]
             /\ \A i \in 1 .. N, s \in 1 .. N + 1 : Within(g, i, s) <=> Within(f, i, s)
<1> DEFINE g == Append(f, line)
           N == Len(f)
<1>1. N \in Nat
  BY LenProperties
<1>2. g \in Seq(Lines) /\ g # <<>> /\ Len(g) = N + 1 /\ g[N + 1] = line /\ \A i \in 1 .. N : g[i] = f[i]
  BY AppendProperties
<1> HIDE DEF g, N
<1>3. \A i \in 1 .. N, s \in 1 .. N + 1 : Within(g, i, s) <=> Within(f, i, s)
  <2> TAKE i \in 1 .. N, s \in 1 .. N + 1
  <2>1. CASE s \in 1 .. i
    <3>1. g[s] = f[s]
      BY <1>1, <1>2, <2>1
    <3>2. \A j \in s + 1 .. i : g[j] = f[j]
      BY <1>1, <1>2, <2>1
    <3> QED
      BY <3>1, <3>2 DEF Within
  <2>2. CASE s \notin 1 .. i
    BY <2>2 DEF Within
  <2> QED
    BY <2>1, <2>2
<1> QED
  BY <1>1, <1>2, <1>3 DEF g, N

(* The section of a line behind the last section. *)
LEMMA LastSection ==
  ASSUME NEW f, NEW d, Shaped(f, d), \E i \in DOMAIN f : f[i].key \in Sections
  PROVE  LET s == Max({i \in DOMAIN f : f[i].key \in Sections})
         IN  /\ s \in 1 .. Len(f) /\ f[s].key \in Sections
             /\ \A j \in s + 1 .. Len(f) : f[j].key \notin Sections
<1> DEFINE N == Len(f)
           T == {i \in DOMAIN f : f[i].key \in Sections}
<1>1. N \in Nat /\ DOMAIN f = 1 .. N
  BY FilledLines
<1>2. T \in SUBSET (1 .. N) /\ T # {} /\ T \in SUBSET Nat
  BY <1>1
<1> HIDE DEF T
<1>3. PICK m \in T : \A k \in T : k <= m
  BY <1>1, <1>2, GreatestNumber
<1>4. Max(T) = m
  BY <1>2, <1>3, MaxIs
<1>5. m \in 1 .. N /\ f[m].key \in Sections
  BY <1>1 DEF T
<1>6. \A j \in m + 1 .. N : f[j].key \notin Sections
  <2> TAKE j \in m + 1 .. N
  <2>1. j \in 1 .. N /\ ~(j <= m)
    BY <1>1, <1>5
  <2> QED
    BY <1>1, <1>3, <2>1 DEF T
<1> QED
  BY <1>4, <1>5, <1>6 DEF T

(* A line that may be written keeps the file in shape. *)
LEMMA ShapedAppend ==
  ASSUME NEW f, NEW d, Shaped(f, d), NEW e \in Nat, e = d \/ d = 0,
         NEW line \in Lines, line.key # Root,
         line.key = Nothing => line.value = Nothing,
         line.key # Nothing => line.offset = Level(line) * e,
         line.key \notin Keys => line.value = Nothing,
         line.key \in Keys => \E i \in DOMAIN f : f[i].key \in Sections,
         line.key \in Sections => e > 0 /\ \A i \in DOMAIN f : f[i].key # line.key
  PROVE  Shaped(Append(f, line), e)
<1> DEFINE N == Len(f)
           g == Append(f, line)
<1>1. /\ N \in Nat /\ N >= 1 /\ DOMAIN f = 1 .. N /\ f \in Seq(Lines)
      /\ Filled(f) = {i \in 1 .. N : f[i].key # Nothing}
  BY FilledLines DEF Shaped
<1>2. /\ g \in Seq(Lines) /\ g # <<>> /\ Len(g) = N + 1
      /\ g[N + 1] = line /\ \A i \in 1 .. N : g[i] = f[i]
      /\ \A i \in 1 .. N, s \in 1 .. N + 1 : Within(g, i, s) <=> Within(f, i, s)
  BY <1>1, Appended
<1> HIDE DEF g
<1>3. \A i \in 1 .. N + 1 : i \in 1 .. N \/ i = N + 1
  BY <1>1
<1>4. g[1].key = Root /\ g[1].value = Nothing
  BY <1>1, <1>2 DEF Shaped
<1>5. \A i \in 1 .. N + 1 : g[i].key = Nothing => g[i].value = Nothing
  BY <1>2, <1>3 DEF Shaped
<1>6. \A i \in 2 .. N + 1 : g[i].key # Root
  <2> TAKE i \in 2 .. N + 1
  <2>1. CASE i = N + 1
    BY <1>2, <2>1
  <2>2. CASE i # N + 1
    <3>1. i \in 2 .. N /\ i \in 1 .. N
      BY <1>1, <2>2
    <3> QED
      BY <1>2, <3>1 DEF Shaped
  <2> QED
    BY <2>1, <2>2
<1>7. \A i \in 1 .. N : f[i].key # Nothing => f[i].offset = Level(f[i]) * e
  <2> TAKE i \in 1 .. N
  <2> HAVE f[i].key # Nothing
  <2>1. CASE e = d
    BY <2>1 DEF Shaped
  <2>2. CASE d = 0
    <3>1. i \in Filled(f)
      BY <1>1
    <3>2. i = 1
      BY <2>2, <3>1, LevelOf
    <3>3. Level(f[i]) = 0 /\ f[i].offset = Level(f[i]) * d
      BY <3>1, <3>2, LevelOf
    <3> QED
      BY <2>2, <3>3
  <2> QED
    BY <2>1, <2>2
<1>8. \A i \in 1 .. N + 1 : g[i].key # Nothing => g[i].offset = Level(g[i]) * e
  BY <1>2, <1>3, <1>7
<1>9. \A i \in 1 .. N + 1 : g[i].key \notin Keys => g[i].value = Nothing
  BY <1>2, <1>3 DEF Shaped
<1>10. \A i \in 1 .. N + 1 : g[i].key \in Keys => \E s \in 1 .. N + 1 : Within(g, i, s)
  <2> TAKE i \in 1 .. N + 1
  <2> HAVE g[i].key \in Keys
  <2>1. CASE i \in 1 .. N
    <3>1. PICK s \in 1 .. N : Within(f, i, s)
      BY <1>2, <2>1 DEF Shaped
    <3>2. s \in 1 .. N + 1
      BY <1>1
    <3> QED
      BY <1>2, <2>1, <3>1, <3>2
  <2>2. CASE i = N + 1
    <3> DEFINE s == Max({j \in DOMAIN f : f[j].key \in Sections})
    <3>1. \E j \in DOMAIN f : f[j].key \in Sections
      BY <1>2, <2>2
    <3>2. /\ s \in 1 .. N /\ f[s].key \in Sections
          /\ \A j \in s + 1 .. N : f[j].key \notin Sections
      BY <3>1, LastSection
    <3> HIDE DEF s
    <3>3. g[s].key \in Sections /\ s \in 1 .. N + 1
      BY <1>1, <1>2, <3>2
    <3>4. line.key \notin Sections
      BY <1>2, <2>2, ConfigAssumption
    <3>5. \A j \in s + 1 .. N + 1 : g[j].key \notin Sections
      <4> TAKE j \in s + 1 .. N + 1
      <4>1. j \in s + 1 .. N \/ j = N + 1
        BY <1>1, <3>2
      <4>2. j \in s + 1 .. N => j \in 1 .. N
        BY <1>1, <3>2
      <4> QED
        BY <1>2, <3>2, <3>4, <4>1, <4>2
    <3> QED
      BY <2>2, <3>3, <3>5 DEF Within
  <2> QED
    BY <1>3, <2>1, <2>2
<1>11. \A i \in 1 .. N + 1 : g[i].key \in Sections => e > 0
  <2> TAKE i \in 1 .. N + 1
  <2> HAVE g[i].key \in Sections
  <2>1. CASE i \in 1 .. N
    <3>1. d > 0 /\ d \in Nat
      BY <1>2, <2>1 DEF Shaped
    <3> QED
      BY <3>1
  <2>2. CASE i = N + 1
    BY <1>2, <2>2
  <2> QED
    BY <1>3, <2>1, <2>2
<1>12. \A i, j \in 1 .. N + 1 : g[i].key \in Sections /\ g[i].key = g[j].key => i = j
  <2> TAKE i, j \in 1 .. N + 1
  <2> HAVE g[i].key \in Sections /\ g[i].key = g[j].key
  <2>1. CASE i \in 1 .. N /\ j \in 1 .. N
    BY <1>2, <2>1 DEF Shaped
  <2>2. CASE i \in 1 .. N /\ j = N + 1
    BY <1>1, <1>2, <2>2
  <2>3. CASE i = N + 1 /\ j \in 1 .. N
    BY <1>1, <1>2, <2>3
  <2> QED
    BY <1>3, <2>1, <2>2, <2>3
<1>13. Shaped(g, e)
  BY <1>2, <1>4, <1>5, <1>6, <1>8, <1>9, <1>10, <1>11, <1>12 DEF Shaped
<1> QED
  BY <1>13 DEF g

(* A line without a key keeps what the file gives. *)
LEMMA MatchesAppend ==
  ASSUME NEW f \in Seq(Lines), NEW given, Matches(f, given), NEW line \in Lines, line.key \notin Keys
  PROVE  Matches(Append(f, line), given)
<1> DEFINE N == Len(f)
           g == Append(f, line)
<1>1. /\ N \in Nat /\ Len(g) = N + 1
      /\ g[N + 1] = line /\ \A i \in 1 .. N : g[i] = f[i]
      /\ \A i \in 1 .. N, s \in 1 .. N + 1 : Within(g, i, s) <=> Within(f, i, s)
  BY Appended
<1> HIDE DEF g
<1>2. \A i \in 1 .. N + 1 : i \in 1 .. N \/ i = N + 1
  BY <1>1
<1>3. ASSUME NEW i \in 1 .. N + 1, NEW s \in 1 .. N + 1, g[i].key \in Keys, Within(g, i, s)
      PROVE  given[<<g[s].key, g[i].key>>] = ValueOf(g[i])
  <2>1. i \in 1 .. N
    BY <1>1, <1>2, <1>3
  <2>2. Within(f, i, s)
    BY <1>1, <1>3, <2>1
  <2>3. s \in 1 .. N
    BY <1>1, <2>1, <2>2 DEF Within
  <2> QED
    BY <1>1, <1>3, <2>1, <2>2, <2>3 DEF Matches
<1>4. ASSUME NEW p \in Paths, given[p] # Nothing
      PROVE  \E i, s \in 1 .. N + 1 : Within(g, i, s) /\ g[s].key = p[1] /\ g[i].key = p[2]
  <2>1. PICK i \in 1 .. N, s \in 1 .. N : Within(f, i, s) /\ f[s].key = p[1] /\ f[i].key = p[2]
    BY <1>4 DEF Matches
  <2>2. i \in 1 .. N + 1 /\ s \in 1 .. N + 1
    BY <1>1
  <2> QED
    BY <1>1, <2>1, <2>2
<1>5. given \in [Paths -> Texts \cup {LineEnd, Nothing}]
  BY DEF Matches
<1>6. Matches(g, given)
  BY <1>1, <1>3, <1>4, <1>5 DEF Matches
<1> QED
  BY <1>6 DEF g

(* A line with a key that its section does not have yet. *)
LEMMA MatchesKey ==
  ASSUME NEW f, NEW d, Shaped(f, d), NEW given, Matches(f, given),
         NEW s \in 1 .. Len(f), f[s].key \in Sections, \A j \in s + 1 .. Len(f) : f[j].key \notin Sections,
         NEW k \in Keys, NEW line \in Lines, line.key = k, given[<<f[s].key, k>>] = Nothing
  PROVE  Matches(Append(f, line), [given EXCEPT ![<<f[s].key, k>>] = ValueOf(line)])
<1> DEFINE N == Len(f)
           g == Append(f, line)
           here == <<f[s].key, k>>
           new == [given EXCEPT ![here] = ValueOf(line)]
<1>1. /\ N \in Nat /\ Len(g) = N + 1 /\ f \in Seq(Lines)
      /\ g[N + 1] = line /\ \A i \in 1 .. N : g[i] = f[i]
      /\ \A i \in 1 .. N, r \in 1 .. N + 1 : Within(g, i, r) <=> Within(f, i, r)
  <2>1. f \in Seq(Lines)
    BY DEF Shaped
  <2> QED
    BY <2>1, Appended
<1> HIDE DEF g
<1>2. \A i \in 1 .. N + 1 : i \in 1 .. N \/ i = N + 1
  BY <1>1
<1>3. here \in Paths /\ here[1] = f[s].key /\ here[2] = k
  BY DEF Paths
<1>4. \A value \in Texts \cup {LineEnd} : value # Nothing
  BY ConfigAssumption
<1>5. ValueOf(line) \in Texts \cup {LineEnd}
  BY DEF ValueOf, Lines, Given
<1>6. given \in [Paths -> Texts \cup {LineEnd, Nothing}]
  BY DEF Matches
<1> HIDE DEF here
<1>7. new \in [Paths -> Texts \cup {LineEnd, Nothing}] /\ new[here] = ValueOf(line)
      /\ \A p \in Paths : p # here => new[p] = given[p]
  BY <1>3, <1>5, <1>6
<1> HIDE DEF new
<1>8. Within(g, N + 1, s)
  <2>1. s \in 1 .. N + 1 /\ g[s].key \in Sections
    BY <1>1
  <2>2. line.key \notin Sections
    BY ConfigAssumption
  <2>3. \A j \in s + 1 .. N + 1 : g[j].key \notin Sections
    <3> TAKE j \in s + 1 .. N + 1
    <3>1. j \in s + 1 .. N \/ j = N + 1
      BY <1>1
    <3>2. j \in s + 1 .. N => j \in 1 .. N
      BY <1>1
    <3> QED
      BY <1>1, <2>2, <3>1, <3>2
  <2> QED
    BY <2>1, <2>3 DEF Within
<1>9. ASSUME NEW i \in 1 .. N + 1, NEW r \in 1 .. N + 1, g[i].key \in Keys, Within(g, i, r)
      PROVE  new[<<g[r].key, g[i].key>>] = ValueOf(g[i])
  <2>1. CASE i \in 1 .. N
    <3>1. Within(f, i, r)
      BY <1>1, <1>9, <2>1
    <3>2. r \in 1 .. N /\ f[r].key \in Sections
      BY <1>1, <2>1, <3>1 DEF Within
    <3>3. given[<<f[r].key, f[i].key>>] = ValueOf(f[i]) /\ f[i].key \in Keys
      BY <1>1, <1>9, <2>1, <3>1, <3>2 DEF Matches
    <3>4. f[i] \in Lines
      BY <1>1, <2>1, ElementOfSeq
    <3>5. ValueOf(f[i]) \in Texts \cup {LineEnd}
      BY <3>4 DEF ValueOf, Lines, Given
    <3>6. <<f[r].key, f[i].key>> # here /\ <<f[r].key, f[i].key>> \in Paths
      BY <1>4, <3>2, <3>3, <3>5 DEF Paths, here
    <3> QED
      BY <1>1, <1>7, <2>1, <3>2, <3>3, <3>6
  <2>2. CASE i = N + 1
    <3>1. N + 1 \in Nat
      BY <1>1
    <3>2. r = s
      BY <1>8, <1>9, <2>2, <3>1, WithinOne
    <3>3. <<g[r].key, g[i].key>> = here /\ g[i] = line
      BY <1>1, <2>2, <3>2 DEF here
    <3> QED
      BY <1>7, <3>3
  <2> QED
    BY <1>2, <2>1, <2>2
<1>10. ASSUME NEW p \in Paths, new[p] # Nothing
       PROVE  \E i, r \in 1 .. N + 1 : Within(g, i, r) /\ g[r].key = p[1] /\ g[i].key = p[2]
  <2>1. CASE p = here
    <3>1. N + 1 \in 1 .. N + 1 /\ s \in 1 .. N + 1 /\ g[s].key = p[1] /\ g[N + 1].key = p[2]
      BY <1>1, <1>3, <2>1
    <3> QED
      BY <1>8, <3>1
  <2>2. CASE p # here
    <3>1. PICK i \in 1 .. N, r \in 1 .. N : Within(f, i, r) /\ f[r].key = p[1] /\ f[i].key = p[2]
      BY <1>7, <1>10, <2>2 DEF Matches
    <3>2. i \in 1 .. N + 1 /\ r \in 1 .. N + 1
      BY <1>1
    <3> QED
      BY <1>1, <3>1, <3>2
  <2> QED
    BY <2>1, <2>2
<1>11. Matches(g, new)
  BY <1>1, <1>7, <1>9, <1>10 DEF Matches
<1> QED
  BY <1>11 DEF g, new, here

(* The file has the shape of one that is written, and what it gives is what   *)
(* its lines say.                                                             *)
ConfigInv == Shaped(file, indent) /\ Matches(file, intended)

(* A file with the root key alone. *)
LEMMA ConfigInvInit ==
  ConfigInit => ConfigInv
<1> SUFFICES ASSUME ConfigInit PROVE ConfigInv
  OBVIOUS
<1> DEFINE line == Line(0, Root, Nothing, "none")
<1>1. file = <<line>> /\ indent = 0 /\ intended = [p \in Paths |-> Nothing]
  BY DEF ConfigInit
<1>2. /\ line \in Lines /\ line.key = Root /\ line.value = Nothing /\ line.offset = 0
      /\ Root # Nothing /\ Root \notin Sections /\ Root \notin Keys
  BY ConfigAssumption DEF Line, Lines, Said, Given, Names
<1> HIDE DEF line
<1>3. file \in Seq(Lines) /\ Len(file) = 1 /\ file # <<>> /\ file[1] = line
  BY <1>1, <1>2
<1>4. Level(line) * 0 = 0
  BY <1>2 DEF Level
<1>5. \A i \in 1 .. Len(file) : i = 1
  BY <1>3
<1>6. \A i \in 2 .. Len(file) : FALSE
  BY <1>3
<1>7. Shaped(file, indent)
  BY <1>1, <1>2, <1>3, <1>4, <1>5, <1>6 DEF Shaped
<1>8. Matches(file, intended)
  BY <1>1, <1>2, <1>3, <1>5 DEF Matches
<1> QED
  BY <1>7, <1>8 DEF ConfigInv

(* Each line that is written keeps the shape; a key takes its value to the    *)
(* section it is in and to no other.                                          *)
LEMMA ConfigInvStep ==
  ConfigInv /\ [WriteLine]_configVars => ConfigInv'
<1> SUFFICES ASSUME ConfigInv, [WriteLine]_configVars PROVE ConfigInv'
  OBVIOUS
<1>1. Shaped(file, indent) /\ Matches(file, intended) /\ file \in Seq(Lines) /\ indent \in Nat
  BY DEF ConfigInv, Shaped
<1>2. /\ Nothing \notin Keys /\ Nothing \notin Sections /\ Nothing # Root
      /\ Root \notin Keys /\ Root \notin Sections /\ \A k \in Keys : k \notin Sections
  BY ConfigAssumption DEF Names
<1>3. ASSUME NEW s \in Sections, WriteSection(s) PROVE ConfigInv'
  <2> DEFINE line == Line(indent', s, Nothing, "none")
  <2>1. /\ \A i \in DOMAIN file : file[i].key # s
        /\ indent' \in IF indent = 0 THEN Indents ELSE {indent}
        /\ file' = Append(file, line) /\ intended' = intended
    BY <1>3 DEF WriteSection, Write
  <2>2. indent' \in Nat /\ indent' > 0 /\ (indent' = indent \/ indent = 0)
    <3>1. CASE indent = 0
      BY <2>1, <3>1, ConfigAssumption
    <3>2. CASE indent # 0
      BY <1>1, <2>1, <3>2
    <3> QED
      BY <3>1, <3>2
  <2>3. line \in Lines /\ line.key = s /\ line.value = Nothing /\ line.offset = indent'
    BY <2>2 DEF Line, Lines, Said, Given, Names
  <2> HIDE DEF line
  <2>4. s # Root /\ s # Nothing /\ s \notin Keys
    BY <1>2
  <2>5. Level(line) = 1
    BY <2>3, <2>4 DEF Level
  <2>6. line.offset = Level(line) * indent'
    <3> DEFINE e == indent'
    <3>1. e \in Nat /\ line.offset = e
      BY <2>2, <2>3
    <3> HIDE DEF e
    <3>2. line.offset = Level(line) * e
      BY <2>5, <3>1
    <3> QED
      BY <3>2 DEF e
  <2>7. Shaped(Append(file, line), indent')
    BY <1>1, <2>1, <2>2, <2>3, <2>4, <2>6, ShapedAppend
  <2>8. Matches(Append(file, line), intended)
    BY <1>1, <2>3, <2>4, MatchesAppend
  <2> QED
    BY <2>1, <2>7, <2>8 DEF ConfigInv
<1>4. ASSUME NEW k \in Keys, NEW v \in Texts \cup {Nothing}, WriteKey(k, v) PROVE ConfigInv'
  <2> DEFINE line == Line(2 * indent, k, v, "none")
             s == Max({i \in DOMAIN file : file[i].key \in Sections})
  <2>1. /\ \E i \in DOMAIN file : file[i].key \in Sections
        /\ intended[<<CurrentSection, k>>] = Nothing
        /\ file' = Append(file, line) /\ indent' = indent
        /\ intended' = [intended EXCEPT ![<<CurrentSection, k>>] = IF v = Nothing THEN LineEnd ELSE v]
    BY <1>4 DEF WriteKey, Write
  <2>2. /\ s \in 1 .. Len(file) /\ file[s].key \in Sections
        /\ \A j \in s + 1 .. Len(file) : file[j].key \notin Sections
    BY <1>1, <2>1, LastSection
  <2>3. CurrentSection = file[s].key
    BY DEF CurrentSection
  <2>4. line \in Lines /\ line.key = k /\ line.value = v /\ line.offset = 2 * indent
    BY <1>1 DEF Line, Lines, Said, Given, Names
  <2> HIDE DEF line, s
  <2>5. k # Root /\ k # Nothing /\ k \notin Sections
    BY <1>2
  <2>6. Level(line) = 2
    BY <2>4, <2>5 DEF Level
  <2>7. line.offset = Level(line) * indent
    BY <2>4, <2>6
  <2>8. Shaped(Append(file, line), indent)
    BY <1>1, <2>1, <2>4, <2>5, <2>7, ShapedAppend
  <2>9. ValueOf(line) = IF v = Nothing THEN LineEnd ELSE v
    BY <2>4 DEF ValueOf
  <2>10. Matches(Append(file, line), [intended EXCEPT ![<<file[s].key, k>>] = ValueOf(line)])
    BY <1>1, <2>1, <2>2, <2>3, <2>4, MatchesKey
  <2> QED
    BY <2>1, <2>3, <2>8, <2>9, <2>10 DEF ConfigInv
<1>5. ASSUME WriteBlank PROVE ConfigInv'
  <2> DEFINE line == Line(0, Nothing, Nothing, "none")
  <2>1. file' = Append(file, line) /\ indent' = indent /\ intended' = intended
    BY <1>5 DEF WriteBlank, Write
  <2>2. line \in Lines /\ line.key = Nothing /\ line.value = Nothing
    BY DEF Line, Lines, Said, Given
  <2> HIDE DEF line
  <2>3. Shaped(Append(file, line), indent)
    BY <1>1, <1>2, <2>2, ShapedAppend
  <2>4. Matches(Append(file, line), intended)
    BY <1>1, <1>2, <2>2, MatchesAppend
  <2> QED
    BY <2>1, <2>3, <2>4 DEF ConfigInv
<1>6. CASE UNCHANGED configVars
  BY <1>1, <1>6 DEF configVars, ConfigInv
<1> QED
  BY <1>3, <1>4, <1>5, <1>6 DEF WriteLine

(* A file of this shape is read as its lines say, or refused if a name in it  *)
(* is pinched.                                                                *)
LEMMA ConfigInvReads ==
  ConfigInv => ConfigReadsBack
<1> SUFFICES ASSUME ConfigInv PROVE ConfigReadsBack
  OBVIOUS
<1> DEFINE config == ParseRoot(file)
<1>1. Shaped(file, indent) /\ Matches(file, intended)
  BY DEF ConfigInv
<1>2. /\ config.refused \in BOOLEAN /\ (config.refused <=> AnyTight(file, 1, Len(file) + 1))
      /\ ~config.refused => Covers(file, config.made, 1, Len(file) + 1)
  BY <1>1, ParseRootIs
<1> HIDE DEF config
<1>3. config.refused <=> \E i \in DOMAIN file : Pinched(i)
  BY <1>1, <1>2, PinchedIsTight
<1>4. ~config.refused => \A p \in Paths : Read(Node(config.made), p[1], p[2]) = intended[p]
  BY <1>1, <1>2, ReadsAsGiven
<1>5. AsIntended(config)
  BY <1>3, <1>4, Zenon DEF AsIntended
<1> QED
  BY <1>5 DEF ConfigReadsBack, config

(* Whatever file is written, whatever the order and the number of sections,   *)
(* keys and blank lines in it: Auth reads each key as the file gives it in    *)
(* its own section and an empty text if the file does not, and the parser     *)
(* refuses a file with a pinched name and no other.                           *)
THEOREM ConfigAlwaysReadsBack ==
  ConfigInit /\ [][WriteLine]_configVars => []ConfigReadsBack
BY ConfigInvInit, ConfigInvStep, ConfigInvReads, PTL

===============================================================================
