------------------------------- MODULE Calendar -------------------------------
(* Time stamps: Utils::Datetime (include/cryptoconnect/helpers/utils/         *)
(* datetime.hpp) and the part of the date library (include/date/date.h) that  *)
(* date::parse("%FT%T", timePoint) runs.                                      *)
(*                                                                            *)
(* Write is gmtime and strftime: it follows the Gregorian calendar, which is  *)
(* stepped one day at a time by Tomorrow and knows nothing of the date        *)
(* library's formulas.  Read is the library: it parses the characters and     *)
(* computes the day number.  A time is [days, second, fraction] rather than a *)
(* 64-bit count, whose value is beyond TLC's integers: the wrap of a time     *)
(* before 1970 to uint64_t is out of the model.                               *)
EXTENDS Integers, Sequences

CONSTANTS
  Width,     \* decimals of the Duration a time is parsed into (9: nanoseconds)
  LastDay    \* the bound on the days stepped through

ASSUME CalendarAssumption == Width \in Nat \ {0} /\ LastDay \in Nat

VARIABLES
  days,      \* days since 1970-01-01
  date       \* the date of that day

calendarVars == <<days, date>>

(* Mutant of IsLeap: every fourth year, and no century. *)
IsLeapNoCentury(y) == y % 4 = 0 /\ y % 100 # 0

IsLeap(y) == y % 4 = 0 /\ (y % 100 # 0 \/ y % 400 = 0)

(* year_month_day_last::day.                                                  *)
LastOfMonth(y, m) ==
  IF m # 2 \/ ~IsLeap(y)
  THEN <<31, 28, 31, 30, 31, 30, 31, 31, 30, 31, 30, 31>>[m]
  ELSE 29

(* year_month_day::ok.                                                        *)
Ok(d) == d.month \in 1..12 /\ d.day \in 1..LastOfMonth(d.year, d.month)

(* year_month_day::to_days: years start in March, eras have 400 years.        *)
ToDays(d) ==
  LET y   == IF d.month <= 2 THEN d.year - 1 ELSE d.year
      era == y \div 400
      yoe == y - era * 400
      doy == (153 * (IF d.month > 2 THEN d.month - 3 ELSE d.month + 9) + 2) \div 5
               + d.day - 1
      doe == yoe * 365 + yoe \div 4 - yoe \div 100 + doy
  IN  era * 146097 + doe - 719468

-------------------------------------------------------------------------------
(* Characters are integers: a digit is itself.                                *)
Dash  == 10
Colon == 11
Tee   == 12
Dot   == 13
Zulu  == 14
Plus  == 15

Digit == 0..9

(* An input stream is [text, at, failed, value]; value is what was read last.  *)
(* A reader takes the stream on and does nothing once it has failed.          *)
NextChar(in) == IF in.at <= Len(in.text) THEN in.text[in.at] ELSE -1

Past(in, n) == [in EXCEPT !.at = @ + n]

Failed(in) == [in EXCEPT !.failed = TRUE]

Pow10[n \in Nat] == IF n = 0 THEN 1 ELSE 10 * Pow10[n - 1]

Decimal(digits) ==
  LET value[n \in 0..Len(digits)] ==
        IF n = 0 THEN 0 ELSE 10 * value[n - 1] + digits[n]
  IN  value[Len(digits)]

(* The longest run of digits at the front, of at most n.                      *)
Run(in, n) ==
  LET last   == IF in.at + n - 1 <= Len(in.text) THEN in.at + n - 1 ELSE Len(in.text)
      others == {i \in in.at..last : in.text[i] \notin Digit} \cup {last + 1}
  IN  SubSeq(in.text, in.at, (CHOOSE i \in others : \A j \in others : i <= j) - 1)

(* read_unsigned with m = 1.                                                  *)
ReadUnsigned(in, most) ==
  LET digits == Run(in, most)
  IN  IF in.failed \/ digits = <<>> THEN Failed(in)
      ELSE [Past(in, Len(digits)) EXCEPT !.value = Decimal(digits)]

(* read_signed with m = 1.                                                    *)
ReadSigned(in, most) ==
  LET magnitude == ReadUnsigned(Past(in, IF NextChar(in) \in {Dash, Plus} THEN 1 ELSE 0), most)
  IN  IF NextChar(in) = Dash THEN [magnitude EXCEPT !.value = -@] ELSE magnitude

(* read(is, CharT).                                                           *)
ReadChar(in, c) == IF in.failed \/ NextChar(in) # c THEN Failed(in) ELSE Past(in, 1)

(* The decimals behind the whole seconds, if any: at most "most" characters   *)
(* are read in all, of which one may be the point.                            *)
Decimals(in, whole, most) ==
  IF Len(whole) < most /\ NextChar(Past(in, Len(whole))) = Dot
  THEN [point |-> 1, digits |-> Run(Past(in, Len(whole) + 1), most - Len(whole) - 1)]
  ELSE [point |-> 0, digits |-> <<>>]

(* Mutant of Units: the digits are taken for units of the Duration, however   *)
(* many there are. *)
UnitsUnscaled(digits) == Decimal(digits)

(* The rounding of a fraction to units of the Duration.                       *)
Units(digits) ==
  LET extra == Len(digits) - Width
  IN  IF extra <= 0 THEN Decimal(digits) * Pow10[-extra]
      ELSE (Decimal(digits) + Pow10[extra] \div 2) \div Pow10[extra]

Seconds(whole, units) ==
  [second |-> Decimal(whole) + units \div Pow10[Width], fraction |-> units % Pow10[Width]]

(* read_long_double with m = 1.                                               *)
ReadSeconds(in, most) ==
  LET whole    == Run(in, most)
      decimals == Decimals(in, whole, most)
      length   == Len(whole) + decimals.point + Len(decimals.digits)
  IN  IF in.failed \/ length = 0 THEN Failed(in)
      ELSE [Past(in, length) EXCEPT !.value = Seconds(whole, Units(decimals.digits))]

(* %F of from_stream, in three parts.                                         *)
ReadDay(month, y) ==
  [ReadUnsigned(ReadChar(month, Dash), 2) EXCEPT
     !.value = [year |-> y, month |-> month.value, day |-> @]]

ReadMonth(year) == ReadDay(ReadUnsigned(ReadChar(year, Dash), 2), year.value)

ReadDate(in) == ReadMonth(ReadSigned(in, 4))

(* %T of from_stream, in three parts.                                         *)
ReadSecond(minute, h) ==
  [ReadSeconds(ReadChar(minute, Colon), 3 + Width) EXCEPT
     !.value = [hour |-> h, minute |-> minute.value, seconds |-> @]]

ReadMinute(hour) == ReadSecond(ReadUnsigned(ReadChar(hour, Colon), 2), hour.value)

ReadTime(in) == ReadMinute(ReadUnsigned(in, 2))

(* hh_mm_ss::in_conventional_range.                                           *)
InConventionalRange(tod) == tod.hour < 24 /\ tod.minute < 60 /\ tod.seconds.second < 60

Epoch == [days |-> 0, second |-> 0, fraction |-> 0]

(* from_stream of a sys_time: what cannot be read, or is no date or time of   *)
(* day, leaves the time point as it was made: zero.                           *)
TimePoint(ymd, time) ==
  IF time.failed THEN Epoch
  ELSE IF ~Ok(ymd.value) \/ ~InConventionalRange(time.value) THEN Epoch
  ELSE [days     |-> ToDays(ymd.value),
        second   |-> (time.value.hour * 60 + time.value.minute) * 60
                       + time.value.seconds.second,
        fraction |-> time.value.seconds.fraction]

FromStream(ymd) == TimePoint(ymd, ReadTime(ReadChar(ymd, Tee)))

(* isostringToEpoch                                                           *)
IsostringToEpoch(text) ==
  FromStream(ReadDate([text |-> text, at |-> 1, failed |-> FALSE, value |-> 0]))

(* epochToIsostring: the date comes from gmtime, the layout from strftime.    *)
TwoDigits(n) == <<n \div 10, n % 10>>

EpochToIsostring(d, second) ==
  TwoDigits(d.year \div 100) \o TwoDigits(d.year % 100) \o <<Dash>> \o TwoDigits(d.month)
    \o <<Dash>> \o TwoDigits(d.day) \o <<Tee>> \o TwoDigits(second \div 3600) \o <<Colon>>
    \o TwoDigits((second \div 60) % 60) \o <<Colon>> \o TwoDigits(second % 60)

-------------------------------------------------------------------------------
CalendarInit ==
  /\ days = 0
  /\ date = [year |-> 1970, month |-> 1, day |-> 1]

(* The proleptic Gregorian calendar, day by day.                              *)
GregorianLeap(y) == y % 400 = 0 \/ (y % 4 = 0 /\ y % 100 # 0)

MonthLength(y, m) ==
  IF m \in {4, 6, 9, 11} THEN 30
  ELSE IF m # 2 THEN 31
  ELSE IF GregorianLeap(y) THEN 29 ELSE 28

Tomorrow ==
  /\ days < LastDay
  /\ days' = days + 1
  /\ date' = IF date.day < MonthLength(date.year, date.month)
             THEN [date EXCEPT !.day = @ + 1]
             ELSE IF date.month < 12
             THEN [date EXCEPT !.day = 1, !.month = @ + 1]
             ELSE [year |-> date.year + 1, month |-> 1, day |-> 1]

(* ToDays numbers the days of the calendar in order, through leap years and   *)
(* centuries, and Ok refuses the day after the last of a month.               *)
DaysAreCalendarDays ==
  /\ ToDays(date) = days
  /\ Ok(date)
  /\ date.day = MonthLength(date.year, date.month) => ~Ok([date EXCEPT !.day = @ + 1])

(* A time that epochToIsostring writes, and the exchange gives back with any  *)
(* fraction the Duration holds and a Z, is read as the same time: orders,     *)
(* trades and ticks are reported at the time the exchange gives them.         *)
TimesOfDay == {0, 9 * 3600 + 5 * 60 + 59, 86399}

Fractions == {<<>>} \cup {<<Dot>> \o [i \in 1..n |-> (i + 6) % 10] : n \in 1..Width}

TimesReadBack ==
  date.day \in {1, MonthLength(date.year, date.month)} =>
    \A t \in TimesOfDay, f \in Fractions :
      IsostringToEpoch(EpochToIsostring(date, t) \o f \o <<Zulu>>)
        = [days |-> days, second |-> t,
           fraction |-> IF f = <<>> THEN 0
                        ELSE Decimal(Tail(f)) * Pow10[Width - Len(f) + 1]]
===============================================================================
