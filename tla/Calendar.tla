------------------------------- MODULE Calendar -------------------------------
(***************************************************************************)
(* The calendar of device_time_if.c: from the seconds of a clock to the    *)
(* local date and time, back from the date the GPS receiver tells, and to  *)
(* the name of the day's file.  Seconds are counted from TIME2017, which   *)
(* keeps them within the integers of the checker.                          *)
(***************************************************************************)
EXTENDS Integers, Sequences

CONSTANTS
  FirstDay, LastDay, \* the days looked at, counted from TIME2017
  Moments            \* the seconds of a day looked at

(* The first day is one the seven hours to the local time can be taken     *)
(* from, the last one the last that ends within the 32 bits of the seconds *)
(* since 1900.                                                             *)
ASSUME CalendarAssumption ==
  /\ FirstDay \in Nat \ {0}
  /\ LastDay \in Nat /\ LastDay <= 6975
  /\ \A s \in Moments : s \in Nat /\ s < 86400

SEC_IN_HOUR == 3600
SEC_IN_DAY == 86400
SEC_IN_YEAR == 365 * SEC_IN_DAY
SEC_IN_LEAP_YEAR == 366 * SEC_IN_DAY
GMT_DIFF_TIME_HRS == 7
YEAR2017 == 2017
DaysPerMonth == <<31, 28, 31, 30, 31, 30, 31, 31, 30, 31, 30, 31>>

(* A faulty YearPass that takes a year for over when it is not.  *)
YearPassEarly(p) ==
  IF p[2] > SEC_IN_YEAR
  THEN <<p[1] + 1, p[2] - SEC_IN_YEAR - IF (p[1] + 1) % 4 = 0 THEN SEC_IN_DAY ELSE 0>>
  ELSE p

(* TIME_posix2lt looks for the year first.  A pass takes a year off the    *)
(* time, so there are no more passes than years in it.                     *)
YearPass(p) ==
  IF p[2] > SEC_IN_LEAP_YEAR
  THEN <<p[1] + 1, p[2] - SEC_IN_YEAR - IF (p[1] + 1) % 4 = 0 THEN SEC_IN_DAY ELSE 0>>
  ELSE p

YearOf(t) ==
  LET pass[k \in 0 .. t \div SEC_IN_YEAR] == IF k = 0 THEN <<YEAR2017, t>> ELSE YearPass(pass[k - 1])
  IN pass[t \div SEC_IN_YEAR]

(* An unsigned long that falls below 0 is 2^32 = 49710 days and 23296      *)
(* seconds more; the day is a short.                                       *)
Days(t) == IF t >= 0 THEN t \div SEC_IN_DAY ELSE 49710 - 65536 + (23296 + t) \div SEC_IN_DAY
Secs(t) == IF t >= 0 THEN t % SEC_IN_DAY ELSE (23296 + t) % SEC_IN_DAY
Rem(a, b) == IF a >= 0 THEN a % b ELSE -((-a) % b)

(* The days of the first n months, as the code has them.  *)
DaysUpto[n \in 0 .. 12] == IF n = 0 THEN 0 ELSE DaysUpto[n - 1] + DaysPerMonth[n]

(* The month, counted from 0, and the day in it, counted from 0: months    *)
(* are taken off the days until one is not over, or January comes again.   *)
FindMonth(day) ==
  LET lasting == {i \in 0 .. 11 : day < DaysUpto[i + 1]}
      i == CHOOSE i \in lasting : \A k \in lasting : i <= k
  IN IF lasting = {} THEN <<0, day - DaysUpto[12] + DaysPerMonth[1]>> ELSE <<i, day - DaysUpto[i]>>

(* Year, month, day, seconds of the day.  *)
TIME_posix2lt(posix) ==
  LET y == YearOf(posix)
      t == y[2] - GMT_DIFF_TIME_HRS * SEC_IN_HOUR
      m == FindMonth(Rem(Days(t), IF y[1] % 4 = 0 THEN 366 ELSE 365))
  IN <<y[1], m[1] + 1, (m[2] + 1) % 65536, Secs(t)>>

(* The seconds since TIME2017: 42734 days after 1900.  *)
TIME_dt2posix(d) ==
  ((d[1] - 1900) * 365 + (d[1] - 1900) \div 4 + DaysUpto[d[2] - 1] + d[3] - 1 - 42734) * SEC_IN_DAY + d[4]

(* Characters itoa writes: nothing for a number that is negative as a short. *)
itoa(n) ==
  IF n < 100 THEN 2
  ELSE IF n < 1000 THEN 3
  ELSE IF n < 10000 THEN 4
  ELSE IF n < 32768 THEN 5
  ELSE 0

(* The name of the file is that of an 8.3 directory entry.  *)
TIME_GetDateISO8601(d) == itoa((d[1] - 2000) % 65536) + itoa(d[2]) + itoa(d[3]) + 2
create_name(width) == IF width \in 1 .. 8 THEN "OK" ELSE "INVALID_NAME"
-------------------------------------------------------------------------------
(* The calendar as it is.  *)
Leap(y) == y % 4 = 0
Before(y) == 365 * (y - 2017) + (y - 2017) \div 4
Month(y, i) == IF i = 2 /\ Leap(y) THEN 29 ELSE DaysPerMonth[i]
BeforeMonth(y, i) ==
  LET upto[n \in 0 .. 12] == IF n = 0 THEN 0 ELSE upto[n - 1] + Month(y, n)
  IN upto[i - 1]

Date(t) ==
  LET day == t \div SEC_IN_DAY
      y == CHOOSE n \in 2016 .. 2040 : Before(n) <= day /\ day < Before(n + 1)
      m == CHOOSE i \in 1 .. 12 : LET r == day - Before(y) - BeforeMonth(y, i) IN 0 <= r /\ r < Month(y, i)
  IN <<y, m, day - Before(y) - BeforeMonth(y, m) + 1, t % SEC_IN_DAY>>

(* January and February of a leap year.  *)
LeapSpring(d) == Leap(d[1]) /\ d[2] <= 2

(* New Year's day, as long as it is that day in Greenwich too.  *)
NewYear(d) == d[2] = 1 /\ d[3] = 1 /\ d[4] <= (24 - GMT_DIFF_TIME_HRS) * SEC_IN_HOUR
-------------------------------------------------------------------------------
VARIABLE instant \* the time that is converted

NoInstant == -1

CalendarInit ==
  \E day \in FirstDay .. LastDay : \E s \in Moments : instant = day * SEC_IN_DAY + s

CalendarSpec == CalendarInit /\ [][FALSE]_instant

Local == Date(instant - GMT_DIFF_TIME_HRS * SEC_IN_HOUR)

(* The local date is right but for New Year's day and the first months of  *)
(* a leap year, and then names a file (TIME_posix2lt, TIME_GetDateISO8601, *)
(* create_name); the time the receiver tells is taken right but for these  *)
(* months, in which it is a day ahead (TIME_dt2posix).                     *)
CalendarRight ==
  instant # NoInstant =>
    /\ ~LeapSpring(Local) /\ ~NewYear(Local) =>
         /\ TIME_posix2lt(instant) = Local
         /\ create_name(TIME_GetDateISO8601(Local)) = "OK"
    /\ TIME_dt2posix(Date(instant)) = instant + IF LeapSpring(Date(instant)) THEN SEC_IN_DAY ELSE 0
===============================================================================
