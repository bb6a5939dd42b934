---------------------------- MODULE RealTimeClock ----------------------------
(***************************************************************************)
(* The date, and the clock it is kept in.                                  *)
(*                                                                         *)
(* The calendar: the conversions of rtl/time.cc between a count of seconds *)
(* and the fields of a date, for both epochs, checked against a calendar   *)
(* that goes on second by second.  A day is scaled down to a few seconds,  *)
(* so that the count of one over thirty thousand years fits TLC's          *)
(* integers; the part of a second that an XT time carries, taken off by a  *)
(* division and put back by an addition, is left out.                      *)
(*                                                                         *)
(* The CMOS clock of hl/x86/rtc.cc: GetRealTimeClock reads its registers   *)
(* one by one, twice, while the clock goes on, until both readings agree;  *)
(* SetRealTimeClock stops the clock, writes them and starts it again.      *)
(* Nothing keeps the two from overlapping on different processors.  Three  *)
(* fields stand for the seven: one counted fastest, one read before it     *)
(* (hours and minutes, read before seconds) and one read after it (day,    *)
(* month, year and weekday), the last with the register of the century.    *)
(* An hour has HourSeconds seconds and a day ends a year.                  *)
(***************************************************************************)
EXTENDS Integers, Sequences

CONSTANTS HoursPerDay, MinutesPerHour, SecondsPerMinute,
          Windows,      \* New Year's days to begin at: [year, day], the day
                        \* counted from the first of January 1970
          WindowDays    \* bound: days to go on for

VARIABLES today,        \* the date: year, month and day
          day,          \* days since the first of January 1970
          ofDay,        \* seconds since midnight
          remaining     \* days to go

calendarVars == <<today, day, ofDay, remaining>>

SecondsPerHour == MinutesPerHour * SecondsPerMinute
SecondsPerDay == HoursPerDay * SecondsPerHour

(* The calendar: thirty days has September...                              *)
Gregorian(year) == year % 4 = 0 /\ (year % 100 = 0 => year % 400 = 0)
MonthLength(year, month) ==
    CASE month \in {4, 6, 9, 11} -> 30
      [] month = 2 -> IF Gregorian(year) THEN 29 ELSE 28
      [] month \notin {2, 4, 6, 9, 11} -> 31

Date(y, m, d) == [year |-> y, month |-> m, day |-> d]

NextDate(t) ==
    IF t.day < MonthLength(t.year, t.month) THEN [t EXCEPT !.day = @ + 1]
    ELSE IF t.month < 12 THEN Date(t.year, t.month + 1, 1)
    ELSE Date(t.year + 1, 1, 1)

CalendarInit ==
    /\ \E w \in Windows : today = Date(w.year, 1, 1) /\ day = w.day
    /\ ofDay = 0 /\ remaining = WindowDays

NextSecond ==
    /\ ofDay + 1 < SecondsPerDay
    /\ ofDay' = ofDay + 1
    /\ UNCHANGED <<today, day, remaining>>

Midnight ==
    /\ ofDay + 1 = SecondsPerDay /\ remaining > 0
    /\ ofDay' = 0 /\ remaining' = remaining - 1
    /\ today' = NextDate(today) /\ day' = day + 1

CalendarNext == NextSecond \/ Midnight

----------------------------------------------------------------------------
(* The code.  Its division rounds towards zero.                            *)
Quotient(a, b) == IF a >= 0 THEN a \div b ELSE -((-a) \div b)
Invalid == -2000000000
NoFields == [status |-> "invalid"]

LeapYear(year) == (year % 4 = 0 /\ year % 100 # 0) \/ year % 400 = 0
DaysInMonth(leap) == <<31, IF leap THEN 29 ELSE 28, 31, 30, 31, 30, 31, 31, 30, 31, 30, 31>>

Fields(date, hour, minute, sec) ==
    [date |-> date, hour |-> hour, minute |-> minute, second |-> sec]

TimeOfDay(date, seconds) ==
    Fields(date, seconds \div SecondsPerHour,
           (seconds % SecondsPerHour) \div SecondsPerMinute, seconds % SecondsPerMinute)

Accepted(f, firstYear) ==
    /\ f.hour \in 0 .. HoursPerDay - 1 /\ f.minute \in 0 .. MinutesPerHour - 1
    /\ f.second \in 0 .. SecondsPerMinute - 1
    /\ f.date.year \in firstYear .. 30827 /\ f.date.month \in 1..12
    /\ f.date.day \in 1 .. DaysInMonth(LeapYear(f.date.year))[f.date.month]

(* The year begins in March, so that the leap day is its last.             *)
Elapsed(date, epoch) ==
    LET january == date.month <= 2
        month == date.month - 2 + (IF january THEN 12 ELSE 0)
        year  == date.year - (IF january THEN 1 ELSE 0)
    IN  Quotient(year, 4) - Quotient(year, 100) + Quotient(year, 400)
          + Quotient(367 * month, 12) + date.day + 365 * year - epoch

ToEpoch(f, firstYear, epoch) ==
    IF ~Accepted(f, firstYear) THEN Invalid
    ELSE Elapsed(f.date, epoch) * SecondsPerDay + f.hour * SecondsPerHour
           + f.minute * SecondsPerMinute + f.second

TimeFieldsToUnixEpoch(f) == ToEpoch(f, 0, 719499)
TimeFieldsToXtEpoch(f) == ToEpoch(f, 1601, 584725)

(* A count of days since the first of March of the year 0 is split into    *)
(* eras of 400 years, and the day of the era into years and months.        *)
UnixEpochToTimeFields(time) ==
    LET days    == 719468 + (IF time >= 0 THEN time \div SecondsPerDay
                             ELSE Quotient(time - (SecondsPerDay - 1), SecondsPerDay))
        seconds == time % SecondsPerDay
        era     == Quotient(IF days >= 0 THEN days ELSE days - 146096, 146097)
        ofEra   == days - era * 146097
        years   == (ofEra - ofEra \div 1460 + ofEra \div 36524 - ofEra \div 146096) \div 365
        ofYear  == ofEra - (365 * years + years \div 4 - years \div 100)
        months  == (5 * ofYear + 2) \div 153
        month   == months + (IF months < 10 THEN 3 ELSE -9)
        year    == years + era * 400 + (IF month <= 2 THEN 1 ELSE 0)
    IN  IF year \notin 0..30827 THEN NoFields
        ELSE TimeOfDay(Date(year, month, ofYear - (153 * months + 2) \div 5 + 1), seconds)

(* The last day of 400 years would begin a fifth century, and the last day *)
(* of a leap year a fifth year of four.                                    *)
CenturyUncapped(days) == days \div 36524
Century(days) == IF days \div 36524 = 4 THEN 3 ELSE days \div 36524
YearOfFour(days) == IF days \div 365 = 4 THEN 3 ELSE days \div 365

XtEpochToTimeFields(time) ==
    LET days     == time \div SecondsPerDay
        ofEra    == days % 146097
        century  == Century(ofEra)
        ofFour   == (ofEra - 36524 * century) % 1461
        fours    == (ofEra - 36524 * century) \div 1461
        year     == 1601 + 400 * (days \div 146097) + 100 * century + 4 * fours
                      + YearOfFour(ofFour)
        lengths  == DaysInMonth(LeapYear(year))
        begins[m \in 1..12] == IF m = 1 THEN 0 ELSE begins[m - 1] + lengths[m - 1]
        ofYear   == ofFour - 365 * YearOfFour(ofFour)
        month    == CHOOSE m \in 1..12 : ofYear \in begins[m] .. begins[m] + lengths[m] - 1
    IN  TimeOfDay(Date(year, month, ofYear - begins[month] + 1), time % SecondsPerDay)

XtWeekday(time) == (time \div SecondsPerDay + 1) % 7

----------------------------------------------------------------------------
XtEpochDay == -134774       \* the first of January 1601, a Monday

(* Second by second over the ends of months, leap years and centuries, the *)
(* fields made of a count are the date of the calendar, the count made of  *)
(* the fields is the count again, for both epochs, and the thirty-second   *)
(* of a month of thirty-one days, or its like, is refused.                 *)
CalendarExact ==
    LET now   == day * SecondsPerDay + ofDay
        xt    == (day - XtEpochDay) * SecondsPerDay + ofDay
        f     == TimeOfDay(today, ofDay)
        after == [f EXCEPT !.date.day = @ + 1]
        ends  == NextDate(today).day = 1
    IN  /\ UnixEpochToTimeFields(now) = IF today.year <= 30827 THEN f ELSE NoFields
        /\ today.year <= 30827 => /\ TimeFieldsToUnixEpoch(f) = now
                                  /\ ends <=> TimeFieldsToUnixEpoch(after) = Invalid
        /\ today.year \in 1601..30827 =>
              /\ XtEpochToTimeFields(xt) = f
              /\ TimeFieldsToXtEpoch(f) = xt
              /\ XtWeekday(xt) = (day + 4) % 7      \* 1.1.1970 was a Thursday

----------------------------------------------------------------------------
(* The CMOS clock.                                                         *)

CONSTANTS HourSeconds,  \* seconds of an hour, more than pass during a call
          Starts,       \* times the clock may show at first
          NewTimes,     \* times to set, records with a weekday too
          MaxUpdates,   \* bound: updates of the clock
          Attempts      \* readings GetRealTimeClock makes, 100 in the code

ASSUME ClockAssumption ==
    /\ HourSeconds \in Nat /\ MaxUpdates \in Nat /\ MaxUpdates < HourSeconds
    /\ Attempts \in Nat \ {0}

VARIABLES mode,         \* what REGISTER_B and the ACPI table say
          chip,         \* the time of the clock
          updating,     \* CMOS_REGISTER_A_UPDATE_IN_PROGRESS
          stopped,      \* CMOS_REGISTER_B_SET_CLOCK
          updates,      \* updates so far
          reader,       \* the processor in GetRealTimeClock
          writer,       \* the processor in SetRealTimeClock
          shown,        \* history: the times of the clock since the reader began
          overlapped    \* history: the writer was at work since the reader began

clockVars == <<mode, chip, updating, stopped, updates, reader, writer, shown, overlapped>>

Clock(hour, second, year) == [hour |-> hour, second |-> second, year |-> year]
Unasked == [at |-> "rest", probe |-> 1, left |-> {}, first |-> <<>>, second |-> <<>>,
            tries |-> 0, ok |-> FALSE, time |-> Clock(0, 0, 0)]
Writing(at, left, time) == [at |-> at, left |-> left, time |-> time]
Away == Writing("away", <<>>, Clock(0, 0, 0))
Gone == Writing("gone", <<>>, Clock(0, 0, 0))    \* bound: the clock is set once

(* The registers in the order both routines use them; CenturyAlarmIndex    *)
(* is zero when the ACPI table names no register for the century.          *)
Registers == IF mode.century THEN <<"hour", "second", "year", "century">>
             ELSE <<"hour", "second", "year">>

ClockInit ==
    /\ mode \in [hours24 : BOOLEAN, binary : BOOLEAN, century : BOOLEAN]
    /\ chip \in Starts
    /\ updating = FALSE /\ stopped = FALSE /\ updates = 0
    /\ reader = Unasked /\ writer = Away
    /\ shown = {} /\ overlapped = FALSE

----------------------------------------------------------------------------
(* The conversions.  A register has eight bits; in an hour of twelve the   *)
(* highest one says that it is after noon.                                 *)
DECIMAL_TO_BCD(value) == 16 * (value \div 10) + (value % 10)
BCD_TO_DECIMAL(value) == (value % 16) + 10 * (value \div 16)
Encoded(value) == IF mode.binary THEN value ELSE DECIMAL_TO_BCD(value)
Decoded(value) == IF mode.binary THEN value ELSE BCD_TO_DECIMAL(value)
PostMeridiem == 128

TwelveHour(hour) == IF hour = 0 THEN 12 ELSE IF hour > 12 THEN hour - 12 ELSE hour

EncodedHour(hour) ==
    IF mode.hours24 THEN Encoded(hour)
    ELSE Encoded(TwelveHour(hour)) + (IF hour >= 12 THEN PostMeridiem ELSE 0)

NoonForgotten(code) ==
    LET hour == Decoded(code % PostMeridiem)
    IN  IF mode.hours24 THEN Decoded(code)
        ELSE hour + (IF code >= PostMeridiem THEN 12 ELSE 0)

DecodedHour(code) ==
    LET hour == Decoded(code % PostMeridiem)
    IN  IF mode.hours24 THEN Decoded(code)
        ELSE (IF hour = 12 THEN 0 ELSE hour) + (IF code >= PostMeridiem THEN 12 ELSE 0)

(* The century counts when it is plausible; without it a year above 80 is  *)
(* one of the twentieth century.                                           *)
DecodedYear(code, century) ==
    LET year == Decoded(code)
    IN  IF mode.century /\ Decoded(century) \in 19..30 THEN year + 100 * Decoded(century)
        ELSE year + (IF year > 80 THEN 1900 ELSE 2000)

RegisterCode(r, time) ==
    CASE r = "hour"    -> EncodedHour(time.hour)
      [] r = "second"  -> Encoded(time.second)
      [] r = "year"    -> Encoded(time.year % 100)
      [] r = "century" -> Encoded(time.year \div 100)

Representable(time) == mode.century \/ time.year \in 1981..2080

----------------------------------------------------------------------------
(* The clock: an update is announced, and carries into the next field.     *)
Following(t) ==
    IF t.second + 1 < HourSeconds THEN [t EXCEPT !.second = @ + 1]
    ELSE IF t.hour < 23 THEN Clock(t.hour + 1, 0, t.year)
    ELSE Clock(0, 0, t.year + 1)

BeginUpdate ==
    /\ ~stopped /\ ~updating /\ updates < MaxUpdates
    /\ updating' = TRUE
    /\ UNCHANGED <<mode, chip, stopped, updates, reader, writer, shown, overlapped>>

EndUpdate ==
    /\ updating
    /\ updating' = FALSE /\ updates' = updates + 1
    /\ chip' = Following(chip)
    /\ shown' = shown \cup {chip'}
    /\ UNCHANGED <<mode, stopped, reader, writer, overlapped>>

----------------------------------------------------------------------------
(* GetRealTimeClock.                                                       *)
Read(r) == reader' = r /\ UNCHANGED <<mode, chip, updating, stopped, updates, writer>>

BeginRead ==
    /\ reader.at = "rest"
    /\ Read([Unasked EXCEPT !.at = "wait"])
    /\ shown' = {chip} /\ overlapped' = (writer.at = "write")

(* Each of the two probes waits until no update is in progress.            *)
Probe ==
    /\ reader.at = "wait" /\ ~updating
    /\ Read([reader EXCEPT !.at = "read"])
    /\ UNCHANGED <<shown, overlapped>>

Probed(p) == IF p = 1 THEN reader.first ELSE reader.second

AgreedAlways(first, second) == TRUE
Agreed(first, second) == first = second

Taken(codes) ==
    Clock(DecodedHour(codes[1]), Decoded(codes[2]),
          DecodedYear(codes[3], IF mode.century THEN codes[4] ELSE 0))

(* One register; after the last one of the second probe the probes are     *)
(* compared, and after the last attempt the reading is given up, the time  *)
(* filled in all the same.                                                 *)
ReadRegister ==
    /\ reader.at = "read"
    /\ LET codes == Append(Probed(reader.probe),
                           RegisterCode(Registers[Len(Probed(reader.probe)) + 1], chip))
           last == Len(codes) = Len(Registers)
           done == [reader EXCEPT !.at = "done", !.time = Taken(reader.first),
                                  !.ok = Agreed(reader.first, codes)]
       IN  Read(CASE reader.probe = 1 ->
                        [reader EXCEPT !.first = codes,
                                       !.probe = IF last THEN 2 ELSE 1,
                                       !.at = IF last THEN "wait" ELSE "read"]
                  [] reader.probe = 2 /\ ~last -> [reader EXCEPT !.second = codes]
                  [] reader.probe = 2 /\ last ->
                        IF done.ok \/ reader.tries + 1 = Attempts THEN done
                        ELSE [Unasked EXCEPT !.at = "wait", !.tries = reader.tries + 1])
    /\ UNCHANGED <<shown, overlapped>>

EndRead ==
    /\ reader.at = "done"
    /\ Read(Unasked)
    /\ UNCHANGED <<shown, overlapped>>

----------------------------------------------------------------------------
(* SetRealTimeClock refuses a weekday of zero, the Sunday of               *)
(* XtEpochToTimeFields; otherwise it stops the clock, dropping an update   *)
(* in progress, writes the registers and lets it go on.                    *)
Write(w) == writer' = w /\ UNCHANGED <<mode, updates, reader>>

BeginWrite(t) ==
    /\ writer.at = "away" /\ t.weekday \in 1..7
    /\ Write(Writing("write", Registers, Clock(t.hour, t.second, t.year)))
    /\ stopped' = TRUE /\ updating' = FALSE /\ overlapped' = TRUE
    /\ UNCHANGED <<chip, shown>>

(* What a value means to the clock: it is written in the format the clock  *)
(* counts in, so that the field takes what Decoded makes of it.            *)
Stored(r, code) ==
    CASE r = "hour"    -> [chip EXCEPT !.hour = DecodedHour(code)]
      [] r = "second"  -> [chip EXCEPT !.second = Decoded(code)]
      [] r = "year"    -> [chip EXCEPT !.year = 100 * (@ \div 100) + Decoded(code)]
      [] r = "century" -> [chip EXCEPT !.year = 100 * Decoded(code) + (@ % 100)]

WriteRegister ==
    /\ writer.at = "write" /\ writer.left # <<>>
    /\ chip' = Stored(Head(writer.left), RegisterCode(Head(writer.left), writer.time))
    /\ Write([writer EXCEPT !.left = Tail(@)])
    /\ UNCHANGED <<updating, stopped, shown, overlapped>>

EndWrite ==
    /\ writer.at = "write" /\ writer.left = <<>>
    /\ stopped' = FALSE
    /\ Write(Gone)
    /\ shown' = shown \cup {chip}
    /\ UNCHANGED <<chip, updating, overlapped>>

ClockNext ==
    \/ BeginUpdate \/ EndUpdate
    \/ BeginRead \/ Probe \/ ReadRegister \/ EndRead
    \/ \E t \in NewTimes : BeginWrite(t)
    \/ WriteRegister \/ EndWrite

----------------------------------------------------------------------------
(* A reading that succeeds is a time the clock showed while it was taken,  *)
(* whatever updates fell between the registers and in whatever format the  *)
(* clock counts, if no processor set the clock meanwhile.  And what was    *)
(* written is what the clock holds when it goes on.                        *)
RealTimeKept ==
    /\ reader.at = "done" /\ reader.ok /\ ~overlapped
        => reader.time \in shown \/ \E t \in shown : ~Representable(t)
    /\ writer.at = "write" /\ writer.left = <<>> /\ mode.century => chip = writer.time
=============================================================================
