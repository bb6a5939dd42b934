--------------------------- MODULE RuntimeServices ---------------------------
(***************************************************************************)
(* The parts of the runtime library that keep or convert state, the        *)
(* arithmetic and the texts it is called for most, and the CMOS clock that *)
(* the calendar serves.  A behaviour exercises one of them, as in          *)
(* KernelServices: they share no state.                                    *)
(***************************************************************************)
EXTENDS BitMap, LinkedLists, RealTimeClock, Division, TextFormat, Strings

VARIABLE part           \* the part exercised, or "none"

runtimeVars == <<part, bitMapVars, linkVars, calendarVars, clockVars, divisionVars,
                 formatVars, stringVars>>

(* A part that is not exercised has one initial state.                     *)
RuntimeInit ==
    /\ part \in {"none", "bitmap", "lists", "calendar", "clock", "division", "format",
                 "strings"}
    /\ BitMapInit /\ DivisionInit /\ StringsInit
    /\ LinkInit /\ (part # "lists" => double)
    /\ CalendarInit /\ (part # "calendar" => day = (CHOOSE w \in Windows : TRUE).day)
    /\ ClockInit
    /\ part # "clock" => /\ mode = [hours24 |-> TRUE, binary |-> TRUE, century |-> TRUE]
                         /\ chip = CHOOSE t \in Starts : TRUE
    /\ FormatInit /\ (part # "format" => machine = "amd64")

BitMapOnly ==
    /\ part = "bitmap" /\ BitMapNext
    /\ UNCHANGED <<linkVars, calendarVars, clockVars, divisionVars, formatVars, stringVars>>

ListsOnly ==
    /\ part = "lists" /\ LinkNext
    /\ UNCHANGED <<bitMapVars, calendarVars, clockVars, divisionVars, formatVars, stringVars>>

CalendarOnly ==
    /\ part = "calendar" /\ CalendarNext
    /\ UNCHANGED <<bitMapVars, linkVars, clockVars, divisionVars, formatVars, stringVars>>

ClockOnly ==
    /\ part = "clock" /\ ClockNext
    /\ UNCHANGED <<bitMapVars, linkVars, calendarVars, divisionVars, formatVars, stringVars>>

DivisionOnly ==
    /\ part = "division" /\ DivisionNext
    /\ UNCHANGED <<bitMapVars, linkVars, calendarVars, clockVars, formatVars, stringVars>>

FormatOnly ==
    /\ part = "format" /\ FormatNext
    /\ UNCHANGED <<bitMapVars, linkVars, calendarVars, clockVars, divisionVars, stringVars>>

StringsOnly ==
    /\ part = "strings" /\ StringsNext
    /\ UNCHANGED <<bitMapVars, linkVars, calendarVars, clockVars, divisionVars, formatVars>>

RuntimeNext ==
    /\ \/ BitMapOnly \/ ListsOnly \/ CalendarOnly \/ ClockOnly
       \/ DivisionOnly \/ FormatOnly \/ StringsOnly
    /\ UNCHANGED part

----------------------------------------------------------------------------
(* The part exercised is exact: the bit map against the set of its bits,   *)
(* the lists against their sequences, the conversions of time against the  *)
(* calendar, the readings of the CMOS clock against its times, division    *)
(* against arithmetic, formatted text against what it should say, and      *)
(* strings against sequences of characters.                                *)
RuntimeExact ==
    /\ part = "bitmap" => BitMapExact
    /\ part = "lists" => ListsExact
    /\ part = "calendar" => CalendarExact
    /\ part = "clock" => RealTimeKept
    /\ part = "division" => DivisionExact
    /\ part = "format" => TextShown
    /\ part = "strings" => StringsKept
=============================================================================
