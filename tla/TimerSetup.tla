----------------------------- MODULE TimerSetup -----------------------------
(***************************************************************************)
(* The choice and calibration of the hardware timers in hl/x86/timer.cc:   *)
(* which device interrupts as the system clock, which one is the           *)
(* performance counter and measures busy waits, how the frequency of those *)
(* that do not tell it is measured with another one, and what the clock is *)
(* told about its period.                                                  *)
(*                                                                         *)
(* InitializeTimer runs on the boot processor; every other processor calls *)
(* InitializeLocalClock, and HlSetClockRate may come at any time later.    *)
(* All of them write the same globals, but each has an APIC timer of its   *)
(* own.  Frequencies are scaled down, 32-bit products are not: a ULONG has *)
(* LongBits bits.                                                          *)
(***************************************************************************)
EXTENDS Integers, Sequences

CONSTANTS TimerMachines,    \* sequence of what a machine has, see MCKernelServices
          TimerCpus, BootCpu,
          TimeUnits,        \* 100 ns units in a second
          Thousand,         \* parts of a unit in FractionalIncrement
          Femto,            \* femtoseconds in a second
          ClockHz,          \* interrupts in a second, 1000
          WindowHz, \* calibration windows (10 ms) in a second, 100
          PitHz, PmHz, StandardHpetHz,
          PitLimit,         \* largest divider of the PIT
          RateLimits,       \* [min, max] of HlSetClockRate
          Rates,            \* rates that are asked for
          ProfileLimits,    \* [min, max, tick, default] of SetProfileInterval
          ProfileIntervals, \* intervals that are asked for
          MaxLate,          \* ticks by which a wait may notice its end too late
          LongBits

ASSUME TimerAssumption ==
    /\ BootCpu \in TimerCpus
    /\ {TimeUnits, Thousand, Femto, ClockHz, WindowHz, PitHz, PmHz, StandardHpetHz,
        PitLimit, LongBits} \subseteq Nat \ {0}
    /\ MaxLate \in Nat /\ Rates \subseteq Nat

VARIABLES timerMachine,     \* the machine
          timerStep,        \* what InitializeTimer does next
          timers,           \* the globals of HL::Timer
          timerDevices      \* what the devices were programmed to

timerVars == <<timerMachine, timerStep, timers, timerDevices>>

ThisMachine == TimerMachines[timerMachine]
ULong(x) == x % 2^LongBits
Bounded(x, low, high) == IF x < low THEN low ELSE IF x > high THEN high ELSE x

TimerInit ==
    /\ timerMachine \in DOMAIN TimerMachines
    /\ timerStep = "capabilities"
    /\ timers = [caps |-> [arat |-> FALSE, tsc |-> FALSE, art |-> FALSE, den |-> 0, num |-> 0,
                           hz |-> 0],
                 mapped |-> FALSE, hpetHz |-> 0, clock |-> "none", counter |-> "none",
                 stall |-> "none", setRate |-> FALSE, counterHz |-> 0, apicHz |-> 0,
                 rollover |-> 0, increment |-> 0, fraction |-> 0, profile |-> 0,
                 \* history: who set the increment last, and whether a rate was asked for
                 setBy |-> BootCpu, rated |-> FALSE]
    /\ timerDevices = [hpetOn |-> FALSE, legacy |-> ThisMachine.legacy, comparator |-> 0,
                       pit |-> 0, irq0 |-> FALSE, apic |-> [c \in TimerCpus |-> 0]]

(* QueryTimerCapabilities: the ratio of TSC and crystal clock is only kept *)
(* when both of its parts are there, and the frequency only with them.     *)
QueryTimerCapabilities ==
    /\ timerStep = "capabilities"
    /\ LET m == ThisMachine
           art == m.leaf /\ m.den # 0 /\ m.num # 0
           Kept(x) == IF art THEN x ELSE 0
       IN  timers' = [timers EXCEPT
                        !.caps = [arat |-> m.arat, tsc |-> m.invariant /\ m.rdtscp, art |-> art,
                                  den |-> Kept(m.den), num |-> Kept(m.num),
                                  hz |-> Kept(m.crystal)]]
    /\ timerStep' = "hpet"
    /\ UNCHANGED <<timerMachine, timerDevices>>

(* DetectHpet gives up at a missing table, registers in I/O space, a zero  *)
(* address or a failed mapping.  What it finds it starts, with the routing *)
(* of the legacy interrupts turned off that the firmware may have left on. *)
LegacyKept(d) == [d EXCEPT !.hpetOn = TRUE]
LegacyOff(d) == [d EXCEPT !.hpetOn = TRUE, !.legacy = FALSE]
DetectHpet ==
    /\ timerStep = "hpet"
    /\ IF ThisMachine.hpet = "ok"
       THEN /\ timers' = [timers EXCEPT
                            !.mapped = TRUE,
                            !.hpetHz = IF ThisMachine.period = 0 THEN StandardHpetHz
                                       ELSE Femto \div ThisMachine.period]
            /\ timerDevices' = LegacyOff(timerDevices)
       ELSE UNCHANGED <<timers, timerDevices>>
    /\ timerStep' = "probe"
    /\ UNCHANGED timerMachine

----------------------------------------------------------------------------
(* The selection of ProbeTimerType.                                        *)

ValidateTimerSupport(t, isClock) ==
    CASE t = "tsc" -> timers.caps.tsc
      [] t = "hpet" -> timers.mapped
      [] t = "pm" -> ~isClock /\ ThisMachine.pmPort
      [] t = "lapic" -> isClock /\ timers.caps.arat
      [] t = "pit" -> TRUE
      [] OTHER -> FALSE

FirstOf(order, S) ==
    IF \A i \in DOMAIN order : order[i] \notin S THEN "none"
    ELSE order[CHOOSE i \in DOMAIN order :
                  order[i] \in S /\ \A j \in 1..(i - 1) : order[j] \notin S]

(* The kernel parameters CLOCK and TIMER are searched for names, in this   *)
(* order; a device that is named and not usable is replaced.               *)
WishedClock == FirstOf(<<"hpet", "lapic", "pit">>, ThisMachine.clock)
WishedTimer == FirstOf(<<"pm", "hpet", "pit", "tsc">>, ThisMachine.timer)

FirstSupported(order, isClock) == FirstOf(order, {t \in {order[i] : i \in DOMAIN order} :
                                            ValidateTimerSupport(t, isClock)})
ClockUnchecked ==
    IF WishedClock # "none" THEN WishedClock
    ELSE FirstSupported(<<"lapic", "hpet", "pit">>, TRUE)
ClockType ==
    IF ValidateTimerSupport(WishedClock, TRUE) THEN WishedClock
    ELSE FirstSupported(<<"lapic", "hpet", "pit">>, TRUE)
TimerType ==
    IF ValidateTimerSupport(WishedTimer, FALSE) THEN WishedTimer
    ELSE FirstSupported(<<"tsc", "hpet", "pm", "pit">>, FALSE)

SelectTimers ==
    /\ timerStep = "probe"
    /\ timers' = [timers EXCEPT !.clock = ClockType, !.counter = TimerType,
                                !.stall = IF ThisMachine.pmPort THEN "pm" ELSE "pit",
                                !.setRate = ClockType = "lapic"]
    /\ timerStep' = "counter"
    /\ UNCHANGED <<timerMachine, timerDevices>>

----------------------------------------------------------------------------
(* Waits and calibration.  A wait of 1/parts seconds counts the ticks that *)
(* the code thinks pass in it, and is noticed up to late ticks after that. *)

(* The frequency the code reckons with, and the true one.                  *)
AssumedHz == CASE timers.stall = "pm" -> PmHz
               [] timers.stall = "pit" -> PitHz
               [] OTHER -> timers.counterHz
TrueHz(device) == CASE device = "pm" -> PmHz
                    [] device = "pit" -> PitHz
                    [] OTHER -> ThisMachine.hz[device]

(* What a device of the given frequency counts in the meantime.            *)
TicksWhile(hz, parts, late) ==
    ((AssumedHz \div parts + late) * hz) \div TrueHz(timers.stall)

\* mutants: the window is not a second, the quotient is not taken
CalibratedUnscaled(late) == TicksWhile(ThisMachine.hz["tsc"], WindowHz, late)
CalibrateTscCounter(late) ==
    LET caps == timers.caps
    IN  IF caps.art /\ caps.hz # 0 THEN ULong(caps.hz * caps.num) \div caps.den
        ELSE TicksWhile(ThisMachine.hz["tsc"], WindowHz, late) * WindowHz

CalibrateApicTimer(late) ==
    IF timers.caps.art /\ timers.caps.hz # 0 THEN timers.caps.hz
    ELSE ULong(TicksWhile(ThisMachine.hz["lapic"], WindowHz, late) * WindowHz)

(* The rest of ProbeTimerType: the counter's frequency, measured with the  *)
(* wait that was set up before, and only then the counter's own wait.      *)
StartCounter(late) ==
    /\ timerStep = "counter"
    /\ timers' = [timers EXCEPT
                    !.counterHz = CASE timers.counter = "tsc" -> CalibrateTscCounter(late)
                                    [] timers.counter = "hpet" -> timers.hpetHz
                                    [] timers.counter = "pm" -> PmHz
                                    [] OTHER -> PitHz,
                    !.stall = timers.counter]
    /\ timerStep' = "clock"
    /\ UNCHANGED <<timerMachine, timerDevices>>

----------------------------------------------------------------------------
(* The clock.                                                              *)

\* mutant: the fraction is not a rest
ConfiguredWhole(t, hz, divider, cpu) ==
    [t EXCEPT !.increment = (TimeUnits * divider) \div hz, !.fraction = 0, !.setBy = cpu]
ConfigureTimeIncrement(t, hz, divider, cpu) ==
    [t EXCEPT !.increment = (TimeUnits * divider) \div hz,
              !.fraction = ((TimeUnits * Thousand * divider) \div hz) % Thousand,
              !.setBy = cpu]

(* On the APIC timer every processor measures its frequency anew.  The     *)
(* other two write only for the processor that boots.                      *)
InitializeApicTimer(c, late) ==
    LET hz == CalibrateApicTimer(late)
    IN  /\ hz # 0
        /\ timers' = [ConfigureTimeIncrement(timers, hz, hz \div ClockHz, c)
                        EXCEPT !.apicHz = hz]
        /\ timerDevices' = [timerDevices EXCEPT !.apic[c] = hz \div ClockHz]

(* The HPET is halted and reset to zero, with its main counter.            *)
InitializeHpetTimer ==
    LET ticks == timers.hpetHz \div ClockHz
    IN  /\ timers.mapped
        /\ timers' = ConfigureTimeIncrement(timers, timers.hpetHz, ticks, BootCpu)
        /\ timerDevices' = [timerDevices EXCEPT !.hpetOn = TRUE, !.legacy = TRUE,
                                                !.comparator = ticks, !.irq0 = TRUE]

InitializePitTimer ==
    LET divider == Bounded(PitHz \div ClockHz, 1, PitLimit)
    IN  /\ timers' = [ConfigureTimeIncrement(timers, PitHz, divider, BootCpu)
                        EXCEPT !.rollover = divider]
        /\ timerDevices' = [timerDevices EXCEPT !.pit = divider, !.irq0 = TRUE]

InitializeClock(late) ==
    /\ timerStep = "clock"
    /\ CASE timers.clock = "lapic" -> InitializeApicTimer(BootCpu, late)
         [] timers.clock = "hpet" -> InitializeHpetTimer
         [] OTHER -> InitializePitTimer
    /\ timerStep' = "profile"
    /\ UNCHANGED timerMachine

(* A clock that cannot be set up stops the system.                         *)
PanicWithoutClock(late) ==
    /\ timerStep = "clock"
    /\ \/ timers.clock = "lapic" /\ CalibrateApicTimer(late) = 0
       \/ timers.clock = "hpet" /\ ~timers.mapped
    /\ timerStep' = "panic"
    /\ UNCHANGED <<timerMachine, timers, timerDevices>>

(* SetProfileInterval, with the default of InitializeTimer at first: the   *)
(* interval is counted in clock ticks of a fixed length.                   *)
ProfileUnbounded(interval) ==
    /\ timerStep \in {"profile", "running"}
    /\ timerStep = "profile" => interval = ProfileLimits.default
    /\ timers' = [timers EXCEPT !.profile = interval \div ProfileLimits.tick]
    /\ timerStep' = "running"
    /\ UNCHANGED <<timerMachine, timerDevices>>
SetProfileInterval(interval) ==
    /\ timerStep \in {"profile", "running"}
    /\ timerStep = "profile" => interval = ProfileLimits.default
    /\ timers' = [timers EXCEPT !.profile = Bounded(interval, ProfileLimits.min,
                                                ProfileLimits.max) \div ProfileLimits.tick]
    /\ timerStep' = "running"
    /\ UNCHANGED <<timerMachine, timerDevices>>

(* InitializeLocalClock of another processor, once it has started.         *)
InitializeLocalClock(c, late) ==
    /\ timerStep = "running"
    /\ c # BootCpu /\ timers.clock = "lapic" /\ timerDevices.apic[c] = 0
    /\ InitializeApicTimer(c, late)
    /\ UNCHANGED <<timerMachine, timerStep>>

(* SetClockRate: only the APIC timer can be set, that of the caller.       *)
RateUnbounded(rate) == rate
RateBounded(rate) == Bounded(rate, RateLimits.min, RateLimits.max)
SetClockRate(c, rate) ==
    /\ timerStep = "running"
    /\ timers.setRate /\ timerDevices.apic[c] # 0
    /\ LET product == (timers.apicHz * RateBounded(rate)) \div TimeUnits
           divider == IF product = 0 THEN 1 ELSE product
       IN  /\ timers' = [ConfigureTimeIncrement(timers, timers.apicHz, divider, c)
                            EXCEPT !.rated = TRUE]
           /\ timerDevices' = [timerDevices EXCEPT !.apic[c] = divider]
    /\ UNCHANGED <<timerMachine, timerStep>>

TimerNext ==
    \/ QueryTimerCapabilities \/ DetectHpet \/ SelectTimers
    \/ \E late \in 0..MaxLate :
          StartCounter(late) \/ InitializeClock(late) \/ PanicWithoutClock(late)
    \/ \E interval \in ProfileIntervals : SetProfileInterval(interval)
    \/ \E c \in TimerCpus :
          \/ \E late \in 0..MaxLate : InitializeLocalClock(c, late)
          \/ \E rate \in Rates : SetClockRate(c, rate)

TimerSpec == TimerInit /\ [][TimerNext]_timerVars

----------------------------------------------------------------------------
(* Equal but for an eighth, the error that is allowed for.                 *)
Close(x, y) == 8 * x >= 7 * y /\ 8 * x <= 9 * y

(* The 32-bit product in CalibrateTscCounter overflows.                    *)
Overflows == /\ timers.counter = "tsc" /\ timers.caps.art
             /\ timers.caps.hz * timers.caps.num >= 2^LongBits

(* A clock is found that can be set up, unless its device does not count,  *)
(* and one device interrupts as the clock: it is there and runs, the       *)
(* interrupt of the PIT is routed when and only when that is its way, and  *)
(* the HPET takes it over only as the clock, whatever the firmware left    *)
(* behind.                                                                 *)
ClockTicks ==
    /\ timerStep = "panic" => TrueHz(timers.clock) = 0
    /\ timerStep = "running" =>
        /\ timerDevices.legacy <=> timers.clock = "hpet"
        /\ timerDevices.irq0 <=> timers.clock # "lapic"
        /\ CASE timers.clock = "lapic" -> ThisMachine.arat /\ timerDevices.apic[BootCpu] > 0
             [] timers.clock = "hpet" -> /\ ThisMachine.hpet = "ok" /\ timerDevices.hpetOn
                                         /\ timerDevices.comparator > 0
             [] OTHER -> timerDevices.pit > 0

(* Every interrupt of the clock adds the time that has really passed since *)
(* the last one on the boot processor: to the thousandth of a unit by the  *)
(* frequency the code reckons with, which is the true one to the error of  *)
(* the calibration.  (With the APIC timer another processor may have       *)
(* measured it last.)  As long as no rate was asked for on another one     *)
(* after it: the increment is everyone's, the timer is the caller's.       *)
PaceTrue ==
    (timerStep = "running" /\ (timers.setBy = BootCpu \/ ~timers.rated)) =>
        LET hz == CASE timers.clock = "lapic" -> timers.apicHz
                    [] timers.clock = "hpet" -> timers.hpetHz
                    [] OTHER -> PitHz
            divider == CASE timers.clock = "lapic" -> timerDevices.apic[BootCpu]
                         [] timers.clock = "hpet" -> timerDevices.comparator
                         [] OTHER -> timerDevices.pit
            told == timers.increment * Thousand + timers.fraction
        IN  /\ Close(hz, TrueHz(timers.clock))
            /\ Close(told * hz, TimeUnits * Thousand * divider)
            /\ timers.clock # "lapic" =>
                  /\ told * hz <= TimeUnits * Thousand * divider
                  /\ (told + 1) * hz > TimeUnits * Thousand * divider

(* The rate that a caller of SetClockRate gets is one the limits allow,    *)
(* and profiling counts at least one tick and at most its longest interval *)
(* down, whatever was asked for.                                           *)
RatesInLimits ==
    timerStep = "running" =>
        /\ timers.profile \in 1..(ProfileLimits.max \div ProfileLimits.tick)
        /\ timers.rated => /\ 8 * timers.increment >= 7 * RateLimits.min
                           /\ timers.increment <= RateLimits.max

(* The counter and the waits measured with it run at the frequency that is *)
(* told to callers, unless the product overflowed.  A wait is never set up *)
(* on a device that is missing, or with a frequency not known yet.         *)
CountersCalibrated ==
    /\ timers.stall # "none" =>
          /\ AssumedHz > 0 \/ Overflows
          /\ timers.stall = "pm" => ThisMachine.pmPort
          /\ timers.stall = "tsc" => ThisMachine.invariant /\ ThisMachine.rdtscp
          /\ timers.stall = "hpet" => ThisMachine.hpet = "ok"
    /\ timers.counterHz # 0 /\ ~Overflows => Close(timers.counterHz, TrueHz(timers.counter))

TimersSound == ClockTicks /\ PaceTrue /\ RatesInLimits /\ CountersCalibrated
=============================================================================
