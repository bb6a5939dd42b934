------------------------- MODULE PerformanceCounter -------------------------
(***************************************************************************)
(* The performance counters and busy waits of hl/x86/timer.cc that count   *)
(* with a hardware counter of few bits: the PIT, whose wraps the clock     *)
(* interrupt adds up, and the ACPI power management timer, whose wraps the *)
(* queries add up.  The HPET and the TSC are read as they are.             *)
(*                                                                         *)
(* Time passes in ticks of the hardware counter.  The 16 bits of the PIT   *)
(* and the 24 or 32 bits of the PM timer are scaled down to Rollover and   *)
(* Period ticks.                                                           *)
(***************************************************************************)
EXTENDS Integers

CONSTANTS Callers,     \* processors that query the counter or wait
          Rollover,    \* PitRollover, ticks from one clock interrupt to the next
          Period,      \* MsbMask + 1, ticks after which the PM timer wraps
          Waits,       \* tick counts to wait for
          LastTick     \* bound: time stops here

ASSUME CounterAssumption ==
    /\ Rollover \in Nat \ {0} /\ Period \in Nat \ {0} /\ LastTick \in Nat
    /\ Waits \subseteq Nat

VARIABLES source,      \* TimerType: "pit" or "pm", chosen when the system starts
          now,         \* ticks since then
          pending,     \* a clock interrupt is requested and not yet handled
          counted,     \* PitPerformanceCounter
          missed,      \* history: clock interrupts that found one pending
          systemCounter,  \* SystemPerformanceCounter
          pmCounter,   \* AcpiPmPerformanceCounter
          queried,     \* history: when the counter was last read
          skipped,     \* history: a whole period passed without a query
          caller       \* [Callers -> record], where each caller is

counterVars == <<source, now, pending, counted, missed, systemCounter, pmCounter,
                 queried, skipped, caller>>

Idle == [at |-> "idle", base |-> 0, read |-> 0, left |-> 0, began |-> 0, length |-> 0]

PitValue == Rollover - (now % Rollover)    \* counts down from Rollover to 1
PmValue == now % Period

CounterInit ==
    /\ source \in {"pit", "pm"}
    /\ now = 0 /\ pending = FALSE /\ counted = 0 /\ missed = 0
    /\ systemCounter = 0 /\ pmCounter = 0 /\ queried = 0 /\ skipped = FALSE
    /\ caller = [c \in Callers |-> Idle]

(* One tick; the PIT requests a clock interrupt when it wraps, and a       *)
(* request that finds one pending is lost.                                 *)
Tick ==
    /\ now < LastTick
    /\ now' = now + 1
    /\ LET wraps == source = "pit" /\ (now + 1) % Rollover = 0
       IN  /\ pending' = (pending \/ wraps)
           /\ missed' = IF wraps /\ pending THEN missed + 1 ELSE missed
    /\ skipped' = (skipped \/ now + 1 - queried >= Period)
    /\ UNCHANGED <<source, counted, systemCounter, pmCounter, queried, caller>>

(* HandleClockInterrupt adds one wrap.  It interrupts the caller, or runs  *)
(* on another processor than the caller's, at any point of a query, whose  *)
(* guard only raises to DISPATCH_LEVEL.                                    *)
HandleClockInterrupt ==
    /\ pending
    /\ pending' = FALSE
    /\ counted' = counted + Rollover
    /\ UNCHANGED <<source, now, missed, systemCounter, pmCounter, queried, skipped, caller>>

Step(c, r) == caller' = [caller EXCEPT ![c] = r]
LockHeld == \E c \in Callers : caller[c].at \in {"based", "latched"}

(* The PM timer: with PerformanceCounterLock, one read, whose distance to  *)
(* the last one is added.                                                  *)
QueryPerformanceCounterAcpiPm(c) ==
    /\ caller[c].at = "idle" /\ source = "pm"
    /\ systemCounter' = systemCounter + ((PmValue - pmCounter) % Period)
    /\ pmCounter' = PmValue
    /\ queried' = now
    /\ UNCHANGED <<source, now, pending, counted, missed, skipped, caller>>

(* The PIT: with the lock, the wraps, then the counter, and again until    *)
(* the wraps have not changed in between.                                  *)
ReadWraps(c) ==
    /\ caller[c].at = "idle" /\ source = "pit" /\ ~LockHeld
    /\ Step(c, [caller[c] EXCEPT !.at = "based", !.base = counted])
    /\ UNCHANGED <<source, now, pending, counted, missed, systemCounter, pmCounter,
                   queried, skipped>>

LatchCounter(c) ==
    /\ caller[c].at = "based"
    /\ Step(c, [caller[c] EXCEPT !.at = "latched", !.read = PitValue])
    /\ queried' = now
    /\ UNCHANGED <<source, now, pending, counted, missed, systemCounter, pmCounter, skipped>>

RetryQuery(c) ==
    /\ caller[c].at = "latched" /\ caller[c].base # counted
    /\ Step(c, [caller[c] EXCEPT !.at = "based", !.base = counted])
    /\ UNCHANGED <<source, now, pending, counted, missed, systemCounter, pmCounter,
                   queried, skipped>>

(* A value below the last one means that a wrap has not been counted yet.  *)
CompensatedNever(value) == value
CompensatedHeld(value) == IF value < systemCounter THEN systemCounter ELSE value
CompensatedEarly(value) == IF value <= systemCounter THEN value + Rollover ELSE value
Compensated(value) == IF value < systemCounter THEN value + Rollover ELSE value

QueryPerformanceCounterPit(c) ==
    /\ caller[c].at = "latched" /\ caller[c].base = counted
    /\ systemCounter' = Compensated(caller[c].base + (Rollover - caller[c].read))
    /\ Step(c, Idle)
    /\ UNCHANGED <<source, now, pending, counted, missed, pmCounter, queried, skipped>>

----------------------------------------------------------------------------
(* Busy waits: the PM timer and channel 2 of the PIT are sampled, and the  *)
(* distances between samples, modulo the counter's period, added up.  left *)
(* is the number of ticks still to pass.                                   *)

BeginStall(c, n) ==
    /\ caller[c].at = "idle"
    /\ Step(c, [caller[c] EXCEPT !.at = "stall", !.read = PmValue, !.left = n,
                                 !.began = now, !.length = n])
    /\ UNCHANGED <<source, now, pending, counted, missed, systemCounter, pmCounter,
                   queried, skipped>>

SampleStall(c) ==
    /\ caller[c].at = "stall" /\ caller[c].left > 0
    /\ PmValue # caller[c].read
    /\ Step(c, [caller[c] EXCEPT !.left = @ - ((PmValue - caller[c].read) % Period),
                                 !.read = PmValue])
    /\ UNCHANGED <<source, now, pending, counted, missed, systemCounter, pmCounter,
                   queried, skipped>>

EndStall(c) ==
    /\ caller[c].at = "stall" /\ caller[c].left <= 0
    /\ Step(c, Idle)
    /\ UNCHANGED <<source, now, pending, counted, missed, systemCounter, pmCounter,
                   queried, skipped>>

CounterNext ==
    \/ Tick
    \/ HandleClockInterrupt
    \/ \E c \in Callers :
          \/ QueryPerformanceCounterAcpiPm(c)
          \/ ReadWraps(c) \/ LatchCounter(c) \/ RetryQuery(c)
          \/ QueryPerformanceCounterPit(c)
          \/ \E n \in Waits : BeginStall(c, n)
          \/ SampleStall(c) \/ EndStall(c)

CounterSpec == CounterInit /\ [][CounterNext]_counterVars

----------------------------------------------------------------------------
(* Until a clock interrupt is lost the performance counter never goes      *)
(* backwards, although the interrupt that counts a wrap comes late: what   *)
(* QueryPerformanceCounterPit adds makes up for the wrap that is not       *)
(* counted yet.  Of a wrap that is never counted nothing is said.          *)
CounterMonotonic ==
    [][missed = 0 => systemCounter' >= systemCounter]_counterVars

(* Before any clock interrupt is lost the answer to a query of the PIT is  *)
(* the time at which the counter was read or one wrap less, and so neither *)
(* stands still nor runs ahead, not even while the next query is under     *)
(* way; the PM timer is exact as long as it is queried once in every       *)
(* period.                                                                 *)
CounterTracksTime ==
    /\ source = "pm" /\ ~skipped => systemCounter = queried
    /\ source = "pit" /\ missed = 0 /\ ~LockHeld
          => systemCounter \in {queried, queried - Rollover}
    /\ source = "pit" /\ missed = 0 => systemCounter <= now

(* No busy wait ends before the ticks asked for have passed, however       *)
(* rarely the counter is sampled.                                          *)
StallsLongEnough ==
    \A c \in Callers :
        caller[c].at = "stall" /\ caller[c].left <= 0
            => now - caller[c].began >= caller[c].length

(* Counters and waits keep up with the time.                               *)
TimeKept == CounterTracksTime /\ StallsLongEnough
=============================================================================
