----------------------------- MODULE SystemClock -----------------------------
(***************************************************************************)
(* The clock: the interrupt of the system timer (HL::Timer), the times it  *)
(* advances (KE::SystemTime), and the shared page in which they are read   *)
(* without a lock (KE::SharedData).                                        *)
(*                                                                         *)
(* A time is 64 bits wide and kept in three words, the high part twice.    *)
(* A writer stores the second high part, the low part and the first high   *)
(* part; a reader loads the first high part and the low part, and starts   *)
(* again unless the second high part agrees.  Every load and store of a    *)
(* word is a step of its own here, in program order, which is the order    *)
(* x86 keeps for the volatile accesses of the code.                        *)
(*                                                                         *)
(* The interrupt that advances the times is taken by the boot processor.   *)
(* It stops whatever runs there, except at HIGH_LEVEL, where the system    *)
(* time is set.                                                            *)
(***************************************************************************)
EXTENDS Integers

CONSTANTS
  Cpus,           (* Processors, each with a thread that reads or sets.    *)
  Boot,           (* The one that takes the interrupt.                     *)
  Clock,          (* The interrupt handler, as an actor beside them.       *)
  Readers,        (* Processors whose threads read times.                  *)
  Setters,        (* Processors whose threads set the system time.         *)
  LowSize,        (* Number of values of the low part.                     *)
  Horizon,        (* Bound on the times.                                   *)
  NewTimes,       (* System times that are set.                            *)
  LocalClock,     (* The clock is the APIC timer, of which each has one.   *)
  TimeIncrement,  (* 100ns units in one period of the timer, ...           *)
  Fraction,       (* ... the rest (FractionalIncrement), ...               *)
  FractionUnit    (* ... and what makes a whole unit of it (1000).         *)

ASSUME ActorsAssumption ==
  /\ Boot \in Cpus /\ Clock \notin Cpus
  /\ Readers \subseteq Cpus /\ Setters \subseteq Cpus
  /\ LocalClock \in BOOLEAN
ASSUME SizesAssumption ==
  /\ LowSize \in Nat \ {0} /\ Horizon \in Nat /\ NewTimes \subseteq Nat
  /\ TimeIncrement \in Nat \ {0}
  /\ FractionUnit \in Nat \ {0} /\ Fraction \in 0 .. FractionUnit - 1

VARIABLES
  shared,         (* The words of KernelSharedData.                        *)
  now,            (* The times they stand for: a time changes when its low *)
                  (* part does.                                            *)
  running,        (* RunningFraction.                                      *)
  offset,         (* TickOffset.                                           *)
  bootTime,       (* BootTime.                                             *)
  ticking,        (* Processors whose own timer runs.                      *)
  act             (* What each actor is doing.                             *)

times == <<shared, now>>
vars == <<times, running, offset, bootTime, ticking, act>>

Words == {"interrupt", "system", "tick"}
Actors == Cpus \cup {Clock}

High(t) == t \div LowSize
Low(t) == t % LowSize

(* ConfigureTimeIncrement makes the increment of the timer the maximum     *)
(* increment and the adjustment of SetTimeIncrement.                       *)
MaximumIncrement == TimeIncrement
TimeAdjustment == TimeIncrement

(* high and low are what a read has loaded, value the time it returned;    *)
(* from and upto bound the time during the read, back tells that it was    *)
(* set back meanwhile.  new is a time being stored, step the increment of  *)
(* an interrupt.                                                           *)
Idle == [pc |-> "idle", task |-> "none", word |-> "interrupt", high |-> 0, low |-> 0,
         value |-> 0, from |-> 0, upto |-> 0, back |-> FALSE, new |-> 0, step |-> 0]

Init ==
  /\ shared = [w \in Words |-> [high1 |-> 0, low |-> 0, high2 |-> 0]]
  /\ now = [w \in Words |-> 0]
  /\ running = 0
  /\ offset = MaximumIncrement
  /\ bootTime = 0
  /\ ticking = {Boot}
  /\ act = [a \in Actors |-> Idle]

-----------------------------------------------------------------------------
(* Access to a time.                                                       *)

(* A store under way sets the time of word w back.                         *)
SettingBack(w) ==
  \E a \in Actors :
    /\ act[a].pc \in {"store low", "store high1"} /\ act[a].word = w
    /\ act[a].new < act[a].value

Reading(task, w) ==
  [Idle EXCEPT !.pc = "high1", !.task = task, !.word = w, !.from = now[w], !.upto = now[w],
               !.back = SettingBack(w)]

ReadHigh1(a) ==
  /\ act[a].pc = "high1"
  /\ act' = [act EXCEPT ![a].pc = "low", ![a].high = shared[act[a].word].high1]
  /\ UNCHANGED <<times, running, offset, bootTime, ticking>>

ReadLow(a) ==
  /\ act[a].pc = "low"
  /\ act' = [act EXCEPT ![a].pc = "high2", ![a].low = shared[act[a].word].low]
  /\ UNCHANGED <<times, running, offset, bootTime, ticking>>

CompareWith(a, high2) ==
  /\ act[a].pc = "high2"
  /\ act' = [act EXCEPT ![a].pc = IF act[a].high = high2 THEN "got" ELSE "high1",
                        ![a].value = IF act[a].high = high2
                                     THEN act[a].high * LowSize + act[a].low ELSE @]
  /\ UNCHANGED <<times, running, offset, bootTime, ticking>>

CompareNothing(a) == CompareWith(a, act[a].high)
CompareHigh2(a) == CompareWith(a, shared[act[a].word].high2)

GetTime(a) == ReadHigh1(a) \/ ReadLow(a) \/ CompareHigh2(a)

(* What a read in progress of word w sees when actor a goes on to store    *)
(* time t there.                                                           *)
Noted(r, a, w, t, current) ==
  IF r.pc \in {"high1", "low", "high2"} /\ r.word = w
  THEN [r EXCEPT !.from = IF current < @ THEN current ELSE @,
                 !.upto = IF current > @ THEN current ELSE @,
                 !.back = @ \/ t < act[a].value]
  ELSE r

(* The first of the stores that replace the time of word w by t.           *)
StoreHigh2(a, w, t) ==
  /\ shared' = [shared EXCEPT ![w].high2 = High(t)]
  /\ act' = [r \in Actors |->
               IF r = a THEN [act[r] EXCEPT !.pc = "store low", !.word = w, !.new = t]
               ELSE Noted(act[r], a, w, t, now[w])]
  /\ UNCHANGED now

(* The second: from here on the word stands for the new time.              *)
StoreLow(a) ==
  LET w == act[a].word
      t == act[a].new
  IN
  /\ act[a].pc = "store low"
  /\ shared' = [shared EXCEPT ![w].low = Low(t)]
  /\ now' = [now EXCEPT ![w] = t]
  /\ act' = [r \in Actors |->
               IF r = a THEN [act[r] EXCEPT !.pc = "store high1"]
               ELSE Noted(act[r], a, w, t, t)]
  /\ UNCHANGED <<running, offset, bootTime, ticking>>

(* The third, after which the actor goes on as next.                       *)
StoreHigh1(a, task, w, next) ==
  /\ act[a].pc = "store high1" /\ act[a].task = task /\ act[a].word = w
  /\ shared' = [shared EXCEPT ![w].high1 = High(act[a].new)]
  /\ act' = [act EXCEPT ![a] = next]
  /\ UNCHANGED now

-----------------------------------------------------------------------------
(* Threads.                                                                *)

(* GetInterruptTime and GetSystemTime.                                     *)
StartRead(a, w) ==
  /\ a \in Readers
  /\ act[a].pc = "idle"
  /\ act' = [act EXCEPT ![a] = Reading("read", w)]
  /\ UNCHANGED <<times, running, offset, bootTime, ticking>>

(* The tick count is loaded as one quadword: low part and first high part  *)
(* (the second one would be TickFromHigh2).                                *)
TickFromHigh2 == shared["tick"].high2 * LowSize + shared["tick"].low
TickQuadword == shared["tick"].high1 * LowSize + shared["tick"].low

GetTickCount(a) ==
  /\ a \in Readers
  /\ act[a].pc = "idle"
  /\ act' = [act EXCEPT ![a] = [Reading("read", "tick") EXCEPT !.pc = "got",
                                                              !.value = TickQuadword]]
  /\ UNCHANGED <<times, running, offset, bootTime, ticking>>

Return(a) ==
  /\ act[a].pc = "got" /\ act[a].task = "read"
  /\ act' = [act EXCEPT ![a] = Idle]
  /\ UNCHANGED <<times, running, offset, bootTime, ticking>>

(* SetSystemTime raises the run level, reads the old time, stores the new  *)
(* one, and moves the boot time by the difference.                         *)
StartSet(a, t) ==
  /\ a \in Setters
  /\ act[a].pc = "idle"
  /\ act' = [act EXCEPT ![a] = [Reading("set", "system") EXCEPT !.new = t]]
  /\ UNCHANGED <<times, running, offset, bootTime, ticking>>

StoreNewTime(a) ==
  /\ act[a].pc = "got" /\ act[a].task = "set"
  /\ StoreHigh2(a, "system", act[a].new)
  /\ UNCHANGED <<running, offset, bootTime, ticking>>

EndSetMoving(a, delta) ==
  /\ StoreHigh1(a, "set", "system", Idle)
  /\ bootTime' = bootTime + delta
  /\ UNCHANGED <<running, offset, ticking>>

EndSetAlone(a) == EndSetMoving(a, 0)
EndSet(a) == EndSetMoving(a, act[a].new - act[a].value)

-----------------------------------------------------------------------------
(* The interrupt.                                                          *)

(* HandleClockInterrupt adds up the fractions, and passes the increment to *)
(* UpdateSystemTime.  The boot processor does not take it at HIGH_LEVEL.   *)
FractionKept == running + Fraction
FractionLeft == IF running + Fraction >= FractionUnit THEN running + Fraction - FractionUnit
                ELSE running + Fraction

InterruptUnmasked ==
  /\ act[Clock].pc = "idle"
  /\ now["interrupt"] < Horizon /\ now["system"] < Horizon
  /\ running' = FractionLeft
  /\ act' = [act EXCEPT ![Clock] = [Reading("clock", "interrupt") EXCEPT
               !.step = IF running + Fraction >= FractionUnit THEN TimeIncrement + 1
                        ELSE TimeIncrement]]
  /\ UNCHANGED <<times, offset, bootTime, ticking>>

HandleClockInterrupt == act[Boot].task # "set" /\ InterruptUnmasked

(* The sum of what was read and the increment or adjustment is stored.     *)
AdvanceTime(w, by) ==
  /\ act[Clock].pc = "got" /\ act[Clock].word = w
  /\ StoreHigh2(Clock, w, act[Clock].value + by)
  /\ UNCHANGED <<running, offset, bootTime, ticking>>

EndInterruptTime ==
  /\ StoreHigh1(Clock, "clock", "interrupt", [act[Clock] EXCEPT !.pc = "budget"])
  /\ UNCHANGED <<running, offset, bootTime, ticking>>

(* The increment comes off TickOffset; a tick is due when it was not more. *)
ConsumeBudget ==
  /\ act[Clock].pc = "budget"
  /\ offset' = offset - act[Clock].step
  /\ act' = [act EXCEPT ![Clock] = IF offset <= act[Clock].step THEN Reading("clock", "system")
                                   ELSE Idle]
  /\ UNCHANGED <<times, running, bootTime, ticking>>

EndSystemTime ==
  /\ StoreHigh1(Clock, "clock", "system", [act[Clock] EXCEPT !.pc = "count"])
  /\ UNCHANGED <<running, offset, bootTime, ticking>>

IncrementTickCount ==
  /\ act[Clock].pc = "count"
  /\ StoreHigh2(Clock, "tick", TickQuadword + 1)
  /\ UNCHANGED <<running, offset, bootTime, ticking>>

EndTick ==
  /\ StoreHigh1(Clock, "clock", "tick", Idle)
  /\ offset' = offset + MaximumIncrement
  /\ UNCHANGED <<running, bootTime, ticking>>

-----------------------------------------------------------------------------
(* The other processors, when each has its own timer.                      *)

(* InitializeLocalClock configures the increments again for everyone.      *)
InitializeLocalClock(a) ==
  /\ LocalClock
  /\ a \notin ticking
  /\ ticking' = ticking \cup {a}
  /\ running' = 0
  /\ offset' = MaximumIncrement
  /\ UNCHANGED <<times, bootTime, act>>

(* HandleClockInterrupt adds the fraction there too, though nothing else,  *)
(* to the one sum; without a lock one of two additions may be lost.        *)
LocalInterrupt(a) ==
  /\ a \in ticking \ {Boot}
  /\ running' \in {running, FractionLeft}
  /\ UNCHANGED <<times, offset, bootTime, ticking, act>>

-----------------------------------------------------------------------------
UpdateSystemTime ==
  \/ GetTime(Clock)
  \/ AdvanceTime("interrupt", act[Clock].step)
  \/ AdvanceTime("system", TimeAdjustment)
  \/ StoreLow(Clock)
  \/ EndInterruptTime
  \/ ConsumeBudget
  \/ EndSystemTime
  \/ IncrementTickCount
  \/ EndTick

Thread(a) ==
  \/ \E w \in {"interrupt", "system"} : StartRead(a, w)
  \/ GetTickCount(a)
  \/ GetTime(a)
  \/ Return(a)
  \/ \E t \in NewTimes : StartSet(a, t)
  \/ StoreNewTime(a)
  \/ StoreLow(a)
  \/ EndSet(a)

(* The handler runs to its end before the thread it stopped goes on.       *)
Next ==
  \/ HandleClockInterrupt
  \/ UpdateSystemTime
  \/ \E a \in Cpus : InitializeLocalClock(a) \/ LocalInterrupt(a)
  \/ \E a \in Cpus : (a = Boot => act[Clock].pc = "idle") /\ Thread(a)

(* An interrupt handler is not stopped by anything in the model.           *)
Fairness == WF_vars(UpdateSystemTime)

Spec == Init /\ [][Next]_vars
FairSpec == Spec /\ Fairness

-----------------------------------------------------------------------------
(* Properties                                                              *)

Time == [high1 : Nat, low : 0 .. LowSize - 1, high2 : Nat]
Activity ==
  [pc : {"idle", "high1", "low", "high2", "got", "store low", "store high1", "budget",
         "count"},
   task : {"none", "read", "set", "clock"}, word : Words, high : Nat, low : 0 .. LowSize - 1,
   value : Nat, from : Nat, upto : Nat, back : BOOLEAN, new : Nat, step : 0 .. TimeIncrement + 1]

TypeOK ==
  /\ shared \in [Words -> Time]
  /\ now \in [Words -> Nat]
  /\ running \in 0 .. FractionUnit - 1
  /\ offset \in Int /\ bootTime \in Int
  /\ ticking \subseteq Cpus
  /\ act \in [Actors -> Activity]

(* GetInterruptTime and GetSystemTime never mix the parts of two times:    *)
(* what they return lies within the times there were during the call,      *)
(* unless the time was set back meanwhile.  Equal high parts mean that no  *)
(* time with another high part was stored between the two loads, which     *)
(* holds for times that only grow.                                         *)
ReadsUntorn ==
  \A a \in Actors :
    act[a].pc = "got" /\ act[a].word # "tick" /\ ~act[a].back
      => act[a].value \in act[a].from .. act[a].upto

(* GetTickCount has no second high part to compare: it is wrong for as     *)
(* long as the handler has stored a carried low part and not yet the first *)
(* high part, and at no other moment.  TickCountExact includes the types   *)
(* of the variables.                                                       *)
TickCarries ==
  /\ act[Clock].pc = "store high1" /\ act[Clock].word = "tick"
  /\ now["tick"] % LowSize = 0
TickCountExact ==
  /\ TypeOK
  /\ TickQuadword = IF TickCarries THEN now["tick"] - LowSize ELSE now["tick"]

(* The system time is the boot time and one adjustment for each tick: no   *)
(* tick of the interrupt and no setting of the time overwrites the other.  *)
UptimeKept ==
  act[Clock].pc = "idle" /\ (\A a \in Setters : act[a].task # "set") =>
    now["system"] - bootTime = TimeAdjustment * now["tick"]

(* The handler reads the system time in a loop that ends only when both    *)
(* high parts agree; it never waits for one that nobody will complete.     *)
InterruptEnds == (act[Clock].pc # "idle") ~> (act[Clock].pc = "idle")

(* "Determine whether the accumulated increments have crossed the full     *)
(* tick boundary": between interrupts, there was one tick for each full    *)
(* tick period among the increments.                                       *)
TicksMatchIncrements ==
  act[Clock].pc = "idle" => now["tick"] = now["interrupt"] \div MaximumIncrement

=============================================================================
