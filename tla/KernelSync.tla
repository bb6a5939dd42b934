----------------------------- MODULE KernelSync -----------------------------
(***************************************************************************)
(* Interrupts, run levels and system resources of the kernel, per          *)
(* processor: ke/runlevel.cc, hl/amd64/runlevel.cc, hl/amd64/irq.cc, the   *)
(* inter-processor interrupts of hl/x86/pic.cc, the clock handlers of      *)
(* hl/x86/timer.cc as far as they nest, ke/spinlock.cc and ke/sysres.cc.   *)
(*                                                                         *)
(* A processor runs its mainline code and, on top of it, a stack of        *)
(* interrupt handlers.  Its local APIC keeps the requested (irr) and the   *)
(* in-service (isr) vectors and delivers the highest requested vector when *)
(* its class is above the run level (CR8) and above every vector in        *)
(* service, and the interrupt flag is set.                                 *)
(***************************************************************************)
EXTENDS Integers, Sequences, FiniteSets

CONSTANTS Cpus,         \* the processors
          ClockCpu,     \* the one that keeps the time: the PIT or HPET
                        \* interrupt is routed to the boot processor
          ErrorCpus,    \* those whose APIC reports errors
          Resources     \* the system resources the loader passed, one type each

NoCpu == "none"
NoResource == "none"

ASSUME SyncAssumption ==
    /\ ClockCpu \in Cpus /\ ErrorCpus \subseteq Cpus
    /\ NoCpu \notin Cpus /\ NoResource \notin Resources

VARIABLES level,        \* [Cpus -> run level], the register CR8
          flag,         \* [Cpus -> BOOLEAN], the interrupt flag
          irr, isr,     \* [Cpus -> SUBSET Vectors], requested and in service
          frames,       \* [Cpus -> Seq(frame)], the handlers running, last on top
          main,         \* [Cpus -> record], where the mainline code is
          resLock,      \* the processor in ResourcesLock, or NoCpu
          locked,       \* [Resources -> BOOLEAN], ResourceLocked
          profiling     \* ProfilingEnabled

syncVars == <<level, flag, irr, isr, frames, main, resLock, locked, profiling>>

(* Run levels, and the vectors used with their level: the class of a       *)
(* vector is its number divided by 16.                                     *)
APC == 1
DISPATCH == 2
CLOCK == 13
HIGH == 15
Vectors == {"clock", "clockIpi", "error"}
Class == [clock |-> 13, clockIpi |-> 13, error |-> 14]
Number == [clock |-> 209, clockIpi |-> 210, error |-> 227]

HighestVector(S) == CHOOSE v \in S : \A w \in S : Number[v] >= Number[w]
ClassOf(S) == IF S = {} THEN 0 ELSE Class[HighestVector(S)]

InMain(c) == frames[c] = <<>>
Top(c) == frames[c][Len(frames[c])]
SetTop(c, f) == [frames EXCEPT ![c] = SubSeq(@, 1, Len(@) - 1) \o <<f>>]
PopFrame(c) == [frames EXCEPT ![c] = SubSeq(@, 1, Len(@) - 1)]

(* Not doing anything: old is the level to restore, off says that the code *)
(* around has disabled interrupts, leaked that ReleaseResource has since   *)
(* enabled them behind its back, holds is the resource it owns.            *)
Resting == [at |-> "rest", old |-> APC, saved |-> FALSE, off |-> FALSE, leaked |-> FALSE,
            want |-> NoResource, holds |-> NoResource]

SyncInit ==
    /\ level = [c \in Cpus |-> APC]
    /\ flag = [c \in Cpus |-> TRUE]
    /\ irr = [c \in Cpus |-> {}]
    /\ isr = [c \in Cpus |-> {}]
    /\ frames = [c \in Cpus |-> <<>>]
    /\ main = [c \in Cpus |-> Resting]
    /\ resLock = NoCpu
    /\ locked = [r \in Resources |-> FALSE]
    /\ profiling = FALSE

----------------------------------------------------------------------------
(* Interrupts.                                                             *)

(* A device requests the vector; a request that is already there is lost.  *)
Request(c, v) ==
    /\ v \notin irr[c]
    /\ irr' = [irr EXCEPT ![c] = @ \cup {v}]
    /\ UNCHANGED <<level, flag, isr, frames, main, resLock, locked, profiling>>

(* The processor accepts the highest requested vector: an interrupt gate   *)
(* clears the flag, which the frame keeps.                                 *)
DispatchInterrupt(c) ==
    /\ flag[c]
    /\ irr[c] # {}
    /\ LET v == HighestVector(irr[c])
       IN  /\ Class[v] > level[c]
           /\ Class[v] > ClassOf(isr[c])
           /\ irr' = [irr EXCEPT ![c] = @ \ {v}]
           /\ isr' = [isr EXCEPT ![c] = @ \cup {v}]
           /\ frames' = [frames EXCEPT ![c] =
                            Append(@, [vector |-> v, old |-> level[c], at |-> "enter", acked |-> FALSE])]
    /\ flag' = [flag EXCEPT ![c] = FALSE]
    /\ UNCHANGED <<level, main, resLock, locked, profiling>>

RaiseForgotten(c, l) == level
RaiseTo(c, l) == IF level[c] < l THEN [level EXCEPT ![c] = l] ELSE level
LowerTo(c, l) == IF level[c] > l THEN [level EXCEPT ![c] = l] ELSE level

(* Acknowledging an interrupt takes the highest vector out of service.     *)
SendEoi(c) == isr' = [isr EXCEPT ![c] = IF @ = {} THEN @ ELSE @ \ {HighestVector(@)}]

(* The clock handlers first save and raise the run level and enable        *)
(* interrupts again.                                                       *)
BeginSystemInterrupt(c) ==
    /\ ~InMain(c) /\ Top(c).at = "enter" /\ Top(c).vector # "error"
    /\ frames' = SetTop(c, [Top(c) EXCEPT !.old = level[c], !.at = "begun"])
    /\ level' = RaiseTo(c, CLOCK)
    /\ flag' = [flag EXCEPT ![c] = TRUE]
    /\ UNCHANGED <<irr, isr, main, resLock, locked, profiling>>

(* While profiling is on, a handler whose countdown has expired calls      *)
(* HandleProfileInterrupt, which acknowledges an interrupt of its own.     *)
ProfileExpires(c) ==
    /\ ~InMain(c) /\ Top(c).at = "begun"
    /\ profiling
    /\ SendEoi(c)
    /\ frames' = SetTop(c, [Top(c) EXCEPT !.at = "work", !.acked = TRUE])
    /\ UNCHANGED <<level, flag, irr, main, resLock, locked, profiling>>

(* The clock handler of the processor that keeps the time tells the other  *)
(* started processors with a broadcast; an IPI is sent with interrupts     *)
(* disabled and the flag is then restored, so it is one step.              *)
HandleClock(c) ==
    /\ ~InMain(c) /\ Top(c).at \in {"begun", "work"}
    /\ frames' = SetTop(c, [Top(c) EXCEPT !.at = "end"])
    /\ irr' = IF Top(c).vector = "clock"
              THEN [d \in Cpus |-> IF d = c THEN irr[d] ELSE irr[d] \cup {"clockIpi"}]
              ELSE irr
    /\ UNCHANGED <<level, flag, isr, main, resLock, locked, profiling>>

(* Disable interrupts, acknowledge, lower the run level to the saved one,  *)
(* and return from the interrupt, which restores the flag: nothing can     *)
(* come between, interrupts being disabled.                                *)
EndInterrupt(c) ==
    /\ ~InMain(c) /\ Top(c).at = "end"
    /\ SendEoi(c)
    /\ level' = LowerTo(c, Top(c).old)
    /\ flag' = [flag EXCEPT ![c] = TRUE]
    /\ frames' = PopFrame(c)
    /\ UNCHANGED <<irr, main, resLock, locked, profiling>>

(* The handler of APIC errors runs with interrupts disabled throughout.    *)
HandleApicErrorInterrupt(c) ==
    /\ ~InMain(c) /\ Top(c).at = "enter" /\ Top(c).vector = "error"
    /\ SendEoi(c)
    /\ flag' = [flag EXCEPT ![c] = TRUE]
    /\ frames' = PopFrame(c)
    /\ UNCHANGED <<level, irr, main, resLock, locked, profiling>>

----------------------------------------------------------------------------
(* Mainline code.                                                          *)

At(c, a) == InMain(c) /\ main[c].at = a
Go(c, m) == main' = [main EXCEPT ![c] = m]

(* A RaiseRunLevel guard, and its end.                                     *)
RaiseRunLevel(c, l) ==
    /\ At(c, "rest")
    /\ Go(c, [main[c] EXCEPT !.at = "raised", !.old = level[c]])
    /\ level' = RaiseTo(c, l)
    /\ UNCHANGED <<flag, irr, isr, frames, resLock, locked, profiling>>

LowerRunLevel(c) ==
    /\ At(c, "raised")
    /\ Go(c, [main[c] EXCEPT !.at = "rest", !.old = APC])
    /\ level' = LowerTo(c, main[c].old)
    /\ UNCHANGED <<flag, irr, isr, frames, resLock, locked, profiling>>

(* Code that disables interrupts for a while, and enables them again.      *)
ClearInterruptFlag(c) ==
    /\ At(c, "rest") /\ ~main[c].off
    /\ Go(c, [main[c] EXCEPT !.off = TRUE, !.leaked = FALSE])
    /\ flag' = [flag EXCEPT ![c] = FALSE]
    /\ UNCHANGED <<level, irr, isr, frames, resLock, locked, profiling>>

SetInterruptFlag(c) ==
    /\ At(c, "rest") /\ main[c].off
    /\ Go(c, [main[c] EXCEPT !.off = FALSE, !.leaked = FALSE])
    /\ flag' = [flag EXCEPT ![c] = TRUE]
    /\ UNCHANGED <<level, irr, isr, frames, resLock, locked, profiling>>

(* GetSystemResource remembers the flag, disables interrupts and spins for *)
(* ResourcesLock.                                                          *)
AcquireResource(c, r) ==
    /\ At(c, "rest") /\ main[c].holds = NoResource
    /\ Go(c, [main[c] EXCEPT !.at = "get", !.saved = flag[c], !.want = r])
    /\ flag' = [flag EXCEPT ![c] = FALSE]
    /\ UNCHANGED <<level, irr, isr, frames, resLock, locked, profiling>>

AcquireSpinLock(c, from, to) ==
    /\ At(c, from)
    /\ resLock = NoCpu
    /\ resLock' = c
    /\ Go(c, [main[c] EXCEPT !.at = to])
    /\ UNCHANGED <<level, flag, irr, isr, frames, locked, profiling>>

(* The list is searched and the resource marked with the lock held.        *)
GetSystemResource(c) ==
    /\ At(c, "search")
    /\ LET r == main[c].want
       IN  IF locked[r]
           THEN /\ Go(c, [main[c] EXCEPT !.at = "unlock"])
                /\ UNCHANGED locked
           ELSE /\ locked' = [locked EXCEPT ![r] = TRUE]
                /\ Go(c, [main[c] EXCEPT !.at = "unlock", !.holds = r])
    /\ UNCHANGED <<level, flag, irr, isr, frames, resLock, profiling>>

(* The flag that GetSystemResource restores.                               *)
EnabledAlways(c) == TRUE
SavedFlag(c) == main[c].saved

(* The lock is released before the flag is set again as it was.            *)
ReleaseSpinLock(c) ==
    /\ At(c, "unlock")
    /\ resLock' = NoCpu
    /\ Go(c, [main[c] EXCEPT !.at = "rest", !.want = NoResource, !.saved = FALSE])
    /\ flag' = [flag EXCEPT ![c] = SavedFlag(c)]
    /\ UNCHANGED <<level, irr, isr, frames, locked, profiling>>

(* ReleaseResource disables interrupts and does not remember the flag.     *)
ReleaseResource(c) ==
    /\ At(c, "rest") /\ main[c].holds # NoResource
    /\ Go(c, [main[c] EXCEPT !.at = "put"])
    /\ flag' = [flag EXCEPT ![c] = FALSE]
    /\ UNCHANGED <<level, irr, isr, frames, resLock, locked, profiling>>

(* It clears the mark, releases the lock and enables interrupts.           *)
FinishRelease(c) ==
    /\ At(c, "clear")
    /\ locked' = [locked EXCEPT ![main[c].holds] = FALSE]
    /\ resLock' = NoCpu
    /\ Go(c, [main[c] EXCEPT !.at = "rest", !.holds = NoResource,
                              !.leaked = main[c].off])
    /\ flag' = [flag EXCEPT ![c] = TRUE]
    /\ UNCHANGED <<level, irr, isr, frames, profiling>>

(* Profiling is switched on and off by any code.                           *)
StartProfileInterrupt ==
    /\ ~profiling
    /\ profiling' = TRUE
    /\ UNCHANGED <<level, flag, irr, isr, frames, main, resLock, locked>>

StopProfileInterrupt ==
    /\ profiling
    /\ profiling' = FALSE
    /\ UNCHANGED <<level, flag, irr, isr, frames, main, resLock, locked>>

InterruptStep(c) ==
    \/ c = ClockCpu /\ Request(c, "clock")
    \/ c \in ErrorCpus /\ Request(c, "error")
    \/ DispatchInterrupt(c)
    \/ BeginSystemInterrupt(c)
    \/ ProfileExpires(c)
    \/ HandleClock(c)
    \/ EndInterrupt(c)
    \/ HandleApicErrorInterrupt(c)

ResourceStep(c) ==
    \/ \E r \in Resources : AcquireResource(c, r)
    \/ AcquireSpinLock(c, "get", "search")
    \/ AcquireSpinLock(c, "put", "clear")
    \/ GetSystemResource(c)
    \/ ReleaseSpinLock(c)
    \/ ReleaseResource(c)
    \/ FinishRelease(c)

LevelStep(c) ==
    \/ \E l \in {DISPATCH, HIGH} : RaiseRunLevel(c, l)
    \/ LowerRunLevel(c)
    \/ ClearInterruptFlag(c)
    \/ SetInterruptFlag(c)

SyncNext ==
    \/ \E c \in Cpus : InterruptStep(c) \/ ResourceStep(c) \/ LevelStep(c)
    \/ StartProfileInterrupt
    \/ StopProfileInterrupt

SyncSpec == SyncInit /\ [][SyncNext]_syncVars

----------------------------------------------------------------------------
(* A resource is marked locked exactly while one processor holds it, and   *)
(* no two hold the same: AcquireResource and ReleaseResource agree about   *)
(* ownership whatever the interleaving of their steps.                     *)
ResourcesExclusive ==
    \A r \in Resources :
        Cardinality({c \in Cpus : main[c].holds = r}) = (IF locked[r] THEN 1 ELSE 0)

(* A processor waits for or holds ResourcesLock only with interrupts       *)
(* disabled and with no handler running, so a handler on the same          *)
(* processor never spins for a lock that the code below it holds.          *)
LockNeverInterrupted ==
    \A c \in Cpus :
        main[c].at \in {"get", "search", "unlock", "put", "clear"}
            => ~flag[c] /\ InMain(c)

(* The run level that interrupted code had: of the handler above it, or,   *)
(* for the topmost code, the processor's own.                              *)
LevelUnder(c, i) == IF i > Len(frames[c]) THEN level[c] ELSE frames[c][i].old

(* Nested handlers run at strictly rising levels, each above the level of  *)
(* the code it interrupted, and the level each will restore is the one of  *)
(* that code: EndInterrupt leaves the interrupted code where it was.       *)
HandlersNest ==
    \A c \in Cpus :
        /\ LevelUnder(c, 1) = main[c].old \/ main[c].at = "raised"
        /\ \A i \in DOMAIN frames[c] :
               /\ frames[c][i].old < Class[frames[c][i].vector]
               /\ frames[c][i].at # "enter" =>
                      LevelUnder(c, i + 1) = CLOCK

(* The vectors in service are those of the handlers that are running and   *)
(* have not acknowledged yet: an acknowledgement never takes the interrupt *)
(* of another handler out of service, although a clock handler in which a  *)
(* profiling tick expires acknowledges twice.                              *)
ServiceMatchesHandlers ==
    \A c \in Cpus :
        isr[c] = {frames[c][i].vector : i \in {j \in DOMAIN frames[c] : ~frames[c][j].acked}}

(* Code that has disabled interrupts does not find them enabled before it  *)
(* enables them itself, whatever it calls in between, except a call to     *)
(* ReleaseResource, which does not restore the flag it found.              *)
InterruptsStayDisabled ==
    \A c \in Cpus : main[c].off /\ ~main[c].leaked => ~flag[c]

(* The handlers of a processor nest, and acknowledge what they handle.     *)
InterruptsNest == HandlersNest /\ ServiceMatchesHandlers

(* Resources have one owner, and neither they nor their lock can leave a   *)
(* processor waiting for itself or interruptible where it must not be.     *)
ResourcesSafe == ResourcesExclusive /\ LockNeverInterrupted /\ InterruptsStayDisabled

(* Handlers nest and acknowledge, and what they interrupt is safe.         *)
SyncSound == InterruptsNest /\ ResourcesSafe
=============================================================================
