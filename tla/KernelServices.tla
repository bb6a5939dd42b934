--------------------------- MODULE KernelServices ---------------------------
(***************************************************************************)
(* The small services of the kernel that share no state with each other:   *)
(* run levels, interrupts and resources, performance counters, rundown     *)
(* protection, the interlocked list, the start of processors, the books of *)
(* the pool, the hardware pool, the page tables of the boot, the runtime   *)
(* library, the screen, the ACPI tables, the interrupt controllers and the *)
(* timers.                                                                 *)
(* A behaviour exercises one of them, chosen at the start: interleaving   *)
(* the steps of several would only multiply the states, since none reads   *)
(* what another writes.                                                    *)
(***************************************************************************)
EXTENDS KernelSync, PerformanceCounter, Rundown, InterlockedList,
        ProcessorStart, AllocationTracking, HardwarePool, PageTables, RuntimeServices,
        Screen, AcpiTables, InterruptRouting, TimerSetup

VARIABLE service        \* the service exercised

Services == {"sync", "counter", "rundown", "list", "start", "tracking", "hardware",
             "tables", "runtime", "screen", "acpi", "routing", "timers"}

(* A service that is not exercised has one initial state.                  *)
Init ==
    /\ service \in Services
    /\ SyncInit /\ RundownInit /\ ListInit /\ StartInit /\ TrackInit /\ HardwareInit
    /\ CounterInit /\ (service # "counter" => source = "pm")
    /\ TablesInit /\ (service # "tables" => pageFormat = 1 /\ bootMemory = 1)
    /\ RuntimeInit /\ (service = "runtime" <=> part # "none")
    /\ ScreenInit /\ (service # "screen" => display = 1)
    /\ AcpiInit /\ (service # "acpi" => firmware = 1)
    /\ RoutingInit /\ (service # "routing" => board = 1)
    /\ TimerInit /\ (service # "timers" => timerMachine = 1)

(* Two halves, so that what a step leaves alone is said once for each.     *)
firstVars == <<syncVars, counterVars, rundownVars, listVars, startVars, trackVars>>
restVars == <<hardwareVars, tablesVars, runtimeVars, screenVars, acpiVars, routingVars,
              timerVars>>

SyncOnly ==
    /\ service = "sync" /\ SyncNext
    /\ UNCHANGED <<counterVars, rundownVars, listVars, startVars, trackVars, restVars>>

CounterOnly ==
    /\ service = "counter" /\ CounterNext
    /\ UNCHANGED <<syncVars, rundownVars, listVars, startVars, trackVars, restVars>>

RundownOnly ==
    /\ service = "rundown" /\ RundownNext
    /\ UNCHANGED <<syncVars, counterVars, listVars, startVars, trackVars, restVars>>

ListOnly ==
    /\ service = "list" /\ ListNext
    /\ UNCHANGED <<syncVars, counterVars, rundownVars, startVars, trackVars, restVars>>

StartOnly ==
    /\ service = "start" /\ StartNext
    /\ UNCHANGED <<syncVars, counterVars, rundownVars, listVars, trackVars, restVars>>

TrackingOnly ==
    /\ service = "tracking" /\ TrackNext
    /\ UNCHANGED <<syncVars, counterVars, rundownVars, listVars, startVars, restVars>>

HardwareOnly ==
    /\ service = "hardware" /\ HardwareNext
    /\ UNCHANGED <<tablesVars, runtimeVars, screenVars, acpiVars, routingVars, timerVars, firstVars>>

TablesOnly ==
    /\ service = "tables" /\ TablesNext
    /\ UNCHANGED <<hardwareVars, runtimeVars, screenVars, acpiVars,
                   routingVars, timerVars, firstVars>>

RuntimeOnly ==
    /\ service = "runtime" /\ RuntimeNext
    /\ UNCHANGED <<hardwareVars, tablesVars, screenVars, acpiVars,
                   routingVars, timerVars, firstVars>>

ScreenOnly ==
    /\ service = "screen" /\ ScreenNext
    /\ UNCHANGED <<hardwareVars, tablesVars, runtimeVars, acpiVars,
                   routingVars, timerVars, firstVars>>

AcpiOnly ==
    /\ service = "acpi" /\ AcpiNext
    /\ UNCHANGED <<hardwareVars, tablesVars, runtimeVars, screenVars,
                   routingVars, timerVars, firstVars>>

RoutingOnly ==
    /\ service = "routing" /\ RoutingNext
    /\ UNCHANGED <<hardwareVars, tablesVars, runtimeVars, screenVars,
                   acpiVars, timerVars, firstVars>>

TimersOnly ==
    /\ service = "timers" /\ TimerNext
    /\ UNCHANGED <<hardwareVars, tablesVars, runtimeVars, screenVars,
                   acpiVars, routingVars, firstVars>>

Next ==
    /\ \/ SyncOnly \/ CounterOnly \/ RundownOnly \/ ListOnly
       \/ StartOnly \/ TrackingOnly \/ HardwareOnly \/ TablesOnly \/ RuntimeOnly
       \/ ScreenOnly \/ AcpiOnly \/ RoutingOnly \/ TimersOnly
    /\ UNCHANGED service

vars == <<service, firstVars, restVars>>

Spec == Init /\ [][Next]_vars

----------------------------------------------------------------------------
(* What is done without a lock: the references of rundown protection are   *)
(* exact, no entry of the interlocked list is lost or handed out twice,    *)
(* each processor starts once with structures of its own, and interrupts   *)
(* go where they should at every register write that routes or sends them. *)
LockFreeSound ==
    /\ service = "rundown" => RundownSound
    /\ service = "list" => EntriesAccounted
    /\ service = "start" => StartsSound
    /\ service = "routing" => RoutingSound

(* Memory of the hardware: every piece given out is where and what was     *)
(* asked for and used once, no mapping overlaps another, and the ACPI      *)
(* tables are found, mapped whole and kept apart.                          *)
MappingsSound ==
    /\ service = "hardware" => HardwarePoolSound
    /\ service = "acpi" => AcpiSound

(* What the kernel sets up: the page tables and the PFN database map, hold *)
(* and count what they should at every step, the screen shows the text,    *)
(* and the timers that were chosen run at the pace that is told of them.   *)
SetUpSound ==
    /\ service = "tables" => TablesSound
    /\ service = "screen" => ScreenFaithful
    /\ service = "timers" => TimersSound
=============================================================================
