---------------------------- MODULE LoaderModules ----------------------------
(***************************************************************************)
(* The modules and boot protocols of the boot loader, protocol.cc: the     *)
(* loader loads the modules its configuration names (xtldr.cc), then a     *)
(* menu entry loads those of its BOOTMODULES option and starts the system  *)
(* with the boot protocol that one of them has registered.  LoadModule     *)
(* calls itself for the dependencies; `calls' is its stack.                *)
(*                                                                         *)
(* Names are model values.  CompareWideStringInsensitive takes a name for  *)
(* another of which it is a prefix: Prefixes has these pairs of names.     *)
(***************************************************************************)
EXTENDS Integers, Sequences, FiniteSets

CONSTANTS Modules,      \* names of modules
          Dependencies, \* [Modules -> sequences of modules], their softdeps
          Registers,    \* [Modules -> sets of system types], protocols installed
          Prefixes,     \* pairs of different names, one the beginning of the other
          Lists,        \* the MODULES and BOOTMODULES lists that occur
          SystemTypes,  \* the SYSTEMTYPE options that occur
          MaxFailures   \* bound: modules that cannot be read or started

ASSUME ModulesAssumption ==
    /\ Dependencies \in [Modules -> Seq(Modules)]
    /\ Prefixes \subseteq Modules \X Modules
    /\ MaxFailures \in Nat

VARIABLES loaded,       \* LoadedModules, in the order of insertion
          protocols,    \* BootProtocols, the system types registered
          calls,        \* the calls of LoadModule, innermost last: [module, next]
          entry, at,    \* the list that LoadModules works on, its next element
          result,       \* what the last LoadModule returned: "none", "ok", "failed"
          outcome,      \* ReturnStatus of LoadModules, "ok" or "failed"
          booting,      \* the system type InvokeBootProtocol boots, "none" before
          started,      \* how often each module has started
          failures      \* history: failures so far

moduleVars == <<loaded, protocols, calls, entry, at, result, outcome, booting,
                started, failures>>

ModulesInit ==
    /\ loaded = <<>> /\ protocols = {} /\ calls = <<>>
    /\ entry \in Lists /\ at = 1 /\ result = "none" /\ outcome = "ok"
    /\ booting = "none" /\ started = [m \in Modules |-> 0] /\ failures = 0

ListOf(s) == {s[i] : i \in DOMAIN s}
Alike(a, b) == a = b \/ <<a, b>> \in Prefixes \/ <<b, a>> \in Prefixes
AlreadyLoaded(m) == \E l \in ListOf(loaded) : Alike(l, m)

Top == calls[Len(calls)]
Popped == SubSeq(calls, 1, Len(calls) - 1)

(* A call of LoadModule over the calls in `frames': a module that is in    *)
(* the list is not loaded again, any other is read with its dependencies,  *)
(* or cannot be read.                                                      *)
EnterAlways(m, frames) ==
    /\ calls' = Append(frames, [module |-> m, next |-> 1])
    /\ result' = "none" /\ UNCHANGED failures

Enter(m, frames) ==
    \/ /\ AlreadyLoaded(m)
       /\ calls' = frames /\ result' = "ok" /\ UNCHANGED failures
    \/ /\ ~AlreadyLoaded(m)
       /\ calls' = Append(frames, [module |-> m, next |-> 1])
       /\ result' = "none" /\ UNCHANGED failures
    \/ /\ ~AlreadyLoaded(m) /\ failures < MaxFailures
       /\ calls' = frames /\ result' = "failed" /\ failures' = failures + 1

(* LoadModules goes through its list, whatever became of each module.      *)
LoadNext ==
    /\ calls = <<>> /\ result = "none" /\ at <= Len(entry)
    /\ Enter(entry[at], <<>>)
    /\ at' = at + 1
    /\ UNCHANGED <<loaded, protocols, entry, outcome, booting, started>>

NoteResult ==
    /\ calls = <<>> /\ result # "none"
    /\ outcome' = IF result = "failed" THEN "failed" ELSE outcome
    /\ result' = "none"
    /\ UNCHANGED <<loaded, protocols, calls, entry, at, booting, started, failures>>

(* The next dependency of the module on top; a module whose dependency     *)
(* failed fails, and those already loaded stay.                            *)
More == Top.next <= Len(Dependencies[Top.module])
AdvancedNever == calls
Advanced == [calls EXCEPT ![Len(calls)].next = Top.next + 1]

LoadDependency ==
    /\ calls # <<>> /\ result # "failed" /\ More
    /\ Enter(Dependencies[Top.module][Top.next], Advanced)
    /\ UNCHANGED <<loaded, protocols, entry, at, outcome, booting, started>>

DependencyFailed ==
    /\ calls # <<>> /\ result = "failed"
    /\ calls' = Popped
    /\ UNCHANGED <<loaded, protocols, entry, at, result, outcome, booting, started, failures>>

(* With its dependencies loaded the module is started, which registers its *)
(* boot protocols (RegisterBootProtocol; a type that is there is aborted), *)
(* and enters the list; one that fails to start may have registered some.  *)
Ready == calls # <<>> /\ result # "failed" /\ ~More

StartModule ==
    /\ Ready
    /\ loaded' = Append(loaded, Top.module)
    /\ protocols' = protocols \cup Registers[Top.module]
    /\ started' = [started EXCEPT ![Top.module] = @ + 1]
    /\ calls' = Popped /\ result' = "ok"
    /\ UNCHANGED <<entry, at, outcome, booting, failures>>

StartFails ==
    /\ Ready /\ failures < MaxFailures
    /\ failures' = failures + 1
    /\ \E some \in SUBSET Registers[Top.module] : protocols' = protocols \cup some
    /\ calls' = Popped /\ result' = "failed"
    /\ UNCHANGED <<loaded, entry, at, outcome, booting, started>>

ListDone == calls = <<>> /\ result = "none" /\ at > Len(entry)

(* InvokeBootProtocol, of a menu entry: loads the modules of the entry,    *)
(* and boots when all are loaded and one has registered its system type;   *)
(* if not, the menu is shown again.                                        *)
ChooseEntry ==
    /\ ListDone /\ booting = "none"
    /\ booting' \in SystemTypes
    /\ entry' \in Lists /\ at' = 1
    /\ outcome' = "ok"
    /\ UNCHANGED <<loaded, protocols, calls, result, started, failures>>

CanBoot ==
    /\ ListDone /\ booting # "none" /\ outcome = "ok" /\ booting \in protocols

EntryFails ==
    /\ ListDone /\ booting # "none"
    /\ ~CanBoot
    /\ booting' = "none"
    /\ UNCHANGED <<loaded, protocols, calls, entry, at, result, outcome, started, failures>>

ModulesStep ==
    LoadNext \/ NoteResult \/ LoadDependency \/ DependencyFailed \/ StartModule \/ StartFails

ModulesNext == ModulesStep \/ ChooseEntry \/ EntryFails

----------------------------------------------------------------------------
(* No module is started twice, and the list has the modules after those    *)
(* they depend on, although failures and repeated boots call for them in   *)
(* any order.                                                              *)
LoadedOnce ==
    /\ \A m \in Modules : started[m] = Cardinality({i \in DOMAIN loaded : loaded[i] = m})
    /\ \A m \in Modules : started[m] <= 1
    /\ \A i \in DOMAIN loaded :
            \A d \in ListOf(Dependencies[loaded[i]]) : \E j \in 1..(i - 1) : Alike(loaded[j], d)

(* A module whose load is under way is not in the list yet, waits for the  *)
(* one above it, and occurs once: the recursion follows the dependencies   *)
(* downwards.                                                              *)
CallsDescend ==
    /\ \A i \in DOMAIN calls : ~\E l \in ListOf(loaded) : l = calls[i].module
    /\ \A i, j \in DOMAIN calls : calls[i].module = calls[j].module => i = j
    /\ \A i \in DOMAIN calls \ {1} :
            calls[i].module = Dependencies[calls[i - 1].module][calls[i - 1].next - 1]

(* What InvokeBootProtocol boots has every module of its entry in the list *)
(* and its protocol registered, whatever failed at earlier attempts.       *)
BootHasModules ==
    CanBoot =>
        /\ \A m \in ListOf(entry) : \E l \in ListOf(loaded) : Alike(l, m)
        /\ booting \in protocols

ModulesSound == LoadedOnce /\ CallsDescend /\ BootHasModules
=============================================================================
