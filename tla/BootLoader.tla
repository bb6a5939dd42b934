----------------------------- MODULE BootLoader -----------------------------
(***************************************************************************)
(* The boot loader as a whole: its modules are loaded, a menu entry is     *)
(* chosen, and once the boot protocol of its system is there the boot      *)
(* sequence runs, which maps the images of the modules that were loaded.   *)
(*                                                                         *)
(* What is done at the console, the boot menu over the configuration and   *)
(* the lines typed into dialogs and the shell, is exercised in behaviours  *)
(* of its own: the choice of an entry is all that booting takes from it.   *)
(* So are images and disks, which every step of booting reads.             *)
(***************************************************************************)
EXTENDS LoaderModules, BootSequence, BootMenu, LineInput, PeImage, BlockDevices

CONSTANTS ImageOf,      \* [Modules -> [start, pages]], where firmware puts images
          Claims        \* mappings that might be asked for

VARIABLE task           \* what a behaviour exercises

consoleVars == <<configVars, menuVars, inputVars>>
fileVars == <<pe, disk>>

(* A part that is not exercised has one initial state.                     *)
Init ==
    /\ task \in {"boot", "menu", "input", "image", "disks"}
    /\ ModulesInit /\ BootInit /\ ConfigInit /\ MenuInit /\ InputInit /\ PeInit /\ DiskInit
    /\ task # "boot" => /\ entry = <<>> /\ fromTop = FALSE
                        /\ efiMap = CHOOSE m \in EfiMaps : TRUE
                        /\ frameBuffer = CHOOSE f \in FrameBuffers : TRUE
    /\ task # "menu" => /\ commandLine = CHOOSE l \in CommandLines : TRUE
                        /\ file = CHOOSE f \in Files : TRUE

(* The list GetModulesList returns, as BuildPageMap walks it.              *)
Images == [i \in DOMAIN loaded |-> ImageOf[loaded[i]]]

LoadAndChoose ==
    /\ task = "boot" /\ phase = "idle" /\ ModulesNext
    /\ UNCHANGED <<task, bootVars, consoleVars, fileVars>>
BootSystem ==
    /\ task = "boot" /\ CanBoot /\ BootNext(Images)
    /\ UNCHANGED <<task, moduleVars, consoleVars, fileVars>>
UseMenu ==
    /\ task = "menu" /\ MenuNext
    /\ UNCHANGED <<task, moduleVars, bootVars, inputVars, fileVars>>
TypeLine ==
    /\ task = "input" /\ InputNext
    /\ UNCHANGED <<task, moduleVars, bootVars, configVars, menuVars, fileVars>>
UseImage ==
    /\ task = "image" /\ PeNext
    /\ UNCHANGED <<task, moduleVars, bootVars, consoleVars, disk>>
UseDisks ==
    /\ task = "disks" /\ DiskNext
    /\ UNCHANGED <<task, moduleVars, bootVars, consoleVars, pe>>
Next == LoadAndChoose \/ BootSystem \/ UseMenu \/ TypeLine \/ UseImage \/ UseDisks

vars == <<task, moduleVars, bootVars, consoleVars, fileVars>>

(* The loader is a sequential program: the modules it has begun to load it *)
(* goes on with.  Nobody has to choose a menu entry.                       *)
Fairness ==
    WF_vars(/\ task = "boot" /\ phase = "idle" /\ ModulesStep
            /\ UNCHANGED <<task, bootVars, consoleVars, fileVars>>)

Spec == Init /\ [][Next]_vars /\ Fairness

----------------------------------------------------------------------------
(* The modules are in order, each loaded once, see LoaderModules.          *)
ModulesInOrder == ModulesSound

(* The memory handed to the kernel: the list, the tables and the images of *)
(* the modules that this boot has loaded, see BootSequence.  The list is   *)
(* sound in every state of the sequence, and between two walks of the list *)
(* MapVirtualMemory does what it promises on whatever range might come.    *)
MemorySound ==
    /\ HandoverSound(ListOf(Images))
    /\ ListSound
    /\ Prepared /\ cursor = NoCursor => \A m \in Claims : ClaimKept(list, m)

(* What is booted: images are laid out and moved exactly, and a path leads *)
(* to the disk it names, see PeImage and BlockDevices.                     *)
FilesSound == PeSound /\ DisksSound

(* The recursion over dependencies comes to an end, whatever is loaded     *)
(* already and whatever fails: LoadModules always returns.                 *)
LoadingEnds == []<>ListDone

(* What the console shows and does, see BootMenu and LineInput: the menus  *)
(* show what a key would act on, the countdown boots nothing it should     *)
(* not, options keep their values, and lines are what was typed.           *)
ConsoleSound == MenuSound /\ InputSound
=============================================================================
