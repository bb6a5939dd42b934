--------------------------- MODULE ProcessorStart ---------------------------
(***************************************************************************)
(* The start of the application processors: StartAllProcessors of          *)
(* hl/x86/cpu.cc on the boot processor, and on each processor it starts    *)
(* the trampoline of ar/amd64/archsup.S, BootstrapApplicationProcessor of  *)
(* ke/amd64/krnlinit.cc and InitializeProcessor of hl/x86/cpu.cc.          *)
(*                                                                         *)
(* There is one start block, filled anew for each processor.  The boot     *)
(* processor gives a processor that does not answer in time up and fills   *)
(* the block for the next one; nothing stops the first from waking later.  *)
(***************************************************************************)
EXTENDS Integers, FiniteSets

CONSTANTS ApCount,      \* processors the ACPI tables list, but for the boot one
          MaxCpus,      \* the parameter MAXCPUS
          Structures    \* allocations of processor structures the pool can serve

NoStructures == "null"

ASSUME StartAssumption ==
    /\ ApCount \in Nat \ {0} /\ MaxCpus \in Nat \ {0, 1}
    /\ Structures # {} /\ NoStructures \notin Structures

Aps == 1..ApCount

VARIABLES boot,         \* where StartAllProcessors is
          startBlock,   \* the start block
          allocated,    \* the structures allocated from the pool
          cpuNumber,    \* [Structures -> Nat], CpuNumber of the block in them
          processorBlocks, \* [Nat -> Structures], ProcessorBlocks
          ap,           \* [Aps -> record], where each processor is
          active,       \* ActiveProcessors
          givenUp       \* history: the processors that did not answer in time

startVars == <<boot, startBlock, allocated, cpuNumber, processorBlocks, ap, active, givenUp>>

Off == [at |-> "off", stack |-> NoStructures, structures |-> NoStructures,
        number |-> 0, seen |-> {}]

Numbers == 0..ApCount

StartInit ==
    /\ boot = [at |-> "next", index |-> 1, number |-> 0, structures |-> NoStructures]
    /\ startBlock = [stack |-> NoStructures, structures |-> NoStructures, started |-> FALSE]
    /\ allocated = {}
    /\ cpuNumber = [s \in Structures |-> 0]
    /\ processorBlocks = [n \in Numbers |-> NoStructures]
    /\ ap = [a \in Aps |-> Off]
    /\ active = {0}
    /\ givenUp = {}

(* RegisterProcessorBlock *)
Register(n, s) ==
    processorBlocks' = IF n \in Numbers THEN [processorBlocks EXCEPT ![n] = s]
                       ELSE processorBlocks

(* The list is done, or as many processors run as are wanted.  Unmapping   *)
(* the trampoline fails, since its address is below the hardware pool: it  *)
(* stays mapped, and so does the start block.                              *)
LastProcessor ==
    /\ boot.at = "next"
    /\ boot.index > ApCount \/ boot.number + 1 >= MaxCpus
    /\ boot' = [boot EXCEPT !.at = "done"]
    /\ UNCHANGED <<startBlock, allocated, cpuNumber, processorBlocks, ap, active, givenUp>>

NextProcessor ==
    /\ boot.at = "next"
    /\ boot.index <= ApCount
    /\ boot.number + 1 < MaxCpus

(* AllocateProcessorStructures fails: the processors left are not started. *)
AllocationFails ==
    /\ NextProcessor
    /\ boot' = [boot EXCEPT !.at = "done", !.number = @ + 1]
    /\ UNCHANGED <<startBlock, allocated, cpuNumber, processorBlocks, ap, active, givenUp>>

PrepareStructures(s) ==
    /\ NextProcessor
    /\ s \notin allocated
    /\ allocated' = allocated \cup {s}
    /\ boot' = [boot EXCEPT !.at = "fill", !.number = @ + 1, !.structures = s]
    /\ startBlock' = [startBlock EXCEPT !.stack = s]
    /\ cpuNumber' = [cpuNumber EXCEPT ![s] = boot.number + 1]
    /\ Register(boot.number + 1, s)
    /\ UNCHANGED <<ap, active, givenUp>>

FilledStarted == [startBlock EXCEPT !.structures = boot.structures]
Filled == [startBlock EXCEPT !.structures = boot.structures, !.started = FALSE]

(* The rest of the block, the INIT and the two startup messages.           *)
SendStartup ==
    /\ boot.at = "fill"
    /\ startBlock' = Filled
    /\ ap' = [ap EXCEPT ![boot.index].at = "called"]
    /\ boot' = [boot EXCEPT !.at = "wait"]
    /\ UNCHANGED <<allocated, cpuNumber, processorBlocks, active, givenUp>>

AnswerSeen ==
    /\ boot.at = "wait"
    /\ startBlock.started
    /\ boot' = [boot EXCEPT !.at = "next", !.index = @ + 1]
    /\ UNCHANGED <<startBlock, allocated, cpuNumber, processorBlocks,
                   ap, active, givenUp>>

GiveUpKeepingNumber == boot.number
GiveUpNumber == boot.number - 1

(* A second has passed; Started is read once more.                         *)
GiveUp ==
    /\ boot.at = "wait"
    /\ ~startBlock.started
    /\ allocated' = allocated \ {boot.structures}
    /\ Register(boot.number, NoStructures)
    /\ boot' = [boot EXCEPT !.at = "next", !.index = @ + 1, !.number = GiveUpNumber]
    /\ givenUp' = givenUp \cup {boot.index}
    /\ UNCHANGED <<startBlock, cpuNumber, ap, active>>

(* An application processor runs the trampoline, which loads its stack.    *)
EnterTrampoline(a) ==
    /\ ap[a].at = "called"
    /\ ap' = [ap EXCEPT ![a].at = "trampoline", ![a].stack = startBlock.stack]
    /\ UNCHANGED <<boot, startBlock, allocated, cpuNumber, processorBlocks, active, givenUp>>

(* AR::ProcessorSupport::InitializeProcessor with the structures of the    *)
(* block, through the page of the trampoline.                              *)
InitializeProcessor(a) ==
    /\ ap[a].at = "trampoline"
    /\ LET s == startBlock.structures
       IN  ap' = [ap EXCEPT ![a].at = "initialized", ![a].structures = s,
                            ![a].number = IF s = NoStructures THEN 0 ELSE cpuNumber[s]]
    /\ UNCHANGED <<boot, startBlock, allocated, cpuNumber, processorBlocks, active, givenUp>>

(* HL::Cpu::InitializeProcessor: ActiveProcessors is read and written      *)
(* without a lock.                                                         *)
ReadActive(a) ==
    /\ ap[a].at = "initialized"
    /\ ap' = [ap EXCEPT ![a].at = "activating", ![a].seen = active]
    /\ UNCHANGED <<boot, startBlock, allocated, cpuNumber, processorBlocks, active, givenUp>>

WriteActive(a) ==
    /\ ap[a].at = "activating"
    /\ active' = ap[a].seen \cup {ap[a].number}
    /\ ap' = [ap EXCEPT ![a].at = "active"]
    /\ UNCHANGED <<boot, startBlock, allocated, cpuNumber,
                   processorBlocks, givenUp>>

(* At HIGH_LEVEL the processor reports; what follows is its own.           *)
ReportStarted(a) ==
    /\ ap[a].at = "active"
    /\ startBlock' = [startBlock EXCEPT !.started = TRUE]
    /\ ap' = [ap EXCEPT ![a].at = "running"]
    /\ UNCHANGED <<boot, allocated, cpuNumber, processorBlocks, active, givenUp>>

StartNext ==
    \/ LastProcessor \/ AllocationFails \/ SendStartup \/ AnswerSeen \/ GiveUp
    \/ \E s \in Structures : PrepareStructures(s)
    \/ \E a \in Aps :
        \/ EnterTrampoline(a) \/ InitializeProcessor(a)
        \/ ReadActive(a) \/ WriteActive(a) \/ ReportStarted(a)

StartSpec == StartInit /\ [][StartNext]_startVars

----------------------------------------------------------------------------
Entered == {a \in Aps : ap[a].at \notin {"off", "called", "trampoline"}}
Running == {a \in Aps : ap[a].at = "running"}

(* A processor that was given up woke after all, or was already on its     *)
(* way: from then on it shares the start block with the next one.          *)
WokeLate == \E a \in givenUp : ap[a].at # "called"

(* As long as no processor wakes late, every one that is being started     *)
(* runs on a stack and in structures of its own, both from one allocation  *)
(* that is still allocated and registered under its number: the one start  *)
(* block of StartAllProcessors is not filled for the next processor before *)
(* the last one has read it.                                               *)
StartsExclusive ==
    ~WokeLate =>
        \A a \in Entered :
            /\ ap[a].stack = ap[a].structures
            /\ ap[a].structures \in allocated
            /\ processorBlocks[ap[a].number] = ap[a].structures
            /\ \A b \in Entered \ {a} : ap[b].structures # ap[a].structures

(* When StartAllProcessors is done and none woke late, ActiveProcessors,   *)
(* the registered blocks and the allocations all stand for the processors  *)
(* that run: numbered without gaps, fewer than MAXCPUS, whichever of them  *)
(* failed to answer, and none of the others' structures leaked.            *)
StartAccounted ==
    (boot.at = "done" /\ ~WokeLate) =>
        LET up == {ap[a].number : a \in Running}
        IN  /\ up = 1..Cardinality(Running)
            /\ Cardinality(Running) < MaxCpus
            /\ active = {0} \cup up
            /\ {n \in Numbers : processorBlocks[n] # NoStructures} = up
            /\ allocated = {ap[a].structures : a \in Running}

(* Processors start apart from each other, and the records of it agree.    *)
StartsSound == StartsExclusive /\ StartAccounted
=============================================================================
