-------------------------- MODULE InterruptRouting --------------------------
(***************************************************************************)
(* The interrupt controllers, hl/x86/pic.cc: the I/O APICs the MADT lists, *)
(* the redirection entry an IRQ is given, and the interrupts a processor   *)
(* sends to others.  An entry and the command of an interprocessor         *)
(* interrupt each take several register writes: devices go on asserting    *)
(* their lines between them, and an interrupt handler of this processor    *)
(* may send one of its own.                                                *)
(***************************************************************************)
EXTENDS Integers, Sequences, FiniteSets

CONSTANTS Machines,     \* sequence of [madt, mode, id], what is booted
          MaxControllers, MaxOverrides,
          Allocations,  \* set of [irq, level, vector] asked for
          Processors,   \* sequence of processor blocks, [id, started]
          IpiVectors,   \* vectors sent by interrupt handlers
          MaxGiven, MaxSends    \* bounds: requests, and interrupts sent

ASSUME RoutingAssumption ==
    /\ {MaxControllers, MaxOverrides} \subseteq Nat \ {0} /\ {MaxGiven, MaxSends} \subseteq Nat
    /\ DOMAIN Processors \subseteq Nat
    /\ \A i, j \in DOMAIN Processors : Processors[i].id = Processors[j].id => i = j
    /\ \A a \in Allocations : a.level # "free"

(* As ACPI has it, no interrupt is on the lines of two controllers.        *)
ASSUME MadtAssumption ==
    \A m \in DOMAIN Machines :
        LET t == Machines[m].madt
            Controllers == {i \in DOMAIN t : t[i].kind = "ioapic"}
        IN  /\ DOMAIN t \subseteq Nat
            /\ \A i \in Controllers : t[i].base \in Nat /\ t[i].lines \in Nat
            /\ \A i, j \in Controllers : i # j =>
                  t[i].base + t[i].lines <= t[j].base \/ t[j].base + t[j].lines <= t[i].base

VARIABLES board,      \* index of the board
          routing,      \* Controllers and IrqOverrides, as the positions of their
                        \* MADT entries, and MappedVectors, a record
          entries,      \* the redirection registers, [<<controller, line>> -> entry]
          given,        \* history: what each GSI was last given
          ipi           \* interrupt flag, senders, command registers, a record

routingVars == <<board, routing, entries, given, ipi>>

Madt == Machines[board].madt
Compat == Machines[board].mode = "xapic"
NoWrite == [step |-> 0]
Masked == [mask |-> TRUE, vector |-> "free", flags |-> 0]     \* IOAPIC_RTE_MASKED

RoutingInit ==
    /\ board \in DOMAIN Machines
    /\ routing = [state |-> "off", controllers |-> {}, overrides |-> {},
                  vectors |-> [v \in {a.vector : a \in Allocations} |-> "free"], write |-> NoWrite]
    /\ entries = <<>> /\ given = <<>>
    /\ ipi = [enabled |-> TRUE, senders |-> <<>>, destination |-> "none", pending |-> <<>>,
              arrived |-> <<>>, asked |-> <<>>]

----------------------------------------------------------------------------
(* DetectIoApicControllers goes through the MADT until an entry without    *)
(* length, or until the last controller there is room for.                 *)
Of(kind) == {i \in DOMAIN Madt : Madt[i].kind = kind}
Seen ==
    {i \in DOMAIN Madt :
        \A j \in 1..i : /\ Madt[j].kind # "end"
                        /\ Cardinality({c \in Of("ioapic") : c < j}) < MaxControllers}
Controllers == Of("ioapic") \cap Seen
IrqOverrides ==
    {i \in Of("override") \cap Seen :
        Cardinality({o \in Of("override") : o < i}) < MaxOverrides}
Lines == UNION {{c} \X (0..(Madt[c].lines - 1)) : c \in Controllers}

(* InitializeIOApic masks every line of every controller.                  *)
InitializeIOApic(mapped) ==
    /\ routing.state = "off"
    /\ IF Controllers = {} \/ ~mapped
       THEN routing' = [routing EXCEPT !.state = "panic"] /\ UNCHANGED entries
       ELSE /\ routing' = [routing EXCEPT !.state = "ready", !.controllers = Controllers,
                                          !.overrides = IrqOverrides]
            /\ entries' = [l \in Lines |-> [low |-> Masked, destination |-> Madt[l[1]].id]]
    /\ UNCHANGED <<board, given, ipi>>

(* ResolveInterruptOverride and GetIoApicController: the first that fits.  *)
Lowest(S) == CHOOSE x \in S : \A y \in S : x <= y
Route(os, irq) ==
    LET hits == {o \in os : Madt[o].irq = irq}
    IN  IF hits = {} THEN [gsi |-> irq, flags |-> 0]
        ELSE [gsi |-> Madt[Lowest(hits)].gsi, flags |-> Madt[Lowest(hits)].flags]
Resolved(irq) == Route(routing.overrides, irq)

Covering(gsi) ==
    {c \in routing.controllers : gsi \in Madt[c].base..(Madt[c].base + Madt[c].lines - 1)}
LineOf(gsi) == LET c == Lowest(Covering(gsi)) IN <<c, gsi - Madt[c].base>>

(* AllocateSystemInterrupt.  The top byte of the identifier register is    *)
(* the processor in xAPIC mode; in x2APIC mode it is not.  The timers ask, *)
(* when other processors do not run yet.                                   *)
OwnDestination == IF Compat THEN Machines[board].id ELSE 0

AllocateSystemInterrupt(a) ==
    LET r == Resolved(a.irq)
    IN  /\ routing.state = "ready" /\ routing.write = NoWrite
        /\ Len(given) < MaxGiven /\ ipi.asked = <<>>
        /\ Covering(r.gsi) # {}
        /\ routing' = [routing EXCEPT !.write =
               [step |-> 1, line |-> LineOf(r.gsi), level |-> a.level, irq |-> a.irq,
                low |-> [mask |-> FALSE, vector |-> a.vector, flags |-> r.flags]]]
        /\ UNCHANGED <<board, entries, given, ipi>>

(* WriteRedirectionEntry: masked first, then the high half, then the low;  *)
(* then the level is noted for the vector.                                 *)
WriteLowFirst == <<"mask", "low", "high">>
WriteOrder == <<"mask", "high", "low">>

WriteRedirectionEntry ==
    LET w == routing.write
        half == WriteOrder[w.step]
        done == w.step = Len(WriteOrder)
    IN  /\ w # NoWrite
        /\ entries' = [entries EXCEPT ![w.line] =
               CASE half = "mask" -> [@ EXCEPT !.low = Masked]
                 [] half = "high" -> [@ EXCEPT !.destination = OwnDestination]
                 [] half = "low"  -> [@ EXCEPT !.low = w.low]]
        /\ routing' = IF done THEN [routing EXCEPT !.write = NoWrite, !.vectors[w.low.vector] = w.level]
                      ELSE [routing EXCEPT !.write.step = @ + 1]
        /\ given' = IF done THEN Append(given, w) ELSE given
        /\ UNCHANGED <<board, ipi>>

TranslateGsiToVector(gsi) ==
    IF Covering(gsi) = {} THEN "free" ELSE entries[LineOf(gsi)].low.vector

----------------------------------------------------------------------------
(* SendBroadcastIpi and SendIpi.  A sender notes whether interrupts were   *)
(* enabled, disables them, and sends to each processor in turn; in between *)
(* an interrupt would start another sender on top of it.                   *)
Started(self) ==
    {p \in DOMAIN Processors :
        Processors[p].started /\ (self \/ Processors[p].id # Machines[board].id)}

InterruptsKept == ipi.enabled
InterruptsOff == FALSE

BeginSend(to, vector) ==
    /\ routing.state = "ready" /\ routing.write = NoWrite
    /\ Len(ipi.asked) < MaxSends
    /\ ipi' = [ipi EXCEPT
          !.enabled = InterruptsOff,
          !.senders = <<[to |-> to, vector |-> vector, step |-> "wait", saved |-> ipi.enabled]>> \o @,
          !.asked = Append(@, [to |-> to, vector |-> vector])]
    /\ UNCHANGED <<board, routing, entries, given>>

SendBroadcastIpi(self) ==
    /\ ipi.senders = <<>>
    /\ BeginSend(Started(self), "broadcast")

InterruptSends ==
    /\ ipi.enabled
    /\ \E p \in DOMAIN Processors, v \in IpiVectors :
          Processors[p].started /\ BeginSend({p}, v)

(* In xAPIC mode the destination and the command are two registers, and    *)
(* the last command must have been accepted; in x2APIC mode it is one      *)
(* write.                                                                  *)
Sender == ipi.senders[1]
Sending == ipi.senders # <<>> /\ Sender.to # {}
Addressee == Lowest(Sender.to)
Sent == [ipi EXCEPT !.senders[1].to = @ \ {Addressee}, !.senders[1].step = "wait"]

WriteDestination ==
    /\ Compat /\ Sending /\ Sender.step = "wait" /\ ipi.pending = <<>>
    /\ ipi' = [ipi EXCEPT !.destination = Processors[Addressee].id, !.senders[1].step = "command"]
    /\ UNCHANGED <<board, routing, entries, given>>

WriteCommand ==
    /\ Sending
    /\ \/ /\ Compat /\ Sender.step = "command"
          /\ ipi' = [Sent EXCEPT !.pending = <<[to |-> ipi.destination, vector |-> Sender.vector]>>]
       \/ /\ ~Compat
          /\ ipi' = [Sent EXCEPT !.pending =
                         Append(@, [to |-> Processors[Addressee].id, vector |-> Sender.vector])]
    /\ UNCHANGED <<board, routing, entries, given>>

DeliverIpi ==
    /\ ipi.pending # <<>>
    /\ ipi' = [ipi EXCEPT !.pending = Tail(@), !.arrived = Append(@, ipi.pending[1])]
    /\ UNCHANGED <<board, routing, entries, given>>

EndSend ==
    /\ ipi.senders # <<>> /\ Sender.to = {}
    /\ ipi' = [ipi EXCEPT !.senders = Tail(@), !.enabled = Sender.saved]
    /\ UNCHANGED <<board, routing, entries, given>>

RoutingNext ==
    \/ \E mapped \in BOOLEAN : InitializeIOApic(mapped)
    \/ \E a \in Allocations : AllocateSystemInterrupt(a)
    \/ WriteRedirectionEntry
    \/ \E self \in BOOLEAN : SendBroadcastIpi(self)
    \/ InterruptSends \/ WriteDestination \/ WriteCommand \/ DeliverIpi \/ EndSend

RoutingSpec == RoutingInit /\ [][RoutingNext]_routingVars

----------------------------------------------------------------------------
(* What the whole MADT says of an IRQ, whatever was read of it.            *)
TrueRoute(irq) == Route(Of("override"), irq)
AllSeen == Of("override") \subseteq IrqOverrides
NewestOf(uses) == {i \in uses : \A j \in uses : j <= i}

(* A line interrupts only as the whole of what one request asked for, at   *)
(* every step of writing its entry: never a new vector to the destination  *)
(* of before.  Each IRQ given a vector arrives on the line the firmware    *)
(* names, as it says (unless its override is beyond what is read), every   *)
(* other line stays masked, and a vector has the level last given to it.   *)
(* In x2APIC mode the destination is processor 0 (AllocateSystemInterrupt).*)
RoutesWhole ==
    /\ \A l \in DOMAIN entries : ~entries[l].low.mask =>
          /\ entries[l].destination = OwnDestination
          /\ \E i \in DOMAIN given : given[i].low = entries[l].low
    /\ routing.write = NoWrite /\ AllSeen =>
          \A l \in DOMAIN entries :
              LET gsi == Madt[l[1]].base + l[2]
                  uses == {i \in DOMAIN given : TrueRoute(given[i].irq).gsi = gsi}
              IN  /\ entries[l].low.mask <=> uses = {}
                  /\ \A i \in NewestOf(uses) :
                        /\ TranslateGsiToVector(gsi) = given[i].low.vector
                        /\ entries[l].low.flags = TrueRoute(given[i].irq).flags
    /\ \A v \in DOMAIN routing.vectors :
          LET uses == {i \in DOMAIN given : given[i].low.vector = v}
          IN  /\ routing.vectors[v] = "free" <=> uses = {}
              /\ \A i \in NewestOf(uses) : routing.vectors[v] = given[i].level

(* Every interprocessor interrupt asked for arrives once, at the processor *)
(* it was for: none is redirected by another sent in the middle of it.     *)
IpisFor(s, p, v) == Cardinality({i \in DOMAIN s : s[i].to = Processors[p].id /\ s[i].vector = v})
IpisOf(s, p, v) == Cardinality({i \in DOMAIN s : p \in s[i].to /\ s[i].vector = v})
IpisArrive ==
    \A p \in DOMAIN Processors, v \in IpiVectors \cup {"broadcast"} :
        IpisFor(ipi.arrived, p, v) + IpisFor(ipi.pending, p, v) + IpisOf(ipi.senders, p, v)
            = IpisOf(ipi.asked, p, v)

RoutingSound == RoutesWhole /\ IpisArrive
=============================================================================
