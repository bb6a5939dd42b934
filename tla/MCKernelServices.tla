-------------------------- MODULE MCKernelServices --------------------------
(* The constants of KernelServices for TLC.                                *)
EXTENDS KernelServices, TLC

MCTagHash == [t \in {"Mgr", "BigA", "t1", "t2"} |-> IF t \in {"t1", "Mgr"} THEN 0 ELSE 1]
MCMemory == <<Extent(0, 3, "free"), Extent(3, 6, "free"), Extent(9, 1, "used"),
              Extent(10, 6, "free")>>
MCRequests == [count : {1, 2}, aligned : BOOLEAN, max : {8, 100}]
MCWindows == {[year |-> 1, day |-> -719162], [year |-> 1600, day |-> -135140],
              [year |-> 1969, day |-> -365], [year |-> 1999, day |-> 10592],
              [year |-> 2099, day |-> 47117], [year |-> 30826, day |-> 10539438]}
MCStarts == {Clock(11, 2, 2079), Clock(23, 2, 1999)}
MCNewTimes == {[hour |-> 0, second |-> 0, year |-> 2000, weekday |-> 1],
               [hour |-> 12, second |-> 2, year |-> 2019, weekday |-> 2],
               [hour |-> 19, second |-> 2, year |-> 1999, weekday |-> 0]}

(* Floating-point values: powers of the base, what lies just below them,   *)
(* values half-way between two that are shown, and sums of several digits. *)
MCValues == LET P(e) == Power(e) IN
    {0, P(0), P(0) - 1, P(1) - 1, P(-1), P(-3) + 1, 3 * P(-4), P(-5), P(-5) + P(-7),
     P(2) - P(-2) \div 2, P(2) - P(-2) \div 2 - 1, P(1) + P(-1) \div 2,
     P(2) + P(1) + P(0) \div 2, 2 * P(2) + 3 * P(1) + 2 * P(-2) + P(-5),
     P(-2) \div 2, P(-2) \div 2 - 1}
MCExponents == {-100, -99, -5, -1, 0, 1, 3, 10, 11, 99, 101}
MCFractions == {0, 1, 7, 8, 24, 56, 63}
MCFieldWidths == {-9, 0, 14}

(* Displays whose last column of text is whole or cut off, with and without *)
(* memory between the lines.                                               *)
Display(w, h, p) == [width |-> w, height |-> h, pitch |-> p]
MCDisplays == <<Display(6, 5, 6), Display(7, 5, 7), Display(8, 5, 8), Display(8, 6, 9),
                Display(9, 5, 10)>>
MCGlyphs == [c \in {"a", "missing"} |-> IF c = "a" THEN {<<0, 0>>, <<2, 1>>} ELSE {}]

(* Firmware: tables of one, two and three pages, damaged ones, a root table *)
(* or RSDP that is bad, missing or too long to map, and a MADT that breaks *)
(* off.                                                                    *)
Table(sig, addr, len, good) ==
    [sig |-> sig, addr |-> addr, len |-> len, good |-> good, old |-> FALSE]
Cpu(kind, id, enabled, size) == [kind |-> kind, id |-> id, enabled |-> enabled, size |-> size]
MCMadt == <<Cpu("apic", 0, TRUE, "full"), Cpu("other", 9, TRUE, "full"),
            Cpu("x2apic", 1, TRUE, "full"), Cpu("apic", 2, FALSE, "full"),
            Cpu("apic", 3, TRUE, "short"), Cpu("x2apic", 4, TRUE, "full"),
            Cpu("apic", 5, TRUE, "none"), Cpu("apic", 6, TRUE, "full")>>
OldFadt == [Table("FADT", 41, 2, FALSE) EXCEPT !.old = TRUE]
Usual ==
    [rsdp |-> 4, rsdpGood |-> TRUE, root |-> Table("XSDT", 10, 2, TRUE), madt |-> MCMadt,
     tables |-> <<OldFadt, Table("MADT", 50, 4, TRUE), Table("SSDT", 61, 1, TRUE),
                  Table("SSDT", 70, 1, TRUE), Table("HPET", 80, 1, FALSE)>>,
     pointed |-> {Table("DSDT", 91, 8, TRUE), Table("FACS", 100, 2, FALSE)}]
MCFirmwares ==
    <<Usual,
      [Usual EXCEPT !.root = Table("RSDT", 11, 6, TRUE),
                    !.tables = <<Table("FADT", 41, 4, TRUE), Table("MADT", 50, 2, TRUE)>>],
      [Usual EXCEPT !.root = Table("XSDT", 10, 40, TRUE)],
      [Usual EXCEPT !.rsdpGood = FALSE], [Usual EXCEPT !.rsdp = 0],
      [Usual EXCEPT !.root = Table("?", 10, 2, FALSE)],
      [Usual EXCEPT !.tables = <<>>, !.madt = <<>>],
      [Usual EXCEPT !.tables = <<OldFadt, Table("MADT", 50, 8, TRUE)>>]>>

(* Machines of one and two I/O APICs in both modes, with overrides before, *)
(* between and after them, too many of them, and none at all.              *)
IoApic(id, base, lines) == [kind |-> "ioapic", id |-> id, base |-> base, lines |-> lines]
Override(irq, gsi, flags) == [kind |-> "override", irq |-> irq, gsi |-> gsi, flags |-> flags]
Kind(k) == [kind |-> k]
Machine(apic, id, madt) == [mode |-> apic, id |-> id, madt |-> madt]
MCMachines ==
    <<Machine("xapic", 1, <<Kind("other"), IoApic(7, 0, 3), Override(0, 2, 3),
                            Override(5, 4, 1), IoApic(8, 3, 2)>>),
      Machine("x2apic", 1, <<Override(0, 2, 3), IoApic(7, 0, 3), Kind("end"), Override(1, 0, 0)>>),
      Machine("xapic", 0, <<IoApic(7, 0, 3), Override(0, 2, 0), Override(1, 0, 3),
                            Override(5, 1, 3)>>),
      Machine("xapic", 0, <<IoApic(7, 0, 3), IoApic(8, 3, 2), Override(0, 2, 0)>>),
      Machine("xapic", 0, <<Override(0, 2, 0)>>)>>
Allocation(irq, rl, vector) == [irq |-> irq, level |-> rl, vector |-> vector]
MCAllocations == {Allocation(0, "clock", "vc"), Allocation(2, "device", "vd"),
                  Allocation(5, "device", "vc")}
MCProcessors == <<[id |-> 0, started |-> TRUE], [id |-> 1, started |-> TRUE],
                  [id |-> 2, started |-> FALSE]>>

(* Timers: machines whose frequencies are told or measured, with and       *)
(* without each device, with a product that overflows, and with the kernel *)
(* parameters that name devices, which may be missing.                     *)
TimerMachine(arat, tsc, leaf, ratio, hpet, pm) ==
    [arat |-> arat, invariant |-> tsc, rdtscp |-> tsc, leaf |-> leaf, den |-> ratio[1],
     num |-> ratio[2], crystal |-> ratio[3], hpet |-> hpet, period |-> 25,
     legacy |-> hpet = "ok", pmPort |-> pm, clock |-> {}, timer |-> {},
     hz |-> [tsc |-> 240, lapic |-> IF leaf /\ ratio[3] # 0 THEN ratio[3] ELSE 100,
             hpet |-> 40]]
MCTimerMachines ==
    LET T(arat, tsc, leaf, ratio, hpet, pm) == TimerMachine(arat, tsc, leaf, ratio, hpet, pm)
        Untold(arat, tsc, hpet, pm) == T(arat, tsc, FALSE, <<0, 0, 0>>, hpet, pm)
    IN  <<Untold(TRUE, TRUE, "ok", TRUE), T(TRUE, TRUE, TRUE, <<1, 10, 24>>, "none", FALSE),
          T(TRUE, TRUE, TRUE, <<2, 20, 24>>, "none", FALSE),
          T(TRUE, TRUE, TRUE, <<2, 20, 0>>, "zero", FALSE),
          T(TRUE, FALSE, TRUE, <<0, 3, 24>>, "ok", FALSE), Untold(TRUE, FALSE, "none", FALSE),
          [Untold(TRUE, TRUE, "none", TRUE) EXCEPT !.hz["lapic"] = 0],
          [Untold(FALSE, FALSE, "ok", TRUE) EXCEPT !.period = 0, !.hz["hpet"] = 14],
          [Untold(FALSE, TRUE, "ok", FALSE) EXCEPT !.clock = {"lapic"}, !.timer = {"pm"}],
          [Untold(TRUE, TRUE, "ok", TRUE) EXCEPT !.clock = {"pit"}, !.timer = {"pit"}],
          [Untold(TRUE, TRUE, "ok", TRUE) EXCEPT !.clock = {"hpet", "pit"}, !.timer = {"hpet"}],
          [Untold(TRUE, FALSE, "none", TRUE) EXCEPT !.clock = {"hpet"}, !.timer = {"tsc"}]>>
MCRateLimits == [min |-> 100, max |-> 2000]
MCProfileLimits == [min |-> 100, max |-> 9000, tick |-> 100, default |-> 10]

----------------------------------------------------------------------------
(* The page tables of the boot: the four page map formats with smaller     *)
(* tables, and the memory of a small machine.                              *)

(* amd64: eight entries a table, and the slots of the root for the         *)
(* self-map, hyperspace, the loader's mappings and all the rest.           *)
Upper(wide, va, a) == 2^wide - 2^va + a
Long(levels, va, wide, slot, base, top) ==
    LET K(a) == Upper(wide, va, 2^va - 2^16 + a)
    IN  [levels |-> levels, index |-> 3, root |-> 3, entry |-> 1, va |-> va, word |-> wide,
         self |-> slot, base |-> base, userEnd |-> top,
         hyper |-> K(40960), hyperEnd |-> K(40960 + 2047), kseg0 |-> K(49152),
         systemPtes |-> K(57344), ptes |-> 10,
         paged |-> K(57344 + 1024), pagedEnd |-> K(57344 + 3 * 1024 - 1),
         pfn |-> K(57344 + 3 * 1024), poolPages |-> 2, expansion |-> 0, expansionPages |-> 5,
         hardware |-> K(65536 - 256), shared |-> K(65536 - 256 + 48)]
Pml4 == Long(4, 16, 19, 4, <<Upper(19, 16, 32768), Upper(19, 16, 36864), Upper(19, 16, 37376),
               Upper(19, 16, 37440)>>,
             2 * 8192 - 17)
Pml5 == Long(5, 19, 22, 5,
             <<Upper(22, 19, 327680), Upper(22, 19, 368640), Upper(22, 19, 373760),
               Upper(22, 19, 374400), Upper(22, 19, 374480)>>,
             4 * 65536 - 17)

(* i686: thirty-two entries in two levels, or eight in three with PAE.     *)
Short(levels, index, root, wide, slot, base, span, ptes, pages, expansion, hardware) ==
    [levels |-> levels, index |-> index, root |-> root, entry |-> 1, va |-> wide, word |-> wide,
     self |-> slot, base |-> base, userEnd |-> 2^(wide - 1) - 2^(index + 1) - 1,
     hyper |-> 0, hyperEnd |-> 0, kseg0 |-> 2^(wide - 1), systemPtes |-> ptes, ptes |-> 10,
     paged |-> 0, pagedEnd |-> 0, pfn |-> 2^(wide - 1) + span, poolPages |-> pages,
     expansion |-> expansion, expansionPages |-> 4, hardware |-> hardware,
     shared |-> hardware + 3 * 2^(index + 1)]
Pml2 == Short(2, 4, 4, 13, 12, <<6144, 6528>>, 512, 14 * 512, 2, 7552, 7680)
Pml3(pages) == Short(3, 3, 2, 12, 0, <<3072, 3456>>, 128, 3712, pages, 3872, 3968)

MCFormats == <<Pml4, Pml5, Pml2, Pml3(3), Pml3(4)>>

MCBootMemory(free) ==
    <<Block(0, 1, "permanent"), Block(1, 2, "free"), Block(3, 3, "system"),
      Block(6, 1, "hardware"), Block(7, 2, "bad"), Block(9, 2, "temporary"),
      Block(11, 14, "data"), Block(25, free, "free")>>
MCBootMemories == <<MCBootMemory(34), MCBootMemory(20)>>
=============================================================================
