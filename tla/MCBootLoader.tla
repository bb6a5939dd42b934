---------------------------- MODULE MCBootLoader ----------------------------
(* The constants of BootLoader for TLC.                                    *)
EXTENDS BootLoader

MCDependencies == [m \in Modules |->
    CASE m = "xtos_o" -> <<"pecoff", "acpi">>
      [] m \in {"pecoff", "acpi"} -> <<"framebuf">>
      [] OTHER -> <<>>]
MCRegisters == [m \in Modules |-> IF m = "xtos_o" THEN {"XTOS"} ELSE {}]
MCPrefixes == {<<"xtos", "xtos_o">>}
MCLists == {<<>>, <<"acpi", "acpi">>, <<"xtos_o", "acpi">>, <<"pecoff", "xtos_o">>,
            <<"xtos", "xtos_o">>}
MCImageOf == [m \in Modules |->
    [start |-> CASE m = "xtos" -> 21 [] m = "xtos_o" -> 22 [] m = "pecoff" -> 24
                 [] m = "acpi" -> 25 [] OTHER -> 26,
     pages |-> 1]]

D(t, s, n) == [type |-> t, start |-> s, pages |-> n]
ImagePages == D("ldcode", 21, 6)
(* Memory as firmware describes it, in any order: ample; with memory of    *)
(* boot services and reserved ranges; scarce; with page 0 in use.          *)
MCEfiMaps == {
    <<D("conventional", 0, 5), D("bsdata", 7, 3), D("conventional", 10, 11), ImagePages,
      D("rtdata", 27, 2), D("conventional", 29, 8), D("mmio", 42, 1)>>,
    <<D("conventional", 29, 6), D("mmio", 42, 1), D("rtdata", 27, 2), ImagePages,
      D("conventional", 10, 10), D("bsdata", 7, 3), D("bscode", 0, 5), D("reserved", 36, 4),
      D("conventional", 56, 12)>>,
    <<D("conventional", 1, 3), D("bsdata", 4, 1), D("bsdata", 7, 3), D("conventional", 10, 7),
      D("reserved", 17, 1), D("acpi", 18, 3), ImagePages, D("rtdata", 27, 2),
      D("conventional", 29, 5), D("conventional", 56, 4)>>,
    <<D("conventional", 1, 4), D("bsdata", 7, 3), D("conventional", 16, 5), ImagePages,
      D("rtdata", 27, 2)>>,
    <<D("bsdata", 0, 1), ImagePages, D("conventional", 29, 5)>>}
MCFrameBuffers == {[start |-> 48, pages |-> 2], [start |-> 0, pages |-> 0]}
MCClaims == {Mapping(0, s, n, t) : s \in {1, 4, 9, 11, 30, 34}, n \in {1, 4, 9},
                t \in {"data", "temporary", "free"}}

(* Configurations: options given twice, on the command line and in the     *)
(* file; a name that begins like another; a file whose loader section is   *)
(* not the first, and one without.                                         *)
O(n, v) == [name |-> n, value |-> v]
S(n, o) == [name |-> n, options |-> o]
MCCommandLines ==
    {<<>>, <<O("TIMEOUT", "0"), O("TIMEOUT", "2"), O("DEFAULT", "two")>>}
MCFiles ==
    {<<S("one", <<O("system", "a")>>),
       S("XTLDR", <<O("TIMEOUT", "2"), O("KEEPLASTBOOT", "no"), O("DEFAULT", "three")>>),
       S("two", <<O("parameter", "a"), O("parameters", "b"), O("system", "b")>>),
       S("three", <<>>)>>,
     <<S("one", <<O("system", "a"), O("system", "b")>>)>>,
     <<>>}
MCBeginnings == {<<"parameter", "parameters">>}
MCEditable == <<"system", "kernel", "parameters">>
MCSeconds == [v \in {"0", "2"} |-> IF v = "0" THEN 0 ELSE 2]
MCOldTexts == {<<>>, <<"a", " ", "a">>}

(* Files: with sections that end early, that are empty and that fill up,   *)
(* fixups of every kind, at the end of the image and in front of the       *)
(* relocations; one of an unknown kind; no relocations; a damaged file.    *)
Section(a, n, r, m) == [at |-> a, size |-> n, raw |-> r, rawSize |-> m]
Fix(o, t) == [offset |-> o, type |-> t]
Block(a, p, es) == [at |-> a, page |-> p, entries |-> es]
AllSections == <<Section(4, 4, 4, 5), Section(8, 4, 8, 2), Section(12, 4, 0, 0),
                 Section(20, 3, 10, 3), Section(24, 2, 14, 2)>>
ImageFile == [base |-> 16, size |-> 28, headers |-> 3, good |-> TRUE, stripped |-> FALSE,
              sections |-> AllSections, blocks |-> <<>>, relocsAt |-> 20, relocsEnd |-> 23]
MCPeFiles ==
    <<[ImageFile EXCEPT !.blocks =
         <<Block(20, 4, <<Fix(0, "dir64"), Fix(2, "highlow"), Fix(3, "dir64"), Fix(0, "absolute")>>),
           Block(21, 8, <<Fix(1, "dir64"), Fix(3, "dir64")>>),
           Block(22, 24, <<Fix(0, "dir64"), Fix(1, "dir64")>>)>>],
      [ImageFile EXCEPT !.blocks = <<Block(20, 4, <<Fix(0, "dir64"), Fix(1, "other"), Fix(2, "dir64")>>)>>],
      [ImageFile EXCEPT !.stripped = TRUE, !.blocks = <<Block(20, 4, <<Fix(0, "dir64")>>)>>],
      ImageFile,
      [ImageFile EXCEPT !.good = FALSE]>>

(* Machines: two disks of two partitions, a floppy and a CD; partitions    *)
(* out of order, apart or without a first one; memory disks and devices    *)
(* without path or medium.                                                 *)
Node(t, i) == [type |-> t, id |-> i]
Device(path, media, fs) == [path |-> path, media |-> media, fs |-> fs, usable |-> TRUE]
Sata(i) == <<Node("pci", 1), Node("sata", i)>>
Part(i, n) == Append(Sata(i), Node("partition", n))
MCDiskSets ==
    {[boot |-> 3, devices |->
        <<[Device(<<Node("net", 1)>>, "fixed", FALSE) EXCEPT !.usable = FALSE],
          Device(Sata(1), "fixed", FALSE), Device(Part(1, 1), "fixed", TRUE),
          Device(Part(1, 2), "fixed", TRUE),
          Device(<<Node("pci", 1), Node("floppy", 1)>>, "removable", TRUE),
          Device(Sata(2), "fixed", FALSE), Device(Part(2, 1), "fixed", FALSE),
          Device(Part(2, 3), "fixed", TRUE), Device(Sata(3), "removable", FALSE),
          Device(Append(Sata(3), Node("cdrom", 0)), "removable", TRUE)>>],
     [boot |-> 0, devices |->
        <<Device(Part(1, 2), "fixed", TRUE), Device(Sata(1), "fixed", FALSE),
          Device(Sata(2), "fixed", FALSE), Device(Part(2, 1), "fixed", TRUE),
          Device(Part(1, 1), "fixed", TRUE), Device(Part(4, 1), "fixed", TRUE)>>],
     [boot |-> 2, devices |->
        <<Device(<<Node("ramdisk", 1)>>, "fixed", TRUE),
          Device(<<Node("ramdisk", 1), Node("partition", 1)>>, "fixed", TRUE),
          Device(<<>>, "fixed", FALSE), Device(<<Node("pci", 1)>>, "none", FALSE),
          Device(<<Node("pci", 1), Node("ramdisk", 2)>>, "fixed", TRUE),
          Device(<<Node("pci", 1), Node("floppy", 1)>>, "removable", TRUE)>>]}
Arc(t, d, p) ==
    [format |-> "arc", type |-> t, drive |-> d, partition |-> p, closed |-> TRUE,
     directory |-> <<"os">>]
MCArcPaths ==
    {Arc("harddisk", d, p) : d \in {0, 1, 3}, p \in 0..3}
    \cup {Arc("cdrom", d, 0) : d \in {0, 1}}
    \cup {Arc(t, 0, 0) : t \in {"esp", "ramdisk", "floppy"}}
    \cup {[Arc("harddisk", 0, 1) EXCEPT !.closed = FALSE],
          [Arc("harddisk", 0, 1) EXCEPT !.format = "guid"]}

MCLoaderImage == [start |-> 23, pages |-> 1]
=============================================================================
