----------------------------- MODULE AcpiTables -----------------------------
(***************************************************************************)
(* The ACPI tables of the firmware, hl/acpi.cc: found through the root     *)
(* table, mapped in the hardware pool's range of addresses (mm/hlpool.cc), *)
(* checked and kept in a cache; and the processors counted in the MADT.    *)
(* Booting, one processor calls these; the physical memory of a table is   *)
(* numbered in units, PageUnits to a page.                                 *)
(***************************************************************************)
EXTENDS Integers, Sequences, FiniteSets

CONSTANTS Firmwares,    \* sequence of what firmware provides, see MCKernelServices
          Signatures,   \* tables asked for
          VaPages,      \* pages of the range that no other code has mapped
          PageUnits, MaxCached,     \* ACPI_MAX_CACHED_TABLES, 32
          InfoPage, CpusPerPage     \* memory for the identities of the processors

RootSignatures == {"RSDT", "XSDT"}
PointedSignatures == {"DSDT", "FACS"}

(* The FADT points to one table of each kind; a root table that is good    *)
(* has the signature of one.                                               *)
TableRecord == [sig : STRING, addr : Nat, len : Nat, good : BOOLEAN, old : BOOLEAN]
MadtEntry == [kind : STRING, id : Nat, enabled : BOOLEAN, size : {"full", "short", "none"}]
ASSUME FirmwareAssumption ==
    \A i \in DOMAIN Firmwares :
        LET f == Firmwares[i]
        IN  /\ f.rsdp \in Nat /\ f.root \in TableRecord
            /\ f.root.good => f.root.sig \in RootSignatures
            /\ f.tables \in Seq(TableRecord) /\ f.madt \in Seq(MadtEntry)
            /\ f.pointed \subseteq TableRecord
            /\ \A t, u \in f.pointed : t.sig = u.sig => t = u

ASSUME AcpiAssumption ==
    /\ VaPages \subseteq Nat \ {0}
    /\ PageUnits \in Nat \ {0} /\ CpusPerPage \in Nat \ {0} /\ InfoPage \in Nat
    /\ MaxCached \in Nat \ {0, 1} /\ Signatures \subseteq STRING

VARIABLES firmware,     \* index of the firmware
          vaMap,        \* the physical page that each page of the range maps
          rsdp,         \* RsdpStructure
          cached,       \* CacheEntries
          uncached,     \* tables mapped that the cache has no room for
          located,      \* the page where the table asked for last was found
          sought,       \* the signature the caller gave
          acpiState, toFind,        \* what runs, and the tables it has yet to find
          cpuInfo, identities       \* SystemInfo.CpuInfo and what is stored there

acpiVars == <<firmware, vaMap, rsdp, cached, uncached, located, sought, acpiState, toFind,
              cpuInfo, identities>>

Unmapped == -1          \* a page of the range that maps nothing
NoTable == 0            \* NULLPTR

AcpiInit ==
    /\ firmware \in DOMAIN Firmwares
    /\ vaMap = [p \in VaPages |-> Unmapped] /\ rsdp = NoTable
    /\ cached = <<>> /\ uncached = {} /\ located = NoTable /\ sought = ""
    /\ acpiState = "off" /\ toFind = <<>> /\ cpuInfo = NoTable /\ identities = <<>>

----------------------------------------------------------------------------
(* MapHardwareMemory takes the lowest run of pages, as in HardwarePool, and *)
(* UnmapHardwareMemory gives one back.                                      *)
FreeRuns(w, n) == {b \in VaPages : \A p \in b..(b + n - 1) : p \in VaPages /\ w[p] = Unmapped}
FirstRun(w, n) ==
    IF FreeRuns(w, n) = {} THEN NoTable
    ELSE CHOOSE b \in FreeRuns(w, n) : \A c \in FreeRuns(w, n) : b <= c

MapPages(w, b, page, n) ==
    [p \in VaPages |-> IF p \in b..(b + n - 1) THEN page + (p - b) ELSE w[p]]
UnmapPages(w, b, n) == [p \in VaPages |-> IF p \in b..(b + n - 1) THEN Unmapped ELSE w[p]]

PageOf(t) == t.addr \div PageUnits
PagesNeeded(t) == ((t.addr % PageUnits) + t.len + PageUnits - 1) \div PageUnits

(* A table mapped with two pages is mapped anew when it needs fewer or more. *)
RemapForgotten(w, b) == w
Remapped(w, b) == UnmapPages(w, b, 2)

(* CacheAcpiTable: the mapping of a table there is no room for stays.      *)
CacheTable(t, b) ==
    IF Len(cached) < MaxCached
    THEN cached' = Append(cached, [table |-> t, at |-> b]) /\ UNCHANGED uncached
    ELSE uncached' = uncached \cup {[table |-> t, at |-> b]} /\ UNCHANGED cached

(* The end of QueryAcpiTables and of the search for the root table: the    *)
(* table mapped with two pages is mapped whole and cached.                 *)
KeepTable(t) ==
    LET b == FirstRun(vaMap, 2)
        two == MapPages(vaMap, b, PageOf(t), 2)
        rest == Remapped(two, b)
        c == FirstRun(rest, PagesNeeded(t))
    IN  CASE PagesNeeded(t) = 2 -> vaMap' = two /\ located' = b /\ CacheTable(t, b)
          [] PagesNeeded(t) # 2 /\ c = NoTable ->
                vaMap' = rest /\ located' = NoTable /\ UNCHANGED <<cached, uncached>>
          [] OTHER -> /\ vaMap' = MapPages(rest, c, PageOf(t), PagesNeeded(t))
                      /\ located' = c /\ CacheTable(t, c)

NothingKept == located' = NoTable /\ UNCHANGED <<vaMap, cached, uncached>>

(* The first of the root table with the signature, or the one the FADT     *)
(* points to; a root table is only found in the cache.                     *)
Listed(sig) ==
    LET ts == Firmwares[firmware].tables
    IN  {ts[i] : i \in {j \in DOMAIN ts : ts[j].sig = sig /\ \A k \in 1..(j - 1) : ts[k].sig # sig}}
Pointed(sig) == {t \in Firmwares[firmware].pointed : t.sig = sig}
Provided(sig) ==
    CASE sig \in RootSignatures -> {}
      [] sig \in PointedSignatures -> Pointed(sig)
      [] OTHER -> Listed(sig)

(* The checksum is computed before the table is mapped anew: of a longer   *)
(* one it takes in what is mapped behind the two pages, sum, or faults.    *)
Checked(t) == t.sig # "FACS" /\ (t.sig = "FADT" => ~t.old)
PagesBehind(t) == LET b == FirstRun(vaMap, 2) IN (b + 2)..(b + PagesNeeded(t) - 1)
Faults(t) == /\ Checked(t) /\ FirstRun(vaMap, 2) # NoTable
             /\ \E p \in PagesBehind(t) \cap VaPages : vaMap[p] = Unmapped
SumGood(t, sum) == IF PagesBehind(t) = {} THEN t.good ELSE sum

(* GetAcpiTable: the cache first (QueryAcpiCache), then QueryAcpiTables.   *)
Cached(sig) == {i \in DOMAIN cached : cached[i].table.sig = sig}
Hit(sig) ==
    /\ located' = cached[CHOOSE i \in Cached(sig) : \A j \in Cached(sig) : i <= j].at
    /\ UNCHANGED <<vaMap, cached, uncached>>

QueryAcpiTables(sig, sum) ==
    \/ /\ Provided(sig) = {} \/ FirstRun(vaMap, 2) = NoTable
       /\ NothingKept
    \/ /\ FirstRun(vaMap, 2) # NoTable
       /\ \E t \in Provided(sig) :
             IF Checked(t) /\ ~SumGood(t, sum) THEN NothingKept ELSE KeepTable(t)

GetAcpiTable(sig, sum) == IF Cached(sig) # {} THEN Hit(sig) ELSE QueryAcpiTables(sig, sum)

----------------------------------------------------------------------------
(* InitializeAcpiSystemDescriptionTable: the RSDP, then the root table.  A *)
(* root table that cannot be used leaves the RSDP mapped.                  *)
MapRsdp ==
    LET f == Firmwares[firmware]
        b == FirstRun(vaMap, 1)
    IN  /\ acpiState = "off"
        /\ IF f.rsdp = 0 \/ b = NoTable \/ ~f.rsdpGood
           THEN acpiState' = "failed" /\ UNCHANGED <<vaMap, rsdp>>
           ELSE /\ acpiState' = "rsdp" /\ rsdp' = b
                /\ vaMap' = MapPages(vaMap, b, f.rsdp \div PageUnits, 1)
        /\ UNCHANGED <<firmware, cached, uncached, located, sought, toFind, cpuInfo, identities>>

(* InitializeAcpi gets the FADT, and InitializeAcpiTimer gets it again.    *)
InitializeAcpi ==
    LET root == Firmwares[firmware].root
    IN  /\ acpiState = "rsdp"
        /\ IF FirstRun(vaMap, 2) = NoTable \/ ~root.good THEN NothingKept ELSE KeepTable(root)
        /\ IF located' = NoTable THEN acpiState' = "failed" /\ UNCHANGED toFind
           ELSE acpiState' = "starting" /\ toFind' = <<"FADT", "FADT">>
        /\ UNCHANGED <<firmware, rsdp, sought, cpuInfo, identities>>

(* DSDT and FACS are found through the FADT.                               *)
AskTable(sig) ==
    /\ acpiState = "ready"
    /\ acpiState' = "asking" /\ sought' = sig
    /\ toFind' = IF sig \in PointedSignatures /\ Cached(sig) = {} THEN <<"FADT", sig>> ELSE <<sig>>
    /\ UNCHANGED <<firmware, vaMap, rsdp, cached, uncached, located, cpuInfo, identities>>

(* The processors of the MADT: counted in InitializeAcpiSystemStructure,   *)
(* stored in InitializeAcpiSystemInformation, each behind those before it. *)
(* Both stop at an entry of no length and skip one that is too short.      *)
Enabled(kinds) ==
    LET es == Firmwares[firmware].madt
    IN  {i \in DOMAIN es : /\ \A j \in 1..i : es[j].size # "none"
                           /\ es[i].size = "full" /\ es[i].enabled /\ es[i].kind \in kinds}
CountLocalApics == Cardinality(Enabled({"apic"}))
CountProcessors == Cardinality(Enabled({"apic", "x2apic"}))
InfoPages == (CountProcessors + CpusPerPage - 1) \div CpusPerPage
StoreProcessors ==
    LET cpus == Enabled({"apic", "x2apic"})
    IN  [i \in cpus |-> [number |-> Cardinality({j \in cpus : j < i}),
                         id |-> Firmwares[firmware].madt[i].id]]

(* InitializeAcpiSystemInformation: the MADT is got to count the           *)
(* processors, and again to store them.                                    *)
InitializeAcpiSystemInformation ==
    /\ acpiState = "ready" /\ cpuInfo = NoTable
    /\ acpiState' = "counting" /\ sought' = "MADT" /\ toFind' = <<"MADT">>
    /\ UNCHANGED <<firmware, vaMap, rsdp, cached, uncached, located, cpuInfo, identities>>

InitializeAcpiSystemStructure(memory) ==
    LET b == FirstRun(vaMap, InfoPages)
    IN  /\ acpiState = "counting" /\ toFind = <<>>
        /\ IF ~memory \/ b = NoTable
           THEN acpiState' = "failed" /\ UNCHANGED <<vaMap, cpuInfo, toFind>>
           ELSE /\ acpiState' = "storing" /\ cpuInfo' = b /\ toFind' = <<"MADT">>
                /\ vaMap' = MapPages(vaMap, b, InfoPage, InfoPages)
        /\ UNCHANGED <<firmware, rsdp, cached, uncached, located, sought, identities>>

(* The next table of an operation, which ends with the first it lacks.     *)
Lacking ==
    /\ acpiState' = IF acpiState = "asking" THEN "ready" ELSE "failed"
    /\ toFind' = <<>> /\ UNCHANGED <<sought, identities>>
Proceed ==
    /\ acpiState' = IF Len(toFind) = 1 /\ acpiState # "counting" THEN "ready" ELSE acpiState
    /\ toFind' = Tail(toFind)
    /\ sought' = IF acpiState = "starting" THEN "FADT" ELSE sought
    /\ identities' = IF acpiState = "storing" THEN StoreProcessors ELSE identities

Query(sum) ==
    /\ toFind # <<>>
    /\ Cached(Head(toFind)) # {} \/ \A t \in Provided(Head(toFind)) : ~Faults(t)
    /\ GetAcpiTable(Head(toFind), sum)
    /\ IF located' = NoTable THEN Lacking ELSE Proceed
    /\ UNCHANGED <<firmware, rsdp, cpuInfo>>

QueryFaults ==
    /\ toFind # <<>> /\ Cached(Head(toFind)) = {}
    /\ \E t \in Provided(Head(toFind)) :
          /\ Faults(t)
          /\ vaMap' = MapPages(vaMap, FirstRun(vaMap, 2), PageOf(t), 2)
    /\ acpiState' = "faulted" /\ toFind' = <<>>
    /\ UNCHANGED <<firmware, rsdp, cached, uncached, located, sought, cpuInfo, identities>>

AcpiNext ==
    \/ MapRsdp \/ InitializeAcpi \/ InitializeAcpiSystemInformation \/ QueryFaults
    \/ \E sig \in Signatures : AskTable(sig)
    \/ \E memory \in BOOLEAN : InitializeAcpiSystemStructure(memory)
    \/ \E sum \in BOOLEAN : Query(sum)

AcpiSpec == AcpiInit /\ [][AcpiNext]_acpiVars

----------------------------------------------------------------------------
Held == {cached[i] : i \in DOMAIN cached} \cup uncached
PagesAt(m) == m.at..(m.at + PagesNeeded(m.table) - 1)
InfoAt == IF cpuInfo = NoTable THEN {} ELSE cpuInfo..(cpuInfo + InfoPages - 1)
RsdpAt == IF rsdp = NoTable THEN {} ELSE {rsdp}
MappedPages == {p \in VaPages : vaMap[p] # Unmapped}
Crowded(t) == \E n \in {2, PagesNeeded(t)} : FreeRuns(vaMap, n) = {}

(* Every table in use is mapped from its first page to its last, no two of *)
(* them share a page, nor one of them with the RSDP or the identities of   *)
(* the processors, and nothing else stays mapped, whatever was asked,      *)
(* failed or did not fit: only a full cache loses a mapping.               *)
TablesMapped ==
    /\ \A m \in Held : \A p \in PagesAt(m) : vaMap[p] = PageOf(m.table) + (p - m.at)
    /\ \A m, o \in Held : m # o => PagesAt(m) \cap PagesAt(o) = {}
    /\ \A m \in Held : PagesAt(m) \cap (InfoAt \cup RsdpAt) = {}
    /\ InfoAt \cap RsdpAt = {}
    /\ acpiState # "faulted" =>
          MappedPages = (UNION {PagesAt(m) : m \in Held}) \cup InfoAt \cup RsdpAt
    /\ uncached # {} => Len(cached) = MaxCached
    /\ \A m \in Held : \A o \in DOMAIN cached : m.table.sig = cached[o].table.sig => m = cached[o]

(* What is asked for is found if the firmware has it undamaged and there   *)
(* is room to map it, and what is found is the first table of that name.   *)
(* Only a table longer than the two pages mapped at first can be refused   *)
(* or accepted wrongly, or fault.                                          *)
Known(sig) == Provided(sig) \cup {t \in {Firmwares[firmware].root} : t.sig = sig}
LongTable(t) == PagesNeeded(t) > 2
FaultReasoned ==
    acpiState = "faulted" =>
        \E sig \in Signatures \cup {"FADT", "MADT"} : \E t \in Provided(sig) : Checked(t) /\ LongTable(t)
AnswerReasoned ==
    acpiState = "ready" =>
        IF located = NoTable
        THEN \A t \in Known(sought) : (Checked(t) /\ (~t.good \/ LongTable(t))) \/ Crowded(t)
        ELSE /\ \E m \in Held : m.at = located /\ m.table \in Known(sought)
             /\ \A t \in Known(sought) : Checked(t) => t.good \/ LongTable(t)
TablesFound == FaultReasoned /\ AnswerReasoned

(* Each processor the MADT enables is stored once, at a place of its own   *)
(* in the memory that was allocated for as many.                           *)
ProcessorsStored ==
    /\ DOMAIN identities # {} => cpuInfo # NoTable
    /\ \A i \in DOMAIN identities : identities[i].number \in 0..(InfoPages * CpusPerPage - 1)
    /\ \A i, j \in DOMAIN identities : identities[i].number = identities[j].number => i = j
    /\ identities # <<>> =>
         DOMAIN identities = {i \in DOMAIN Firmwares[firmware].madt :
                                i \in Enabled({"apic"}) \/ i \in Enabled({"x2apic"})}

AcpiSound == TablesMapped /\ TablesFound /\ ProcessorsStored
=============================================================================
