---------------------------- MODULE BlockDevices ----------------------------
(***************************************************************************)
(* Disks as the boot loader finds and names them, volume.cc, and how the   *)
(* boot protocols read from them: Xtos::BootSystem, the chain loader.      *)
(*                                                                         *)
(* A device path is a sequence of nodes [type, id]; the id of a partition  *)
(* is its number.  An ARC path is taken apart: what it names, the drive    *)
(* and the partition, and the directory behind it.                         *)
(***************************************************************************)
EXTENDS Integers, Sequences, FiniteSets
LOCAL INSTANCE SequencesExt

CONSTANTS DiskSets,     \* sets of devices by handle, and the one booted from
          ArcPaths,     \* [format, type, drive, partition, closed, directory]
          DriveNumbers, \* values of a drive number, 2^32 in the code
          MaxTries      \* bound: attempts to boot the chosen entry

ASSUME DriveAssumption == DriveNumbers \in Nat \ {0} /\ MaxTries \in Nat

VARIABLE disk           \* EfiBlockDevices, the chosen entry, and what was booted

NoDevice == <<>>        \* a null device path
NotBooted == [device |-> NoDevice, directory |-> <<>>, image |-> "none"]
DiskInit ==
    disk = [state |-> "off", machine |-> <<>>, known |-> <<>>, entry |-> <<>>,
            directory |-> <<>>, tries |-> 0, boot |-> NotBooted]

----------------------------------------------------------------------------
(* DiscoverEfiBlockDevices: handles whose block I/O opens, that have a     *)
(* device path and are not the stub of a network boot.                     *)
Discovered(m) == SelectSeq(m.devices, LAMBDA d : d.usable)

(* FindParentBlockDevice: another device whose whole path leads here.      *)
FindParentBlockDevice(ds, i) == \E j \in DOMAIN ds \ {i} : IsPrefix(ds[j].path, ds[i].path)

DriveKind(d) ==
    LET node == Last(d.path)
    IN  CASE node.type = "floppy" -> "floppy"
          [] node.type = "cdrom" -> "cdrom"
          [] node.type = "sata" /\ d.media = "removable" -> "cdrom"
          [] node.type = "partition" -> "harddisk"
          [] node.type = "ramdisk" -> "ramdisk"
          [] OTHER -> "unknown"
PartitionNumber(d) == IF DriveKind(d) = "harddisk" THEN Last(d.path).id ELSE 0

(* A device without path, parent, media or known kind is left out.         *)
Classified(m) ==
    LET ds == Discovered(m)
        is == SelectSeq([i \in DOMAIN ds |-> i],
                  LAMBDA i : /\ ds[i].path # <<>> /\ FindParentBlockDevice(ds, i)
                             /\ ds[i].media # "none" /\ DriveKind(ds[i]) # "unknown")
    IN  [k \in DOMAIN is |-> ds[is[k]]]

(* FDCount, CDCount, RDCount: drives of a kind are counted.  HDCount: the  *)
(* first partition begins a disk, the others belong to the last one.       *)
\* mutant: every partition begins a disk
DrivePerEntry(cs, k) == Cardinality({j \in 1..(k - 1) : DriveKind(cs[j]) = DriveKind(cs[k])})
DriveNumber(cs, k) ==
    IF DriveKind(cs[k]) # "harddisk" THEN Cardinality({j \in 1..(k - 1) : DriveKind(cs[j]) = DriveKind(cs[k])})
    ELSE LET disks == Cardinality({j \in 1..(k - 1) : PartitionNumber(cs[j]) = 1})
         IN  IF PartitionNumber(cs[k]) = 1 THEN disks ELSE (disks - 1) % DriveNumbers

(* LocateDevicePath, of the firmware: the device that leads furthest.      *)
Leading(m, path, fs) ==
    {i \in DOMAIN m.devices : /\ m.devices[i].path # <<>> /\ IsPrefix(m.devices[i].path, path)
                              /\ fs => m.devices[i].fs}
LocateDevicePath(m, path, fs) ==
    CHOOSE i \in Leading(m, path, fs) : \A j \in Leading(m, path, fs) :
        \/ Len(m.devices[i].path) > Len(m.devices[j].path)
        \/ Len(m.devices[i].path) = Len(m.devices[j].path) /\ i <= j
(* A copy of the path is compared: without memory for it, no mark.         *)
DriveType(m, d, copied) ==
    {DriveKind(d)} \cup IF /\ DriveKind(d) = "harddisk" /\ m.boot # 0 /\ copied
                          /\ LocateDevicePath(m, d.path, FALSE) = m.boot
                       THEN {"esp"} ELSE {}

(* EnumerateBlockDevices.  Memory may run out while devices are discovered *)
(* or at an entry: the loader then ends; at the copy of a path that is to  *)
(* be compared, which leaves the entry unmarked; or at the copy for the    *)
(* entry itself, which leaves it without.                                  *)
DriveEntry(m, cs, k, unmarked, unnamed) ==
    [path |-> IF k = unnamed THEN NoDevice ELSE cs[k].path,
     type |-> DriveType(m, cs[k], k # unmarked),
     drive |-> DriveNumber(cs, k), partition |-> PartitionNumber(cs[k])]
EnumerateBlockDevices(m, entries, unmarked, unnamed) ==
    LET cs == Classified(m)
    IN  /\ disk.state = "off"
        /\ entries <= Len(cs)
        /\ disk' = [disk EXCEPT !.machine = m,
                        !.state = IF entries = Len(cs) THEN "up" ELSE "failed",
                        !.known = [k \in 1..entries |-> DriveEntry(m, cs, k, unmarked, unnamed)]]

(* DissectArcPath and GetDevicePath: the first device of the list that     *)
(* fits.  Paths by GUID are not supported, others are unknown.             *)
\* mutant: any partition of the drive will do
FitsDrive(e, a) == a.type \in e.type /\ e.drive = a.drive
Fits(e, a) ==
    \/ a.type = "esp" /\ "esp" \in e.type
    \/ a.type # "esp" /\ a.type \in e.type /\ e.drive = a.drive /\ e.partition = a.partition
GetDevicePath(a) ==
    LET fitting == {k \in DOMAIN disk.known : Fits(disk.known[k], a)}
    IN  IF a.format # "arc" \/ fitting = {} THEN NoDevice
        ELSE disk.known[CHOOSE k \in fitting : \A j \in fitting : k <= j].path
(* A number that is not closed takes the rest of the path with it.         *)
Directory(a) == IF a.closed THEN a.directory ELSE <<"behind">>

(* The entry of the menu that is booted, perhaps more than once.           *)
ChooseArcPath(a) ==
    /\ disk.state = "up" /\ disk.entry = <<>>
    /\ disk' = [disk EXCEPT !.entry = <<a>>, !.directory = Directory(a)]

----------------------------------------------------------------------------
(* ReadFile.  The answer to the first question for the file's size is not  *)
(* looked at: when it was not given, the size is anything.                 *)
Reads(failing) ==
    CASE failing = "none" -> {"file"}
      [] failing = "info" -> {"file", "part", "none"}
      [] OTHER -> {"none"}
ReadSteps == {"open", "pool", "info", "pages", "read", "none"}

(* Volumes are opened by device path, or the loader's own without one.     *)
OpenVolume(path) ==
    IF path = NoDevice THEN IF disk.machine.boot = 0 THEN NoDevice
                            ELSE disk.machine.devices[disk.machine.boot].path
    ELSE IF Leading(disk.machine, path, TRUE) = {} THEN NoDevice
    ELSE disk.machine.devices[LocateDevicePath(disk.machine, path, TRUE)].path

Attempt(boot, directory) ==
    disk' = [disk EXCEPT !.boot = boot, !.directory = directory, !.tries = @ + 1]
CanTry == disk.entry # <<>> /\ disk.tries < MaxTries /\ GetDevicePath(disk.entry[1]) # NoDevice

(* Xtos::BootSystem adds its directory to the path in the entry itself,    *)
(* where the next attempt finds it.                                        *)
BootDirectory == Append(disk.directory, "Boot")
BootXtos ==
    LET volume == OpenVolume(GetDevicePath(disk.entry[1]))
    IN  /\ CanTry
        /\ IF volume = NoDevice THEN Attempt(NotBooted, disk.directory)
           ELSE \E image \in {"file", "none"} :
                  Attempt([device |-> volume, directory |-> BootDirectory, image |-> image], BootDirectory)

(* The chain loader goes on whether or not the file was read: what it then *)
(* takes for an image firmware may refuse, or not.                         *)
ChainLoad(failing) ==
    LET volume == OpenVolume(GetDevicePath(disk.entry[1]))
    IN  /\ CanTry
        /\ IF volume = NoDevice THEN Attempt(NotBooted, disk.directory)
           ELSE \E image \in (Reads(failing) \ {"none"}) \cup
                             IF "none" \in Reads(failing) THEN {"none", "junk"} ELSE {} :
                  Attempt([device |-> volume, directory |-> disk.directory, image |-> image],
                          disk.directory)

DiskNext ==
    \/ \E m \in DiskSets : \E entries, unmarked, unnamed \in 0..Len(Classified(m)) :
           EnumerateBlockDevices(m, entries, unmarked, unnamed)
    \/ \E a \in ArcPaths : ChooseArcPath(a)
    \/ BootXtos
    \/ \E failing \in ReadSteps : ChainLoad(failing)

DiskSpec == DiskInit /\ [][DiskNext]_disk

----------------------------------------------------------------------------
(* What a user means by an ARC path: drives in the order of handles, each  *)
(* disk with all its partitions.                                           *)
Partitions(cs) == {k \in DOMAIN cs : DriveKind(cs[k]) = "harddisk"}
DiskOf(cs, k) == Front(cs[k].path)
DiskBegins(cs) ==
    {k \in Partitions(cs) : \A j \in Partitions(cs) : j < k => DiskOf(cs, j) # DiskOf(cs, k)}
DisksBefore(cs, k) ==
    Cardinality({j \in DiskBegins(cs) : \A i \in Partitions(cs) :
                    DiskOf(cs, i) = DiskOf(cs, k) => j < i})
DevicesMeant(m, a) ==
    LET cs == Classified(m)
    IN  CASE a.type = "esp" -> {k \in Partitions(cs) : m.boot # 0 /\ cs[k] = m.devices[m.boot]}
          [] a.type = "harddisk" -> {k \in Partitions(cs) : PartitionNumber(cs[k]) = a.partition
                                                        /\ DisksBefore(cs, k) = a.drive}
          [] OTHER -> {k \in DOMAIN cs : /\ DriveKind(cs[k]) = a.type /\ a.partition = 0
                         /\ Cardinality({j \in 1..(k - 1) : DriveKind(cs[j]) = a.type}) = a.drive}
(* The order the numbers of drives rely on.                                *)
Orderly(m) ==
    LET cs == Classified(m)
    IN  \A k \in Partitions(cs) :
            IF k \in DiskBegins(cs) THEN PartitionNumber(cs[k]) = 1
            ELSE \E j \in Partitions(cs) : j < k /\ DiskOf(cs, j) = DiskOf(cs, k)
                    /\ \A i \in Partitions(cs) : ~(j < i /\ i < k)
PathsCopied == \A k \in DOMAIN disk.known : disk.known[k].path # NoDevice
(* The partition booted from lost its mark: no memory for a copy.          *)
EspUnmarked == \A k \in DOMAIN disk.known : "esp" \notin disk.known[k].type

(* If firmware lists the partitions of each disk together and the first    *)
(* one first, an ARC path leads to the device it means, or nowhere when    *)
(* there is none; what is booted comes from that device when it has a file *)
(* system, and at the first attempt from the directory that was asked for. *)
(* Memory excuses two entries: one without path, one without the ESP mark. *)
DisksSound ==
    LET cs == Classified(disk.machine)
        chosen == disk.entry[1]
        started == disk.boot.image # "none"
    IN  /\ disk.state = "up" /\ Orderly(disk.machine) /\ PathsCopied =>
              \A a \in ArcPaths : a.format = "arc" =>
                 LET meant == DevicesMeant(disk.machine, a)
                 IN  IF meant = {} \/ (a.type = "esp" /\ EspUnmarked) THEN GetDevicePath(a) = NoDevice
                     ELSE GetDevicePath(a) \in {cs[k].path : k \in meant}
        /\ started => \A i \in DOMAIN disk.machine.devices :
              LET d == disk.machine.devices[i]
              IN  d.path = GetDevicePath(chosen) /\ d.fs => disk.boot.device = d.path
        /\ started /\ disk.tries = 1 /\ chosen.closed =>
              disk.boot.directory \in {chosen.directory, Append(chosen.directory, "Boot")}
=============================================================================
