------------------------------- MODULE PeImage -------------------------------
(***************************************************************************)
(* Images of kernels and modules, modules/pecoff/pecoff.cc: a file is read,*)
(* checked, laid out in memory by its sections and relocated to the address*)
(* it will have, perhaps more than once.                                   *)
(*                                                                         *)
(* A cell stands for a word; cell p of the file holds the number p.  A     *)
(* fixup changes a cell of a page of the image.  The headers are used      *)
(* where they were read to, in the pages of the file.                      *)
(***************************************************************************)
EXTENDS Integers, Sequences

CONSTANTS PeFiles,      \* sequence of files, see MCBootLoader
          PageCells,    \* cells of a page
          Scale,        \* sizeof(UINT), what Address + Offset multiplies with
          Places,       \* where firmware may put an image
          Addresses,    \* where an image may be relocated to
          LongRange, ShortRange     \* values of a word of 64 and of 32 bits

ASSUME PeAssumption ==
    /\ {PageCells, Scale, LongRange, ShortRange} \subseteq Nat \ {0}
    /\ Places \cup Addresses \subseteq 0..(LongRange - 1)

VARIABLE pe     \* the image: state, file, address, cells, and memory held

OldContents == -1      \* what was in the pages of an image before

PeInit == pe = [state |-> "none", file |-> 0, address |-> 0, cells |-> <<>>, held |-> {}]

----------------------------------------------------------------------------
(* The sections: as much of each as the file has and the image wants, and  *)
(* zeroes up to its size.                                                  *)
Smaller(a, b) == IF a < b THEN a ELSE b
\* mutant: the rest of a section keeps what was in memory
TailKept == OldContents
TailZeroed == 0
InSection(s, c) == c \in s.at..(s.at + s.size - 1)

CopiedCell(f, c) ==
    LET ss == {i \in DOMAIN f.sections : InSection(f.sections[i], c)}
        s == f.sections[CHOOSE i \in ss : TRUE]
    IN  CASE ss = {} -> IF c < f.headers THEN c ELSE OldContents
          [] c - s.at >= Smaller(s.size, s.rawSize) -> TailZeroed
          [] s.raw = 0 -> OldContents
          [] OTHER -> s.raw + (c - s.at)

(* RelocateLoadedImage.  A block is left at the first fixup that seems to  *)
(* lie behind the image, and one that seems to lie in the relocations not  *)
(* yet done is passed over; both compare Address + Offset, where Address   *)
(* points to integers of Scale bytes.                                      *)
Seeming(b, e) == b.page + Scale * e.offset
Reached(f, b) ==
    SubSeq(b.entries, 1, CHOOSE n \in 0..Len(b.entries) :
               /\ \A i \in 1..n : Seeming(b, b.entries[i]) < f.size
               /\ n < Len(b.entries) => Seeming(b, b.entries[n + 1]) >= f.size)
PassedOver(f, b, e) == Seeming(b, e) \in b.at..(f.relocsEnd - 1)

Fixups(f) ==
    {<<i, j>> \in (DOMAIN f.blocks) \X (1..PageCells) : j \in DOMAIN Reached(f, f.blocks[i])
         /\ ~PassedOver(f, f.blocks[i], f.blocks[i].entries[j])}
TypeOf(f, x) == f.blocks[x[1]].entries[x[2]].type
CellOf(f, x) == f.blocks[x[1]].page + f.blocks[x[1]].entries[x[2]].offset
Precedes(x, y) == x[1] < y[1] \/ (x[1] = y[1] /\ x[2] < y[2])
Unsupported(f) == {x \in Fixups(f) : TypeOf(f, x) = "other"}
Applied(f) == {x \in Fixups(f) : /\ TypeOf(f, x) # "absolute"     \* pads a block
                                 /\ \A y \in Unsupported(f) : Precedes(x, y)}

MovedBy(value, type, shift) ==
    CASE type = "dir64" -> (value + shift) % LongRange
      [] type = "highlow" -> (value + shift) % ShortRange

Relocatable(f) == ~f.stripped /\ f.blocks # <<>>
Supported(f) == ~Relocatable(f) \/ Unsupported(f) = {}
RelocateLoadedImage(f, cells, address) ==
    IF ~Relocatable(f) THEN cells
    ELSE [c \in DOMAIN cells |->
            IF \E x \in Applied(f) : CellOf(f, x) = c
            THEN LET x == CHOOSE y \in Applied(f) : CellOf(f, y) = c
                 IN  MovedBy(cells[c], TypeOf(f, x), address - f.base)
            ELSE cells[c]]

(* LoadImage.  Each step may fail; small says that the first buffer for    *)
(* what firmware knows of the file was too small, and FreePool is given    *)
(* the address of the pointer to it.  At the end FreePages takes the       *)
(* address of the file for the number of its pages: firmware frees nothing.*)
Lost(small) == IF small THEN {"small info"} ELSE {}
FileFreed == {}
FileLeft == {"file"}
Steps == {"info", "query", "context", "pages", "read", "image", "none"}
LoadHolds(f, failing, small) ==
    Lost(small) \cup
    CASE failing \in {"query", "context"} -> {"info"}
      [] failing = "image" -> {"file"}
      [] failing = "none" /\ f.good -> {"image", "context"} \cup FileLeft
      [] OTHER -> {}

LoadImage(i, place, wanted, failing, small) ==
    LET f == PeFiles[i]
        address == IF wanted = 0 THEN place ELSE wanted
        laid == [c \in 0..(f.size - 1) |-> CopiedCell(f, c)]
    IN  /\ pe.state = "none"
        /\ ~f.good => failing # "image"
        /\ pe' = [state |-> IF failing = "none" /\ f.good /\ Supported(f) THEN "loaded" ELSE "failed",
                  file |-> i, address |-> address,
                  cells |-> IF failing = "none" /\ f.good
                            THEN RelocateLoadedImage(f, laid, address) ELSE <<>>,
                  held |-> LoadHolds(f, failing, small)]

(* RelocateImage takes a detour over an address that shifts the image from *)
(* where it is, not from where its file says.                              *)
\* mutant: as if the image were where its file says
DirectAddress(f, a) == a
DetourAddress(f, a) == (a - pe.address + f.base) % LongRange

RelocateImage(a) ==
    LET f == PeFiles[pe.file]
    IN  /\ pe.state = "loaded"
        /\ pe' = [pe EXCEPT !.cells = RelocateLoadedImage(f, @, DetourAddress(f, a)),
                            !.address = IF Supported(f) THEN a ELSE DetourAddress(f, a),
                            !.state = IF Supported(f) THEN @ ELSE "torn"]

UnloadImage ==
    /\ pe.state = "loaded"
    /\ pe' = [pe EXCEPT !.state = "unloaded", !.cells = <<>>, !.held = @ \ {"image", "context"}]

PeNext ==
    \/ \E i \in DOMAIN PeFiles, p \in Places, w \in Addresses \cup {0}, s \in Steps, small \in BOOLEAN :
           LoadImage(i, p, w, s, small)
    \/ \E a \in Addresses : RelocateImage(a)
    \/ UnloadImage

PeSpec == PeInit /\ [][PeNext]_pe

----------------------------------------------------------------------------
(* What the file says of a cell at an address.                             *)
MeantFixups(f) == UNION {{<<i, j>> : j \in DOMAIN f.blocks[i].entries} : i \in DOMAIN f.blocks}
FixupsAt(f, c) == {x \in MeantFixups(f) : CellOf(f, x) = c /\ TypeOf(f, x) # "absolute"}
Laid(f, c) ==
    IF c < f.headers THEN c
    ELSE LET s == f.sections[CHOOSE i \in DOMAIN f.sections : InSection(f.sections[i], c)]
         IN  IF c - s.at < s.rawSize THEN s.raw + (c - s.at) ELSE 0
LaidCells(f) == (0..(f.headers - 1)) \cup {c \in 0..(f.size - 1) :
                    \E i \in DOMAIN f.sections : InSection(f.sections[i], c)}
(* The fixups of pages from which Scale times an offset may reach the      *)
(* relocations or the end, where some are left out.                        *)
Close(f, x) ==
    f.blocks[x[1]].page + Scale * (PageCells - 1) >= Smaller(f.relocsAt, f.size)

(* However often an image was moved, it is what its file says for the      *)
(* address it has: sections where they belong, the rest of them zero, and  *)
(* every pointer shifted once and by the whole way, except that those of   *)
(* the pages just before the relocations or the end may be left out.  An   *)
(* image that was loaded can be moved, and its headers, which are used for *)
(* that, are in memory that is still its own.                              *)
PeSound ==
    LET f == PeFiles[pe.file]
    IN  /\ pe.state # "torn"
        /\ pe.state = "loaded" =>
              /\ {"file", "image", "context"} \subseteq pe.held
              /\ \A c \in LaidCells(f) :
                    LET shift == IF Relocatable(f) THEN pe.address - f.base ELSE 0
                        should == {MovedBy(Laid(f, c), TypeOf(f, x), shift) : x \in FixupsAt(f, c)}
                    IN  \/ pe.cells[c] \in (IF should = {} THEN {Laid(f, c)} ELSE should)
                        \/ pe.cells[c] = Laid(f, c) /\ \E x \in FixupsAt(f, c) : Close(f, x)
        /\ pe.state \in {"failed", "unloaded"} /\ "image" \in pe.held => ~Supported(f)
=============================================================================
