-------------------------- MODULE KernelSyncProofs --------------------------
(***************************************************************************)
(* Proofs about what the processors of the kernel share, for every number  *)
(* of them: interrupts, run levels and system resources, then rundown      *)
(* protection, the interlocked list, the start of the processors and the   *)
(* performance counter; last about the hardware they use, its memory, the  *)
(* controllers of its interrupts and the ACPI tables of its firmware.      *)
(*                                                                         *)
(* What is said of interrupts rests on one fact: since a clock handler     *)
(* runs at CLOCK_LEVEL and the handler of APIC errors is never             *)
(* interrupted, there are never more than two handlers on a processor, and *)
(* only that of an error over one of the clock.  The inductive invariant   *)
(* names the five situations this leaves, with the level, the flag and the *)
(* vectors in service that belong to each.                                 *)
(***************************************************************************)
EXTENDS KernelSync, Rundown, InterlockedList, ProcessorStart, PerformanceCounter, HardwarePool,
        InterruptRouting, AcpiTables, SequenceEdits, FiniteSetTheorems, SequenceTheorems, TLAPS

Frame == [vector : Vectors, old : Nat, at : {"enter", "begun", "work", "end"}, acked : BOOLEAN]
MainTypes == [at : {"rest", "raised", "get", "search", "unlock", "put", "clear"}, old : Nat,
              saved : BOOLEAN, off : BOOLEAN, leaked : BOOLEAN,
              want : Resources \cup {NoResource}, holds : Resources \cup {NoResource}]

SyncTypes ==
  /\ level \in [Cpus -> Nat]
  /\ flag \in [Cpus -> BOOLEAN]
  /\ irr \in [Cpus -> SUBSET Vectors]
  /\ isr \in [Cpus -> SUBSET Vectors]
  /\ frames \in [Cpus -> Seq(Frame)]
  /\ main \in [Cpus -> MainTypes]
  /\ locked \in [Resources -> BOOLEAN]

(* The five situations, of a level l, a flag x, the vectors s in service   *)
(* and the handlers f of a processor.                                      *)
Unhandled(s, f) == f = <<>> /\ s = {}

ClockVector(k) == k.vector \in {"clock", "clockIpi"}
Entering(l, x, s, f, k) ==
  /\ f = <<k>> /\ ClockVector(k) /\ k.at = "enter" /\ ~k.acked
  /\ ~x /\ k.old = l /\ l < CLOCK /\ s = {k.vector}

InService(k) == IF k.acked THEN {} ELSE {k.vector}
Begun(k) == ClockVector(k) /\ k.at # "enter" /\ k.old < CLOCK /\ (k.at = "begun" => ~k.acked)
Serving(l, x, s, f, k) == f = <<k>> /\ Begun(k) /\ x /\ l = CLOCK /\ s = InService(k)

ErrorFrame(e, l) == e.vector = "error" /\ e.at = "enter" /\ ~e.acked /\ e.old = l /\ l < 14
Failing(l, x, s, f, e) == f = <<e>> /\ ErrorFrame(e, l) /\ ~x /\ s = {"error"}

FailingOver(l, x, s, f, k, e) ==
  f = <<k, e>> /\ Begun(k) /\ ErrorFrame(e, l) /\ ~x /\ l = CLOCK /\ s = InService(k) \cup {"error"}

StackOK(l, x, s, f) ==
  \/ Unhandled(s, f)
  \/ \E k \in Frame : Entering(l, x, s, f, k)
  \/ \E k \in Frame : Serving(l, x, s, f, k)
  \/ \E e \in Frame : Failing(l, x, s, f, e)
  \/ \E k, e \in Frame : FailingOver(l, x, s, f, k, e)

(* The level of the mainline code, and what it may find.                   *)
Base(l, f) == IF f = <<>> THEN l ELSE f[1].old
LockStates == {"get", "search", "unlock", "put", "clear"}

MainOK(l, x, f, m) ==
  /\ m.old = APC
  /\ Base(l, f) >= APC
  /\ Base(l, f) = APC \/ m.at = "raised"
  /\ m.at \in LockStates => ~x /\ f = <<>>
  /\ m.off /\ ~m.leaked => ~x /\ f = <<>>
  /\ m.at \in {"get", "search", "unlock"} /\ m.off /\ ~m.leaked => ~m.saved
  /\ m.at \in {"get", "search"} => m.want \in Resources /\ m.holds = NoResource
  /\ m.at \in {"put", "clear"} => m.holds \in Resources

CpuOK(l, x, s, f, m) == StackOK(l, x, s, f) /\ MainOK(l, x, f, m)

(* A resource is locked for the one that holds it.                         *)
Owned ==
  \A r \in Resources :
    /\ locked[r] <=> \E c \in Cpus : main[c].holds = r
    /\ \A c, d \in Cpus : main[c].holds = r /\ main[d].holds = r => c = d

SyncInv ==
  /\ SyncTypes
  /\ \A c \in Cpus : CpuOK(level[c], flag[c], isr[c], frames[c], main[c])
  /\ Owned

-----------------------------------------------------------------------------
(* Sequences of up to two handlers, and the highest vector of such.        *)

LEMMA Sequences12 ==
  ASSUME NEW k, NEW e
  PROVE  /\ Len(<<>>) = 0 /\ Len(<<k>>) = 1 /\ Len(<<k, e>>) = 2
         /\ <<k>>[1] = k /\ <<k, e>>[1] = k /\ <<k, e>>[2] = e
         /\ <<k>> # <<>> /\ <<k, e>> # <<>>
         /\ Append(<<>>, k) = <<k>> /\ Append(<<k>>, e) = <<k, e>>
<1>1. <<k, e>> \in Seq({k, e}) /\ Append(<<k>>, e) \in Seq({k, e})
  OBVIOUS
<1>2. Len(Append(<<k>>, e)) = 2 /\ Len(<<k, e>>) = 2
  OBVIOUS
<1>3. \A i \in 1 .. 2 : Append(<<k>>, e)[i] = <<k, e>>[i]
  OBVIOUS
<1>4. Append(<<k>>, e) = <<k, e>>
  BY <1>1, <1>2, <1>3, SeqEqual
<1> QED BY <1>4

LEMMA WithoutLast ==
  ASSUME NEW k, NEW e
  PROVE  /\ SubSeq(<<k>>, 1, Len(<<k>>) - 1) = <<>>
         /\ SubSeq(<<k, e>>, 1, Len(<<k, e>>) - 1) = <<k>>
         /\ SubSeq(<<k>>, 1, Len(<<k>>) - 1) \o <<e>> = <<e>>
<1>1. SubSeq(<<k>>, 1, 0) = <<>>
  OBVIOUS
<1>2. SubSeq(<<k, e>>, 1, 1) = <<k>>
  <2>1. SubSeq(<<k, e>>, 1, 1) \in Seq({k, e}) /\ <<k>> \in Seq({k, e})
    OBVIOUS
  <2>2. Len(SubSeq(<<k, e>>, 1, 1)) = 1 /\ Len(<<k>>) = 1
    OBVIOUS
  <2>3. SubSeq(<<k, e>>, 1, 1)[1] = <<k>>[1]
    OBVIOUS
  <2>4. \A i \in 1 .. 1 : i = 1
    OBVIOUS
  <2> QED BY <2>1, <2>2, <2>3, <2>4, SeqEqual
<1>3. <<>> \o <<e>> = <<e>>
  OBVIOUS
<1>4. Len(<<k>>) - 1 = 0 /\ Len(<<k, e>>) - 1 = 1
  OBVIOUS
<1> QED BY <1>1, <1>2, <1>3, <1>4

LEMMA Numbered == Number["clock"] = 209 /\ Number["clockIpi"] = 210 /\ Number["error"] = 227
BY DEF Number

LEMMA HighestIn ==
  ASSUME NEW S \in SUBSET Vectors, S # {}
  PROVE  HighestVector(S) \in S
<1>1. \E v \in S : \A w \in S : Number[v] >= Number[w]
  <2>1. CASE "error" \in S
    BY <2>1, Numbered DEF Vectors
  <2>2. CASE "error" \notin S /\ "clockIpi" \in S
    BY <2>2, Numbered DEF Vectors
  <2>3. CASE "error" \notin S /\ "clockIpi" \notin S
    <3>1. S = {"clock"}
      BY <2>3 DEF Vectors
    <3> QED BY <3>1, Numbered
  <2> QED BY <2>1, <2>2, <2>3
<1> QED BY <1>1 DEF HighestVector

LEMMA HighestError ==
  ASSUME NEW S \in SUBSET Vectors, "error" \in S
  PROVE  HighestVector(S) = "error"
<1>1. \A w \in S : Number["error"] >= Number[w]
  BY Numbered DEF Vectors
<1>2. HighestVector(S) \in S /\ \A w \in S : Number[HighestVector(S)] >= Number[w]
  BY <1>1 DEF HighestVector
<1>3. HighestVector(S) \in {"clock", "clockIpi", "error"}
  BY <1>2 DEF Vectors
<1>4. Number[HighestVector(S)] >= 227
  BY <1>2, Numbered
<1> QED BY <1>3, <1>4, Numbered

LEMMA HighestOne ==
  ASSUME NEW v \in Vectors
  PROVE  HighestVector({v}) = v
BY HighestIn

-----------------------------------------------------------------------------
(* A step of one processor.                                                *)

LEMMA OwnedKept ==
  ASSUME SyncInv, NEW c \in Cpus, NEW m \in MainTypes, main' = [main EXCEPT ![c] = m],
         m.holds = main[c].holds, UNCHANGED locked
  PROVE  Owned'
<1>1. \A d \in Cpus : main'[d].holds = main[d].holds
  BY DEF SyncInv, SyncTypes
<1> QED BY <1>1 DEF SyncInv, Owned

(* A step of one processor.                                                *)
CpuMoves(c, l, x, s, f, m) ==
  /\ level' = [level EXCEPT ![c] = l] /\ flag' = [flag EXCEPT ![c] = x]
  /\ isr' = [isr EXCEPT ![c] = s] /\ frames' = [frames EXCEPT ![c] = f]
  /\ main' = [main EXCEPT ![c] = m] /\ CpuOK(l, x, s, f, m)
  /\ irr' \in [Cpus -> SUBSET Vectors] /\ locked' \in [Resources -> BOOLEAN] /\ Owned'

LEMMA CpuStep ==
  ASSUME SyncInv, NEW c \in Cpus, NEW l \in Nat, NEW x \in BOOLEAN, NEW s \in SUBSET Vectors,
         NEW f \in Seq(Frame), NEW m \in MainTypes, CpuMoves(c, l, x, s, f, m)
  PROVE  SyncInv'
<1> USE DEF CpuMoves
<1>1. SyncTypes'
  BY DEF SyncInv, SyncTypes
<1>2. \A d \in Cpus : CpuOK(level'[d], flag'[d], isr'[d], frames'[d], main'[d])
  <2>1. \A d \in Cpus \ {c} : /\ level'[d] = level[d] /\ flag'[d] = flag[d] /\ isr'[d] = isr[d]
                              /\ frames'[d] = frames[d] /\ main'[d] = main[d]
    BY DEF SyncInv, SyncTypes
  <2>2. level'[c] = l /\ flag'[c] = x /\ isr'[c] = s /\ frames'[c] = f /\ main'[c] = m
    BY DEF SyncInv, SyncTypes
  <2>3. \A d \in Cpus \ {c} : CpuOK(level[d], flag[d], isr[d], frames[d], main[d])
    BY DEF SyncInv
  <2> QED BY <2>1, <2>2, <2>3
<1> QED BY <1>1, <1>2 DEF SyncInv

(* What does not change changes to what it is.                             *)
LEMMA SameAt ==
  ASSUME SyncInv, NEW c \in Cpus
  PROVE  /\ level = [level EXCEPT ![c] = level[c]] /\ flag = [flag EXCEPT ![c] = flag[c]]
         /\ isr = [isr EXCEPT ![c] = isr[c]] /\ frames = [frames EXCEPT ![c] = frames[c]]
         /\ main = [main EXCEPT ![c] = main[c]]
         /\ level[c] \in Nat /\ flag[c] \in BOOLEAN /\ isr[c] \in SUBSET Vectors
         /\ irr[c] \in SUBSET Vectors /\ frames[c] \in Seq(Frame) /\ main[c] \in MainTypes
         /\ StackOK(level[c], flag[c], isr[c], frames[c])
         /\ MainOK(level[c], flag[c], frames[c], main[c])
BY DEF SyncInv, SyncTypes, CpuOK

-----------------------------------------------------------------------------
(* Interrupts.                                                             *)

LEMMA Classed == Class["clock"] = 13 /\ Class["clockIpi"] = 13 /\ Class["error"] = 14
BY DEF Class

LEMMA RaiseIs ==
  ASSUME SyncInv, NEW c \in Cpus, NEW n \in Nat
  PROVE  /\ RaiseTo(c, n) = [level EXCEPT ![c] = IF level[c] < n THEN n ELSE level[c]]
         /\ LowerTo(c, n) = [level EXCEPT ![c] = IF level[c] > n THEN n ELSE level[c]]
BY SameAt DEF RaiseTo, LowerTo

LEMMA EoiIs ==
  ASSUME SyncInv, NEW c \in Cpus, SendEoi(c)
  PROVE  isr' = [isr EXCEPT ![c] = IF isr[c] = {} THEN {} ELSE isr[c] \ {HighestVector(isr[c])}]
BY SameAt DEF SendEoi

(* An acknowledgement takes the one clock vector out of service, or the    *)
(* error that came over it.                                                *)
LEMMA EoiClock ==
  ASSUME SyncInv, NEW c \in Cpus, SendEoi(c), NEW k \in Frame, isr[c] = InService(k)
  PROVE  isr' = [isr EXCEPT ![c] = {}]
<1>1. CASE k.acked
  BY <1>1, EoiIs DEF InService
<1>2. CASE ~k.acked
  <2>1. isr[c] = {k.vector} /\ k.vector \in Vectors
    BY <1>2 DEF InService, Frame
  <2>2. HighestVector(isr[c]) = k.vector
    BY <2>1, HighestOne
  <2> QED BY <2>1, <2>2, EoiIs
<1> QED BY <1>1, <1>2

LEMMA EoiError ==
  ASSUME SyncInv, NEW c \in Cpus, SendEoi(c), "error" \in isr[c]
  PROVE  isr' = [isr EXCEPT ![c] = isr[c] \ {"error"}]
BY EoiIs, HighestError, SameAt

LEMMA RequestKeeps ==
  ASSUME SyncInv, NEW c \in Cpus, NEW v \in Vectors, Request(c, v)
  PROVE  SyncInv'
<1>1. irr' \in [Cpus -> SUBSET Vectors]
  BY DEF Request, SyncInv, SyncTypes
<1>2. UNCHANGED <<level, flag, isr, frames, main, locked>>
  BY DEF Request
<1>3. Owned'
  BY <1>2 DEF SyncInv, Owned
<1> QED BY <1>1, <1>2, <1>3 DEF SyncInv, SyncTypes

LEMMA DispatchKeeps ==
  ASSUME SyncInv, NEW c \in Cpus, DispatchInterrupt(c)
  PROVE  SyncInv'
<1>1. PICK l \in Nat : l = level[c]
  BY SameAt
<1>2. PICK f \in Seq(Frame) : f = frames[c]
  BY SameAt
<1>3. PICK s \in SUBSET Vectors : s = isr[c]
  BY SameAt
<1>4. PICK m \in MainTypes : m = main[c]
  BY SameAt
<1>5. flag[c] /\ StackOK(l, TRUE, s, f) /\ MainOK(l, TRUE, f, m)
  <2>1. flag[c] = TRUE
    BY SameAt DEF DispatchInterrupt
  <2> QED BY <1>1, <1>2, <1>3, <1>4, <2>1, SameAt
<1>6. PICK v \in Vectors : v = HighestVector(irr[c])
  BY HighestIn, SameAt DEF DispatchInterrupt
<1>7. PICK r \in Frame : r = [vector |-> v, old |-> l, at |-> "enter", acked |-> FALSE]
  BY DEF Frame
<1>8. r.vector = v /\ r.old = l /\ r.at = "enter" /\ ~r.acked
  BY <1>7
<1>9. /\ Class[v] > l
      /\ isr' = [isr EXCEPT ![c] = s \cup {v}] /\ frames' = [frames EXCEPT ![c] = Append(f, r)]
      /\ flag' = [flag EXCEPT ![c] = FALSE] /\ UNCHANGED <<level, main, locked>>
      /\ irr' \in [Cpus -> SUBSET Vectors]
  BY <1>1, <1>2, <1>3, <1>6, <1>7, SameAt DEF DispatchInterrupt, SyncInv, SyncTypes
<1>10. Append(f, r) \in Seq(Frame)
  BY AppendProperties
<1>11. v = "error" => Class[v] = 14
  BY Classed
<1>12. v # "error" => Class[v] = 13 /\ v \in {"clock", "clockIpi"}
  BY Classed DEF Vectors
<1>13. StackOK(l, FALSE, s \cup {v}, Append(f, r))
  <2>1. CASE Unhandled(s, f)
    <3>1. Append(f, r) = <<r>> /\ s \cup {v} = {v}
      BY <2>1, Sequences12 DEF Unhandled
    <3>2. CASE v = "error"
      BY <1>8, <1>9, <1>11, <3>1, <3>2 DEF StackOK, Failing, ErrorFrame
    <3>3. CASE v # "error"
      <4>1. Entering(l, FALSE, s \cup {v}, Append(f, r), r)
        BY <1>8, <1>9, <1>12, <3>1, <3>3 DEF Entering, ClockVector, CLOCK
      <4> QED BY <4>1 DEF StackOK
    <3> QED BY <3>2, <3>3
  <2>2. ASSUME NEW k \in Frame, Serving(l, TRUE, s, f, k)
        PROVE  StackOK(l, FALSE, s \cup {v}, Append(f, r))
    <3>1. Append(f, r) = <<k, r>> /\ l = CLOCK /\ Begun(k) /\ s = InService(k)
      BY <2>2, Sequences12 DEF Serving
    <3>2. v = "error"
      BY <1>9, <1>12, <3>1 DEF CLOCK
    <3>3. FailingOver(l, FALSE, s \cup {v}, Append(f, r), k, r)
      BY <1>8, <1>9, <1>11, <3>1, <3>2 DEF FailingOver, ErrorFrame
    <3> QED BY <3>3 DEF StackOK
  <2> QED BY <1>5, <2>1, <2>2 DEF StackOK, Entering, Failing, FailingOver
<1>14. MainOK(l, FALSE, Append(f, r), m)
  <2>1. Base(l, Append(f, r)) = Base(l, f)
    <3>1. CASE Unhandled(s, f)
      <4>1. Append(f, r) = <<r>>
        BY <3>1, Sequences12 DEF Unhandled
      <4> QED BY <1>8, <3>1, <4>1, Sequences12 DEF Base, Unhandled
    <3>2. ASSUME NEW k \in Frame, Serving(l, TRUE, s, f, k)
          PROVE  Base(l, Append(f, r)) = Base(l, f)
      <4>1. f = <<k>> /\ Append(f, r) = <<k, r>>
        BY <3>2, Sequences12 DEF Serving
      <4> QED BY <4>1, Sequences12 DEF Base
    <3> QED BY <1>5, <3>1, <3>2 DEF StackOK, Entering, Failing, FailingOver
  <2> QED BY <1>5, <2>1 DEF MainOK
<1>15. Owned'
  BY <1>4, <1>9, SameAt, OwnedKept
<1>16. s \cup {v} \in SUBSET Vectors /\ FALSE \in BOOLEAN
  OBVIOUS
<1>17. level' = [level EXCEPT ![c] = l] /\ main' = [main EXCEPT ![c] = m]
  BY <1>1, <1>4, <1>9, SameAt
<1>18. CpuOK(l, FALSE, s \cup {v}, Append(f, r), m)
  BY <1>13, <1>14 DEF CpuOK
<1>19. locked' \in [Resources -> BOOLEAN]
  BY <1>9 DEF SyncInv, SyncTypes
<1> QED BY <1>9, <1>10, <1>15, <1>16, <1>17, <1>18, <1>19, CpuStep DEF CpuMoves

(* The handler on top, by where it is.                                     *)
LEMMA TopClock ==
  ASSUME SyncInv, NEW c \in Cpus, ~InMain(c), Top(c).vector # "error", NEW l, l = level[c]
  PROVE  \E k \in Frame : /\ Top(c) = k /\ frames[c] = <<k>>
                          /\ \/ Entering(l, flag[c], isr[c], frames[c], k)
                             \/ Serving(l, flag[c], isr[c], frames[c], k)
<1>1. StackOK(l, flag[c], isr[c], frames[c]) /\ frames[c] # <<>>
  BY SameAt DEF InMain
<1>2. ASSUME NEW k \in Frame, NEW e \in Frame, FailingOver(l, flag[c], isr[c], frames[c], k, e)
      PROVE  FALSE
  BY <1>2, Sequences12 DEF FailingOver, ErrorFrame, Top
<1>3. ASSUME NEW e \in Frame, Failing(l, flag[c], isr[c], frames[c], e) PROVE FALSE
  BY <1>3, Sequences12 DEF Failing, ErrorFrame, Top
<1>4. ASSUME NEW k \in Frame, frames[c] = <<k>> PROVE Top(c) = k
  BY <1>4, Sequences12 DEF Top
<1> QED BY <1>1, <1>2, <1>3, <1>4 DEF StackOK, Unhandled, Entering, Serving

(* A clock handler that goes on: its frame changes, and what it has to     *)
(* say about the level, the flag and the vectors in service.               *)
LEMMA ClockFrameStep ==
  ASSUME SyncInv, NEW c \in Cpus, NEW l \in Nat, NEW s \in SUBSET Vectors, NEW k \in Frame,
         NEW r \in Frame, frames[c] = <<k>>, frames' = SetTop(c, r), r.old = k.old,
         level' = [level EXCEPT ![c] = CLOCK], flag' = [flag EXCEPT ![c] = TRUE],
         isr' = [isr EXCEPT ![c] = InService(r)],
         Begun(r), UNCHANGED <<main, locked>>, irr' \in [Cpus -> SUBSET Vectors]
  PROVE  SyncInv'
<1>1. frames' = [frames EXCEPT ![c] = <<r>>]
  <2>1. SubSeq(frames[c], 1, Len(frames[c]) - 1) \o <<r>> = <<r>>
    BY WithoutLast
  <2> QED BY <2>1 DEF SetTop
<1>2. Serving(CLOCK, TRUE, InService(r), <<r>>, r)
  BY DEF Serving
<1>3. PICK m \in MainTypes : m = main[c]
  BY SameAt
<1>4. <<k>> # <<>> /\ <<r>> # <<>> /\ <<r>>[1].old = <<k>>[1].old
  BY Sequences12
<1>5. MainOK(CLOCK, TRUE, <<r>>, m)
  BY <1>3, <1>4, SameAt DEF MainOK, Base
<1>6. CpuOK(CLOCK, TRUE, InService(r), <<r>>, m)
  BY <1>2, <1>5 DEF CpuOK, StackOK
<1>7. Owned'
  BY SameAt, OwnedKept
<1>8. /\ InService(r) \in SUBSET Vectors /\ <<r>> \in Seq(Frame) /\ CLOCK \in Nat /\ TRUE \in BOOLEAN
      /\ locked' \in [Resources -> BOOLEAN] /\ main' = [main EXCEPT ![c] = m]
  BY <1>3, SameAt DEF InService, Frame, CLOCK, SyncInv, SyncTypes
<1> QED BY <1>1, <1>6, <1>7, <1>8, CpuStep DEF CpuMoves

LEMMA BeginKeeps ==
  ASSUME SyncInv, NEW c \in Cpus, BeginSystemInterrupt(c)
  PROVE  SyncInv'
<1>1. PICK l \in Nat : l = level[c]
  BY SameAt
<1>2. PICK k \in Frame : /\ Top(c) = k /\ frames[c] = <<k>>
                         /\ \/ Entering(l, flag[c], isr[c], frames[c], k)
                            \/ Serving(l, flag[c], isr[c], frames[c], k)
  BY <1>1, TopClock DEF BeginSystemInterrupt
<1>3. k.at = "enter"
  BY <1>2 DEF BeginSystemInterrupt
<1>4. Entering(l, flag[c], isr[c], frames[c], k)
  BY <1>2, <1>3 DEF Serving, Begun
<1>5. PICK r \in Frame : r = [k EXCEPT !.old = l, !.at = "begun"]
  BY DEF Frame
<1>6. r.old = l /\ r.at = "begun" /\ r.vector = k.vector /\ r.acked = k.acked
  BY <1>5 DEF Frame
<1>7. Begun(r) /\ InService(r) = isr[c] /\ r.old = k.old /\ l < CLOCK
  BY <1>4, <1>6 DEF Entering, Begun, ClockVector, InService
<1>8. level' = [level EXCEPT ![c] = CLOCK]
  BY <1>1, <1>7, RaiseIs DEF BeginSystemInterrupt, CLOCK
<1>9. frames' = SetTop(c, r) /\ flag' = [flag EXCEPT ![c] = TRUE] /\ UNCHANGED <<irr, isr, main, locked>>
  BY <1>1, <1>2, <1>5 DEF BeginSystemInterrupt
<1>10. isr' = [isr EXCEPT ![c] = InService(r)] /\ irr' \in [Cpus -> SUBSET Vectors]
  BY <1>7, <1>9, SameAt DEF SyncInv, SyncTypes
<1> QED BY <1>2, <1>7, <1>8, <1>9, <1>10, ClockFrameStep

(* A clock handler past its entry.                                         *)
LEMMA TopServing ==
  ASSUME SyncInv, NEW c \in Cpus, ~InMain(c), Top(c).at # "enter"
  PROVE  \E k \in Frame : Top(c) = k /\ Serving(level[c], flag[c], isr[c], frames[c], k)
<1>1. StackOK(level[c], flag[c], isr[c], frames[c]) /\ frames[c] # <<>>
  BY SameAt DEF InMain
<1>2. ASSUME NEW k \in Frame, NEW e \in Frame, FailingOver(level[c], flag[c], isr[c], frames[c], k, e)
      PROVE  FALSE
  BY <1>2, Sequences12 DEF FailingOver, ErrorFrame, Top
<1>3. ASSUME NEW e \in Frame, Failing(level[c], flag[c], isr[c], frames[c], e) PROVE FALSE
  BY <1>3, Sequences12 DEF Failing, ErrorFrame, Top
<1>4. ASSUME NEW k \in Frame, Entering(level[c], flag[c], isr[c], frames[c], k) PROVE FALSE
  BY <1>4, Sequences12 DEF Entering, Top
<1>5. ASSUME NEW k \in Frame, Serving(level[c], flag[c], isr[c], frames[c], k) PROVE Top(c) = k
  BY <1>5, Sequences12 DEF Serving, Top
<1> QED BY <1>1, <1>2, <1>3, <1>4, <1>5 DEF StackOK, Unhandled

LEMMA ProfileKeeps ==
  ASSUME SyncInv, NEW c \in Cpus, ProfileExpires(c)
  PROVE  SyncInv'
<1>1. PICK k \in Frame : Top(c) = k /\ Serving(level[c], flag[c], isr[c], frames[c], k)
  BY TopServing DEF ProfileExpires
<1>2. PICK r \in Frame : r = [k EXCEPT !.at = "work", !.acked = TRUE]
  BY DEF Frame
<1>3. r.old = k.old /\ r.at = "work" /\ r.vector = k.vector /\ r.acked
  BY <1>2 DEF Frame
<1>4. Begun(r) /\ InService(r) = {} /\ frames[c] = <<k>>
  BY <1>1, <1>3 DEF Serving, Begun, ClockVector, InService
<1>5. isr' = [isr EXCEPT ![c] = {}]
  BY <1>1, EoiClock DEF ProfileExpires, Serving
<1>6. level[c] = CLOCK /\ flag[c] = TRUE
  BY <1>1, SameAt DEF Serving
<1>7. frames' = SetTop(c, r) /\ UNCHANGED <<irr, level, flag, main, locked>>
  BY <1>1, <1>2 DEF ProfileExpires
<1>8. /\ level' = [level EXCEPT ![c] = CLOCK] /\ flag' = [flag EXCEPT ![c] = TRUE]
      /\ irr' \in [Cpus -> SUBSET Vectors] /\ level[c] \in Nat
  BY <1>6, <1>7, SameAt DEF SyncInv, SyncTypes
<1> QED BY <1>3, <1>4, <1>5, <1>7, <1>8, ClockFrameStep

LEMMA HandleKeeps ==
  ASSUME SyncInv, NEW c \in Cpus, HandleClock(c)
  PROVE  SyncInv'
<1>1. PICK k \in Frame : Top(c) = k /\ Serving(level[c], flag[c], isr[c], frames[c], k)
  BY TopServing DEF HandleClock
<1>2. PICK r \in Frame : r = [k EXCEPT !.at = "end"]
  BY DEF Frame
<1>3. r.old = k.old /\ r.at = "end" /\ r.vector = k.vector /\ r.acked = k.acked
  BY <1>2 DEF Frame
<1>4. Begun(r) /\ InService(r) = InService(k) /\ frames[c] = <<k>>
  BY <1>1, <1>3 DEF Serving, Begun, ClockVector, InService
<1>5. level[c] = CLOCK /\ flag[c] = TRUE /\ isr[c] = InService(k)
  BY <1>1, SameAt DEF Serving
<1>6. frames' = SetTop(c, r) /\ UNCHANGED <<isr, level, flag, main, locked>>
  BY <1>1, <1>2 DEF HandleClock
<1>7. irr' \in [Cpus -> SUBSET Vectors]
  <2>1. "clockIpi" \in Vectors /\ \A d \in Cpus : irr[d] \in SUBSET Vectors
    BY SameAt DEF Vectors
  <2>2. CASE Top(c).vector = "clock"
    BY <2>1, <2>2 DEF HandleClock
  <2>3. CASE Top(c).vector # "clock"
    BY <2>3 DEF HandleClock, SyncInv, SyncTypes
  <2> QED BY <2>2, <2>3
<1>8. /\ level' = [level EXCEPT ![c] = CLOCK] /\ flag' = [flag EXCEPT ![c] = TRUE]
      /\ isr' = [isr EXCEPT ![c] = InService(r)]
  BY <1>4, <1>5, <1>6, SameAt
<1> QED BY <1>3, <1>4, <1>6, <1>7, <1>8, SameAt, ClockFrameStep

LEMMA EndKeeps ==
  ASSUME SyncInv, NEW c \in Cpus, EndInterrupt(c)
  PROVE  SyncInv'
<1>1. PICK k \in Frame : Top(c) = k /\ Serving(level[c], flag[c], isr[c], frames[c], k)
  BY TopServing DEF EndInterrupt
<1>2. frames[c] = <<k>> /\ level[c] = CLOCK /\ k.old \in Nat /\ k.old < CLOCK /\ isr[c] = InService(k)
  BY <1>1 DEF Serving, Begun, Frame
<1>3. frames' = [frames EXCEPT ![c] = <<>>]
  <2>1. frames' = PopFrame(c)
    BY DEF EndInterrupt
  <2>2. SubSeq(frames[c], 1, Len(frames[c]) - 1) = <<>>
    BY <1>2, WithoutLast
  <2> QED BY <2>1, <2>2 DEF PopFrame
<1>4. isr' = [isr EXCEPT ![c] = {}]
  BY <1>2, EoiClock DEF EndInterrupt
<1>5. level' = [level EXCEPT ![c] = k.old]
  BY <1>1, <1>2, RaiseIs DEF EndInterrupt, CLOCK
<1>6. flag' = [flag EXCEPT ![c] = TRUE] /\ UNCHANGED <<irr, main, locked>>
  BY DEF EndInterrupt
<1>7. PICK m \in MainTypes : m = main[c]
  BY SameAt
<1>8. MainOK(level[c], flag[c], <<k>>, m) /\ <<k>> # <<>> /\ <<k>>[1] = k
  BY <1>2, <1>7, SameAt, Sequences12
<1>9. MainOK(k.old, TRUE, <<>>, m)
  BY <1>8 DEF MainOK, Base
<1>10. CpuOK(k.old, TRUE, {}, <<>>, m)
  BY <1>9 DEF CpuOK, StackOK, Unhandled
<1>11. Owned'
  BY <1>6, SameAt, OwnedKept
<1>12. /\ irr' \in [Cpus -> SUBSET Vectors] /\ locked' \in [Resources -> BOOLEAN]
       /\ main' = [main EXCEPT ![c] = m] /\ TRUE \in BOOLEAN /\ {} \in SUBSET Vectors
       /\ <<>> \in Seq(Frame)
  BY <1>6, <1>7, SameAt DEF SyncInv, SyncTypes
<1> QED BY <1>2, <1>3, <1>4, <1>5, <1>6, <1>10, <1>11, <1>12, CpuStep DEF CpuMoves

LEMMA ErrorKeeps ==
  ASSUME SyncInv, NEW c \in Cpus, HandleApicErrorInterrupt(c)
  PROVE  SyncInv'
<1>1. PICK l \in Nat : l = level[c]
  BY SameAt
<1>2. PICK m \in MainTypes : m = main[c]
  BY SameAt
<1>3. StackOK(l, flag[c], isr[c], frames[c]) /\ MainOK(l, flag[c], frames[c], m) /\ frames[c] # <<>>
  BY <1>1, <1>2, SameAt DEF HandleApicErrorInterrupt, InMain
<1>4. Top(c).vector = "error"
  BY DEF HandleApicErrorInterrupt
<1>5. /\ flag' = [flag EXCEPT ![c] = TRUE] /\ frames' = PopFrame(c) /\ SendEoi(c)
      /\ UNCHANGED <<level, irr, main, locked>>
  BY DEF HandleApicErrorInterrupt
<1>6. /\ irr' \in [Cpus -> SUBSET Vectors] /\ locked' \in [Resources -> BOOLEAN]
      /\ level' = [level EXCEPT ![c] = l] /\ main' = [main EXCEPT ![c] = m] /\ TRUE \in BOOLEAN
      /\ Owned'
  BY <1>1, <1>2, <1>5, SameAt, OwnedKept DEF SyncInv, SyncTypes
<1>7. ASSUME NEW e \in Frame, Failing(l, flag[c], isr[c], frames[c], e) PROVE SyncInv'
  <2>1. frames[c] = <<e>> /\ isr[c] = {"error"} /\ e.old = l
    BY <1>7 DEF Failing, ErrorFrame
  <2>2. frames' = [frames EXCEPT ![c] = <<>>]
    BY <1>5, <2>1, WithoutLast DEF PopFrame
  <2>3. isr' = [isr EXCEPT ![c] = {}]
    <3>1. isr[c] \ {"error"} = {}
      BY <2>1
    <3> QED BY <1>5, <2>1, <3>1, EoiError
  <2>4. <<e>> # <<>> /\ <<e>>[1] = e
    BY Sequences12
  <2>5. MainOK(l, TRUE, <<>>, m)
    BY <1>3, <2>1, <2>4 DEF MainOK, Base
  <2>6. CpuOK(l, TRUE, {}, <<>>, m)
    BY <2>5 DEF CpuOK, StackOK, Unhandled
  <2>7. {} \in SUBSET Vectors /\ <<>> \in Seq(Frame)
    OBVIOUS
  <2> QED BY <1>5, <1>6, <2>2, <2>3, <2>6, <2>7, CpuStep DEF CpuMoves
<1>8. ASSUME NEW k \in Frame, NEW e \in Frame, FailingOver(l, flag[c], isr[c], frames[c], k, e)
      PROVE  SyncInv'
  <2>1. frames[c] = <<k, e>> /\ isr[c] = InService(k) \cup {"error"} /\ Begun(k) /\ l = CLOCK
    BY <1>8 DEF FailingOver
  <2>2. frames' = [frames EXCEPT ![c] = <<k>>]
    BY <1>5, <2>1, WithoutLast DEF PopFrame
  <2>3. "error" \notin InService(k) /\ InService(k) \in SUBSET Vectors
    BY <2>1 DEF Begun, ClockVector, InService, Frame
  <2>4. isr' = [isr EXCEPT ![c] = InService(k)]
    <3>1. isr[c] \ {"error"} = InService(k)
      BY <2>1, <2>3
    <3> QED BY <1>5, <2>1, <3>1, EoiError
  <2>5. <<k>> # <<>> /\ <<k, e>> # <<>> /\ <<k>>[1] = k /\ <<k, e>>[1] = k
    BY Sequences12
  <2>6. MainOK(l, TRUE, <<k>>, m)
    BY <1>3, <2>1, <2>5 DEF MainOK, Base
  <2>7. Serving(l, TRUE, InService(k), <<k>>, k)
    BY <2>1 DEF Serving
  <2>8. CpuOK(l, TRUE, InService(k), <<k>>, m)
    BY <2>6, <2>7 DEF CpuOK, StackOK
  <2>9. <<k>> \in Seq(Frame)
    OBVIOUS
  <2> QED BY <1>5, <1>6, <2>2, <2>3, <2>4, <2>8, <2>9, CpuStep DEF CpuMoves
<1>9. ASSUME NEW k \in Frame, Entering(l, flag[c], isr[c], frames[c], k) PROVE FALSE
  BY <1>4, <1>9, Sequences12 DEF Entering, Top, ClockVector
<1>10. ASSUME NEW k \in Frame, Serving(l, flag[c], isr[c], frames[c], k) PROVE FALSE
  BY <1>4, <1>10, Sequences12 DEF Serving, Begun, Top, ClockVector
<1> QED BY <1>3, <1>7, <1>8, <1>9, <1>10 DEF StackOK, Unhandled

-----------------------------------------------------------------------------
(* Mainline code.                                                          *)

(* A step of mainline code: no handler runs and none comes or goes.        *)
MainMoves(c, l, x, m) ==
  /\ level' = [level EXCEPT ![c] = l] /\ flag' = [flag EXCEPT ![c] = x]
  /\ main' = [main EXCEPT ![c] = m] /\ UNCHANGED <<irr, isr, frames>>
  /\ locked' \in [Resources -> BOOLEAN] /\ Owned' /\ MainOK(l, x, <<>>, m)

LEMMA MainStep ==
  ASSUME SyncInv, NEW c \in Cpus, InMain(c), NEW l \in Nat, NEW x \in BOOLEAN,
         NEW m \in MainTypes, MainMoves(c, l, x, m)
  PROVE  SyncInv'
<1>0. /\ level' = [level EXCEPT ![c] = l] /\ flag' = [flag EXCEPT ![c] = x]
      /\ main' = [main EXCEPT ![c] = m] /\ UNCHANGED <<irr, isr, frames>>
      /\ locked' \in [Resources -> BOOLEAN] /\ Owned' /\ MainOK(l, x, <<>>, m)
  BY DEF MainMoves
<1>1. frames[c] = <<>>
  BY DEF InMain
<1>2. isr[c] = {}
  <2>1. StackOK(level[c], flag[c], isr[c], <<>>)
    BY <1>1, SameAt
  <2> QED BY <2>1, Sequences12 DEF StackOK, Unhandled, Entering, Serving, Failing, FailingOver
<1>3. {} \in SUBSET Vectors /\ <<>> \in Seq(Frame)
  OBVIOUS
<1>4. CpuOK(l, x, {}, <<>>, m)
  BY <1>0 DEF CpuOK, StackOK, Unhandled
<1>5. isr' = [isr EXCEPT ![c] = {}] /\ frames' = [frames EXCEPT ![c] = <<>>]
  <2>1. isr \in [Cpus -> SUBSET Vectors] /\ frames \in [Cpus -> Seq(Frame)]
    BY DEF SyncInv, SyncTypes
  <2> QED BY <1>0, <1>1, <1>2, <2>1
<1>6. irr' \in [Cpus -> SUBSET Vectors]
  BY <1>0 DEF SyncInv, SyncTypes
<1>7. CpuMoves(c, l, x, {}, <<>>, m)
  BY <1>0, <1>4, <1>5, <1>6 DEF CpuMoves
<1> QED BY <1>3, <1>7, CpuStep, Zenon

(* What mainline code finds.                                               *)
LEMMA MainIs ==
  ASSUME SyncInv, NEW c \in Cpus, NEW a, At(c, a)
  PROVE  /\ InMain(c) /\ main[c].at = a
         /\ MainOK(level[c], flag[c], <<>>, main[c])
         /\ level[c] >= APC /\ (level[c] = APC \/ a = "raised")
<1>1. frames[c] = <<>> /\ main[c].at = a
  BY DEF At, InMain
<1>2. MainOK(level[c], flag[c], <<>>, main[c])
  BY <1>1, SameAt
<1> QED BY <1>1, <1>2 DEF At, MainOK, Base

LEMMA RaiseKeeps ==
  ASSUME SyncInv, NEW c \in Cpus, NEW n \in {DISPATCH, HIGH}, RaiseRunLevel(c, n)
  PROVE  SyncInv'
<1>1. /\ InMain(c) /\ main[c].at = "rest" /\ MainOK(level[c], flag[c], <<>>, main[c])
      /\ level[c] = APC
  BY MainIs DEF RaiseRunLevel
<1>2. PICK m \in MainTypes : m = [main[c] EXCEPT !.at = "raised", !.old = level[c]]
  BY SameAt DEF MainTypes
<1>3. /\ m.at = "raised" /\ m.old = APC /\ m.off = main[c].off /\ m.leaked = main[c].leaked
      /\ m.holds = main[c].holds
  BY <1>1, <1>2, SameAt DEF MainTypes
<1>4. n \in Nat /\ n > APC
  BY DEF DISPATCH, HIGH, APC
<1>5. level' = [level EXCEPT ![c] = n]
  BY <1>1, <1>4, RaiseIs DEF RaiseRunLevel
<1>6. MainOK(n, flag[c], <<>>, m)
  BY <1>1, <1>3, <1>4 DEF MainOK, Base, LockStates, APC
<1>7. main' = [main EXCEPT ![c] = m] /\ UNCHANGED <<flag, irr, isr, frames, locked>>
  BY <1>2 DEF RaiseRunLevel, Go
<1>8. Owned' /\ locked' \in [Resources -> BOOLEAN]
  BY <1>3, <1>7, OwnedKept DEF SyncInv, SyncTypes
<1>9. PICK b \in BOOLEAN : b = flag[c] /\ flag' = [flag EXCEPT ![c] = b]
  BY <1>7, SameAt
<1>10. MainOK(n, b, <<>>, m) /\ UNCHANGED <<irr, isr, frames>>
  BY <1>6, <1>7, <1>9
<1>11. MainMoves(c, n, b, m)
  BY <1>5, <1>7, <1>8, <1>9, <1>10 DEF MainMoves
<1> QED BY <1>1, <1>4, <1>11, MainStep, Zenon

LEMMA LowerKeeps ==
  ASSUME SyncInv, NEW c \in Cpus, LowerRunLevel(c)
  PROVE  SyncInv'
<1>1. /\ InMain(c) /\ main[c].at = "raised" /\ MainOK(level[c], flag[c], <<>>, main[c])
      /\ level[c] >= APC
  BY MainIs DEF LowerRunLevel
<1>2. APC \in Nat
  BY DEF APC
<1>3. PICK m \in MainTypes : m = [main[c] EXCEPT !.at = "rest", !.old = APC]
  BY <1>2, SameAt DEF MainTypes
<1>4. /\ m.at = "rest" /\ m.old = APC /\ m.off = main[c].off /\ m.leaked = main[c].leaked
      /\ m.holds = main[c].holds
  BY <1>3, SameAt DEF MainTypes
<1>5. level' = [level EXCEPT ![c] = APC]
  <2>1. main[c].old = APC
    BY <1>1 DEF MainOK
  <2>2. (IF level[c] > APC THEN APC ELSE level[c]) = APC
    BY <1>1, <1>2, SameAt
  <2> QED BY <1>2, <2>1, <2>2, RaiseIs DEF LowerRunLevel
<1>6. MainOK(APC, flag[c], <<>>, m)
  BY <1>1, <1>2, <1>4 DEF MainOK, Base, LockStates
<1>7. main' = [main EXCEPT ![c] = m] /\ UNCHANGED <<flag, irr, isr, frames, locked>>
  BY <1>3 DEF LowerRunLevel, Go
<1>8. Owned' /\ locked' \in [Resources -> BOOLEAN]
  BY <1>4, <1>7, OwnedKept DEF SyncInv, SyncTypes
<1>9. PICK b \in BOOLEAN : b = flag[c] /\ flag' = [flag EXCEPT ![c] = b]
  BY <1>7, SameAt
<1>10. MainOK(APC, b, <<>>, m) /\ UNCHANGED <<irr, isr, frames>>
  BY <1>6, <1>7, <1>9
<1>11. MainMoves(c, APC, b, m)
  BY <1>5, <1>7, <1>8, <1>9, <1>10 DEF MainMoves
<1> QED BY <1>1, <1>2, <1>11, MainStep, Zenon

(* Most of the rest change the flag and the record of the mainline code.   *)
LEMMA FlagStep ==
  ASSUME SyncInv, NEW c \in Cpus, InMain(c), level[c] = APC, NEW x \in BOOLEAN,
         NEW m \in MainTypes, flag' = [flag EXCEPT ![c] = x], Go(c, m),
         UNCHANGED <<level, irr, isr, frames>>, m.old = APC,
         m.at \in LockStates => ~x,
         m.off /\ ~m.leaked => ~x,
         m.at \in {"get", "search", "unlock"} /\ m.off /\ ~m.leaked => ~m.saved,
         m.at \in {"get", "search"} => m.want \in Resources /\ m.holds = NoResource,
         m.at \in {"put", "clear"} => m.holds \in Resources,
         locked' \in [Resources -> BOOLEAN], Owned'
  PROVE  SyncInv'
<1>1. MainOK(APC, x, <<>>, m) /\ APC \in Nat
  BY DEF MainOK, Base, APC
<1>2. level' = [level EXCEPT ![c] = APC]
  BY SameAt
<1>3. MainMoves(c, APC, x, m)
  BY <1>1, <1>2 DEF MainMoves, Go
<1> QED BY <1>1, <1>3, MainStep, Zenon

LEMMA ClearFlagKeeps ==
  ASSUME SyncInv, NEW c \in Cpus, ClearInterruptFlag(c)
  PROVE  SyncInv'
<1>1. InMain(c) /\ main[c].at = "rest" /\ level[c] = APC /\ main[c].old = APC
  BY MainIs DEF ClearInterruptFlag, MainOK
<1>2. PICK m \in MainTypes : m = [main[c] EXCEPT !.off = TRUE, !.leaked = FALSE]
  BY SameAt DEF MainTypes
<1>3. m.at = "rest" /\ m.old = APC /\ m.holds = main[c].holds
  BY <1>1, <1>2, SameAt DEF MainTypes
<1>4. /\ flag' = [flag EXCEPT ![c] = FALSE] /\ Go(c, m)
      /\ UNCHANGED <<level, irr, isr, frames, locked>>
  BY <1>2 DEF ClearInterruptFlag
<1>5. Owned' /\ locked' \in [Resources -> BOOLEAN]
  BY <1>3, <1>4, OwnedKept DEF Go, SyncInv, SyncTypes
<1> QED BY <1>1, <1>3, <1>4, <1>5, FlagStep DEF LockStates

LEMMA SetFlagKeeps ==
  ASSUME SyncInv, NEW c \in Cpus, SetInterruptFlag(c)
  PROVE  SyncInv'
<1>1. InMain(c) /\ main[c].at = "rest" /\ level[c] = APC /\ main[c].old = APC
  BY MainIs DEF SetInterruptFlag, MainOK
<1>2. PICK m \in MainTypes : m = [main[c] EXCEPT !.off = FALSE, !.leaked = FALSE]
  BY SameAt DEF MainTypes
<1>3. m.at = "rest" /\ m.old = APC /\ m.holds = main[c].holds /\ m.off = FALSE
  BY <1>1, <1>2, SameAt DEF MainTypes
<1>4. /\ flag' = [flag EXCEPT ![c] = TRUE] /\ Go(c, m)
      /\ UNCHANGED <<level, irr, isr, frames, locked>>
  BY <1>2 DEF SetInterruptFlag
<1>5. Owned' /\ locked' \in [Resources -> BOOLEAN]
  BY <1>3, <1>4, OwnedKept DEF Go, SyncInv, SyncTypes
<1> QED BY <1>1, <1>3, <1>4, <1>5, FlagStep DEF LockStates

LEMMA AcquireResourceKeeps ==
  ASSUME SyncInv, NEW c \in Cpus, NEW r \in Resources, AcquireResource(c, r)
  PROVE  SyncInv'
<1>1. /\ InMain(c) /\ main[c].at = "rest" /\ level[c] = APC /\ main[c].old = APC
      /\ main[c].holds = NoResource /\ (main[c].off /\ ~main[c].leaked => ~flag[c])
  BY MainIs DEF AcquireResource, MainOK
<1>2. PICK b \in BOOLEAN : b = flag[c]
  BY SameAt
<1>3. PICK m \in MainTypes : m = [main[c] EXCEPT !.at = "get", !.saved = b, !.want = r]
  BY SameAt DEF MainTypes
<1>4. /\ m.at = "get" /\ m.old = APC /\ m.holds = NoResource /\ m.want = r /\ m.saved = b
      /\ m.off = main[c].off /\ m.leaked = main[c].leaked
  BY <1>1, <1>3, SameAt DEF MainTypes
<1>5. m.off /\ ~m.leaked => ~m.saved
  BY <1>1, <1>2, <1>4
<1>6. /\ flag' = [flag EXCEPT ![c] = FALSE] /\ Go(c, m)
      /\ UNCHANGED <<level, irr, isr, frames, locked>>
  BY <1>2, <1>3 DEF AcquireResource
<1>7. Owned' /\ locked' \in [Resources -> BOOLEAN]
  BY <1>1, <1>4, <1>6, OwnedKept DEF Go, SyncInv, SyncTypes
<1> QED BY <1>1, <1>4, <1>5, <1>6, <1>7, FlagStep DEF LockStates

LEMMA SpinKeeps ==
  ASSUME SyncInv, NEW c \in Cpus, NEW from, NEW to,
         <<from, to>> = <<"get", "search">> \/ <<from, to>> = <<"put", "clear">>,
         AcquireSpinLock(c, from, to)
  PROVE  SyncInv'
<1>0. (from = "get" /\ to = "search") \/ (from = "put" /\ to = "clear")
  OBVIOUS
<1>1. /\ InMain(c) /\ main[c].at = from /\ level[c] = APC
      /\ MainOK(level[c], flag[c], <<>>, main[c])
  BY <1>0, MainIs DEF AcquireSpinLock
<1>2. PICK b \in BOOLEAN : b = flag[c]
  BY SameAt
<1>3. PICK m \in MainTypes : m = [main[c] EXCEPT !.at = to]
  BY <1>0, SameAt DEF MainTypes
<1>4. /\ m.at = to /\ m.old = main[c].old /\ m.holds = main[c].holds /\ m.want = main[c].want
      /\ m.saved = main[c].saved /\ m.off = main[c].off /\ m.leaked = main[c].leaked
  BY <1>3, SameAt DEF MainTypes
<1>5. /\ m.old = APC /\ ~b
      /\ m.at \in {"get", "search", "unlock"} /\ m.off /\ ~m.leaked => ~m.saved
      /\ m.at \in {"get", "search"} => m.want \in Resources /\ m.holds = NoResource
      /\ m.at \in {"put", "clear"} => m.holds \in Resources
  BY <1>0, <1>1, <1>2, <1>4 DEF MainOK, LockStates
<1>6. /\ flag' = [flag EXCEPT ![c] = b] /\ Go(c, m) /\ UNCHANGED <<level, irr, isr, frames, locked>>
  BY <1>2, <1>3, SameAt DEF AcquireSpinLock
<1>7. Owned' /\ locked' \in [Resources -> BOOLEAN]
  BY <1>4, <1>6, OwnedKept DEF Go, SyncInv, SyncTypes
<1> QED BY <1>1, <1>5, <1>6, <1>7, FlagStep

LEMMA SearchKeeps ==
  ASSUME SyncInv, NEW c \in Cpus, GetSystemResource(c)
  PROVE  SyncInv'
<1>1. /\ InMain(c) /\ main[c].at = "search" /\ level[c] = APC
      /\ MainOK(level[c], flag[c], <<>>, main[c])
  BY MainIs DEF GetSystemResource
<1>2. PICK b \in BOOLEAN : b = flag[c] /\ ~b
  BY <1>1, SameAt DEF MainOK, LockStates
<1>3. PICK r \in Resources : r = main[c].want /\ main[c].holds = NoResource
  BY <1>1 DEF MainOK
<1>4. flag' = [flag EXCEPT ![c] = b] /\ UNCHANGED <<level, irr, isr, frames>>
  BY <1>2, SameAt DEF GetSystemResource
<1>5. CASE locked[r]
  <2>1. PICK m \in MainTypes : m = [main[c] EXCEPT !.at = "unlock"]
    BY SameAt DEF MainTypes
  <2>2. /\ m.at = "unlock" /\ m.old = main[c].old /\ m.holds = main[c].holds
        /\ m.saved = main[c].saved /\ m.off = main[c].off /\ m.leaked = main[c].leaked
    BY <2>1, SameAt DEF MainTypes
  <2>3. m.old = APC /\ (m.off /\ ~m.leaked => ~m.saved)
    BY <1>1, <2>2 DEF MainOK
  <2>4. Go(c, m) /\ UNCHANGED locked
    BY <1>3, <1>5, <2>1 DEF GetSystemResource
  <2>5. Owned' /\ locked' \in [Resources -> BOOLEAN]
    BY <2>2, <2>4, OwnedKept DEF Go, SyncInv, SyncTypes
  <2> QED BY <1>1, <1>2, <1>4, <2>2, <2>3, <2>4, <2>5, FlagStep
<1>6. CASE ~locked[r]
  <2>1. PICK m \in MainTypes : m = [main[c] EXCEPT !.at = "unlock", !.holds = r]
    BY SameAt DEF MainTypes
  <2>2. /\ m.at = "unlock" /\ m.old = main[c].old /\ m.holds = r
        /\ m.saved = main[c].saved /\ m.off = main[c].off /\ m.leaked = main[c].leaked
    BY <2>1, SameAt DEF MainTypes
  <2>3. m.old = APC /\ (m.off /\ ~m.leaked => ~m.saved)
    BY <1>1, <2>2 DEF MainOK
  <2>4. Go(c, m) /\ locked' = [locked EXCEPT ![r] = TRUE]
    BY <1>3, <1>6, <2>1 DEF GetSystemResource
  <2>5. locked' \in [Resources -> BOOLEAN]
    BY <2>4 DEF SyncInv, SyncTypes
  <2>6. Owned'
    <3>1. \A d \in Cpus : main'[d].holds = IF d = c THEN r ELSE main[d].holds
      BY <2>2, <2>4 DEF Go, SyncInv, SyncTypes
    <3>2. \A q \in Resources : q # r => (locked'[q] <=> locked[q])
      BY <2>4 DEF SyncInv, SyncTypes
    <3>3. locked'[r]
      BY <2>4 DEF SyncInv, SyncTypes
    <3>4. \A d \in Cpus : main[d].holds # r
      BY <1>6 DEF SyncInv, Owned
    <3>5. main[c].holds \notin Resources
      BY <1>3, SyncAssumption
    <3> QED BY <3>1, <3>2, <3>3, <3>4, <3>5 DEF SyncInv, Owned
  <2> QED BY <1>1, <1>2, <1>4, <2>2, <2>3, <2>4, <2>5, <2>6, FlagStep
<1> QED BY <1>5, <1>6

LEMMA UnlockKeeps ==
  ASSUME SyncInv, NEW c \in Cpus, ReleaseSpinLock(c)
  PROVE  SyncInv'
<1>1. /\ InMain(c) /\ main[c].at = "unlock" /\ level[c] = APC
      /\ MainOK(level[c], flag[c], <<>>, main[c])
  BY MainIs DEF ReleaseSpinLock
<1>2. PICK b \in BOOLEAN : b = main[c].saved
  BY SameAt DEF MainTypes
<1>3. PICK m \in MainTypes :
        m = [main[c] EXCEPT !.at = "rest", !.want = NoResource, !.saved = FALSE]
  BY SameAt DEF MainTypes
<1>4. /\ m.at = "rest" /\ m.old = main[c].old /\ m.holds = main[c].holds
      /\ m.off = main[c].off /\ m.leaked = main[c].leaked
  BY <1>3, SameAt DEF MainTypes
<1>5. m.old = APC /\ (m.off /\ ~m.leaked => ~b)
  BY <1>1, <1>2, <1>4 DEF MainOK
<1>6. /\ flag' = [flag EXCEPT ![c] = b] /\ Go(c, m) /\ UNCHANGED <<level, irr, isr, frames, locked>>
  BY <1>2, <1>3 DEF ReleaseSpinLock, SavedFlag
<1>7. Owned' /\ locked' \in [Resources -> BOOLEAN]
  BY <1>4, <1>6, OwnedKept DEF Go, SyncInv, SyncTypes
<1> QED BY <1>1, <1>4, <1>5, <1>6, <1>7, FlagStep DEF LockStates

LEMMA ReleaseResourceKeeps ==
  ASSUME SyncInv, NEW c \in Cpus, ReleaseResource(c)
  PROVE  SyncInv'
<1>1. /\ InMain(c) /\ main[c].at = "rest" /\ level[c] = APC /\ main[c].old = APC
      /\ main[c].holds \in Resources
  BY MainIs, SameAt DEF ReleaseResource, MainOK, MainTypes
<1>2. PICK m \in MainTypes : m = [main[c] EXCEPT !.at = "put"]
  BY SameAt DEF MainTypes
<1>3. m.at = "put" /\ m.old = APC /\ m.holds = main[c].holds
  BY <1>1, <1>2, SameAt DEF MainTypes
<1>4. /\ flag' = [flag EXCEPT ![c] = FALSE] /\ Go(c, m)
      /\ UNCHANGED <<level, irr, isr, frames, locked>>
  BY <1>2 DEF ReleaseResource
<1>5. Owned' /\ locked' \in [Resources -> BOOLEAN]
  BY <1>3, <1>4, OwnedKept DEF Go, SyncInv, SyncTypes
<1> QED BY <1>1, <1>3, <1>4, <1>5, FlagStep

LEMMA FinishKeeps ==
  ASSUME SyncInv, NEW c \in Cpus, FinishRelease(c)
  PROVE  SyncInv'
<1>1. /\ InMain(c) /\ main[c].at = "clear" /\ level[c] = APC
      /\ MainOK(level[c], flag[c], <<>>, main[c])
  BY MainIs DEF FinishRelease
<1>2. PICK r \in Resources : r = main[c].holds
  BY <1>1 DEF MainOK
<1>3. PICK b \in BOOLEAN : b = main[c].off
  BY SameAt DEF MainTypes
<1>4. PICK m \in MainTypes :
        m = [main[c] EXCEPT !.at = "rest", !.holds = NoResource, !.leaked = b]
  BY SameAt DEF MainTypes
<1>5. m.at = "rest" /\ m.old = main[c].old /\ m.holds = NoResource /\ m.off = b /\ m.leaked = b
  BY <1>3, <1>4, SameAt DEF MainTypes
<1>6. m.old = APC /\ ~(m.off /\ ~m.leaked)
  BY <1>1, <1>5 DEF MainOK
<1>7. /\ flag' = [flag EXCEPT ![c] = TRUE] /\ Go(c, m) /\ UNCHANGED <<level, irr, isr, frames>>
      /\ locked' = [locked EXCEPT ![r] = FALSE]
  BY <1>2, <1>3, <1>4 DEF FinishRelease
<1>8. locked' \in [Resources -> BOOLEAN]
  BY <1>7 DEF SyncInv, SyncTypes
<1>9. Owned'
  <2>1. \A d \in Cpus : main'[d].holds = IF d = c THEN NoResource ELSE main[d].holds
    BY <1>5, <1>7 DEF Go, SyncInv, SyncTypes
  <2>2. \A q \in Resources : q # r => (locked'[q] <=> locked[q])
    BY <1>7 DEF SyncInv, SyncTypes
  <2>3. ~locked'[r]
    BY <1>7 DEF SyncInv, SyncTypes
  <2>4. \A d \in Cpus : main[d].holds = r => d = c
    BY <1>2 DEF SyncInv, Owned
  <2>5. NoResource \notin Resources
    BY SyncAssumption
  <2> QED BY <1>2, <2>1, <2>2, <2>3, <2>4, <2>5 DEF SyncInv, Owned
<1> QED BY <1>1, <1>5, <1>6, <1>7, <1>8, <1>9, FlagStep DEF LockStates

LEMMA SyncIdle == SyncInv /\ UNCHANGED <<level, flag, irr, isr, frames, main, locked>> => SyncInv'
BY DEF SyncInv, SyncTypes, Owned

LEMMA SyncStep == SyncInv /\ SyncNext => SyncInv'
<1> SUFFICES ASSUME SyncInv, SyncNext PROVE SyncInv'
  OBVIOUS
<1>1. ASSUME NEW c \in Cpus, InterruptStep(c) PROVE SyncInv'
  <2>1. "clock" \in Vectors /\ "error" \in Vectors
    BY DEF Vectors
  <2> QED BY <1>1, <2>1, RequestKeeps, DispatchKeeps, BeginKeeps, ProfileKeeps, HandleKeeps,
             EndKeeps, ErrorKeeps DEF InterruptStep
<1>2. ASSUME NEW c \in Cpus, ResourceStep(c) PROVE SyncInv'
  BY <1>2, AcquireResourceKeeps, SpinKeeps, SearchKeeps, UnlockKeeps, ReleaseResourceKeeps,
     FinishKeeps DEF ResourceStep
<1>3. ASSUME NEW c \in Cpus, LevelStep(c) PROVE SyncInv'
  BY <1>3, RaiseKeeps, LowerKeeps, ClearFlagKeeps, SetFlagKeeps DEF LevelStep
<1>4. ASSUME StartProfileInterrupt \/ StopProfileInterrupt PROVE SyncInv'
  BY <1>4, SyncIdle DEF StartProfileInterrupt, StopProfileInterrupt
<1> QED BY <1>1, <1>2, <1>3, <1>4 DEF SyncNext

LEMMA SyncStart == SyncInit => SyncInv
<1> SUFFICES ASSUME SyncInit PROVE SyncInv
  OBVIOUS
<1>1. Resting \in MainTypes /\ APC \in Nat
  BY DEF Resting, MainTypes, APC
<1>2. SyncTypes
  BY <1>1 DEF SyncInit, SyncTypes
<1>3. MainOK(APC, TRUE, <<>>, Resting)
  BY DEF MainOK, Resting, Base, APC, LockStates
<1>4. CpuOK(APC, TRUE, {}, <<>>, Resting)
  BY <1>3 DEF CpuOK, StackOK, Unhandled
<1>5. \A c \in Cpus : CpuOK(level[c], flag[c], isr[c], frames[c], main[c])
  BY <1>4 DEF SyncInit
<1>6. Resting.holds = NoResource
  BY DEF Resting
<1>7. Owned
  BY <1>6, SyncAssumption DEF SyncInit, Owned
<1> QED BY <1>2, <1>5, <1>7 DEF SyncInv

-----------------------------------------------------------------------------
(* What the invariant says of the handlers and of the resources.           *)

LEMMA HandlersFollow == SyncInv => HandlersNest
<1> SUFFICES ASSUME SyncInv, NEW c \in Cpus
             PROVE  /\ LevelUnder(c, 1) = main[c].old \/ main[c].at = "raised"
                    /\ \A i \in DOMAIN frames[c] :
                         /\ frames[c][i].old < Class[frames[c][i].vector]
                         /\ frames[c][i].at # "enter" => LevelUnder(c, i + 1) = CLOCK
  BY DEF HandlersNest
<1>1. PICK l \in Nat : l = level[c]
  BY SameAt
<1>2. StackOK(l, flag[c], isr[c], frames[c]) /\ MainOK(l, flag[c], frames[c], main[c])
  BY <1>1, SameAt
<1>3. (IF frames[c] = <<>> THEN l ELSE frames[c][1].old) = main[c].old \/ main[c].at = "raised"
  BY <1>2 DEF MainOK, Base
<1>4. ASSUME NEW k \in Frame, ClockVector(k), k.old < CLOCK PROVE k.old < Class[k.vector]
  BY <1>4, Classed DEF ClockVector, CLOCK
<1>5. CASE frames[c] = <<>>
  BY <1>1, <1>3, <1>5, Sequences12 DEF LevelUnder
<1>6. ASSUME NEW k \in Frame, frames[c] = <<k>>, k.old < Class[k.vector],
             k.at # "enter" => l = CLOCK
      PROVE  /\ LevelUnder(c, 1) = main[c].old \/ main[c].at = "raised"
             /\ \A i \in DOMAIN frames[c] :
                  /\ frames[c][i].old < Class[frames[c][i].vector]
                  /\ frames[c][i].at # "enter" => LevelUnder(c, i + 1) = CLOCK
  <2>1. Len(frames[c]) = 1 /\ frames[c][1] = k /\ frames[c] # <<>> /\ DOMAIN frames[c] = {1}
    BY <1>6
  <2>2. LevelUnder(c, 1) = k.old /\ LevelUnder(c, 1 + 1) = l
    BY <1>1, <2>1 DEF LevelUnder
  <2> QED BY <1>3, <1>6, <2>1, <2>2
<1>7. ASSUME NEW k \in Frame, NEW e \in Frame, FailingOver(l, flag[c], isr[c], frames[c], k, e)
      PROVE  /\ LevelUnder(c, 1) = main[c].old \/ main[c].at = "raised"
             /\ \A i \in DOMAIN frames[c] :
                  /\ frames[c][i].old < Class[frames[c][i].vector]
                  /\ frames[c][i].at # "enter" => LevelUnder(c, i + 1) = CLOCK
  <2>1. /\ frames[c] = <<k, e>> /\ k.old < Class[k.vector] /\ e.old < Class[e.vector]
        /\ e.at = "enter" /\ e.old = CLOCK
    BY <1>4, <1>7, Classed DEF FailingOver, Begun, ErrorFrame
  <2>2. /\ Len(frames[c]) = 2 /\ frames[c][1] = k /\ frames[c][2] = e /\ frames[c] # <<>>
        /\ DOMAIN frames[c] = {1, 2}
    BY <2>1
  <2>3. LevelUnder(c, 1) = k.old /\ LevelUnder(c, 1 + 1) = CLOCK
    BY <2>1, <2>2 DEF LevelUnder
  <2> QED BY <1>3, <2>1, <2>2, <2>3
<1>8. ASSUME NEW k \in Frame, Entering(l, flag[c], isr[c], frames[c], k)
      PROVE  frames[c] = <<k>> /\ k.old < Class[k.vector] /\ k.at = "enter"
  BY <1>4, <1>8 DEF Entering
<1>9. ASSUME NEW k \in Frame, Serving(l, flag[c], isr[c], frames[c], k)
      PROVE  frames[c] = <<k>> /\ k.old < Class[k.vector] /\ l = CLOCK
  BY <1>4, <1>9 DEF Serving, Begun
<1>10. ASSUME NEW e \in Frame, Failing(l, flag[c], isr[c], frames[c], e)
       PROVE  frames[c] = <<e>> /\ e.old < Class[e.vector] /\ e.at = "enter"
  BY <1>10, Classed DEF Failing, ErrorFrame
<1>11. CASE \E k \in Frame : \/ Entering(l, flag[c], isr[c], frames[c], k)
                             \/ Serving(l, flag[c], isr[c], frames[c], k)
                             \/ Failing(l, flag[c], isr[c], frames[c], k)
  <2>1. PICK k \in Frame : \/ Entering(l, flag[c], isr[c], frames[c], k)
                           \/ Serving(l, flag[c], isr[c], frames[c], k)
                           \/ Failing(l, flag[c], isr[c], frames[c], k)
    BY <1>11
  <2>2. frames[c] = <<k>> /\ k.old < Class[k.vector] /\ (k.at # "enter" => l = CLOCK)
    BY <1>8, <1>9, <1>10, <2>1
  <2> QED BY <1>6, <2>2
<1> QED BY <1>2, <1>5, <1>7, <1>11 DEF StackOK, Unhandled

LEMMA ServiceFollows == SyncInv => ServiceMatchesHandlers
<1> SUFFICES ASSUME SyncInv, NEW c \in Cpus
             PROVE  isr[c] = {frames[c][i].vector : i \in {j \in DOMAIN frames[c] : ~frames[c][j].acked}}
  BY DEF ServiceMatchesHandlers
<1>1. StackOK(level[c], flag[c], isr[c], frames[c])
  BY SameAt
<1>2. CASE Unhandled(isr[c], frames[c])
  <2>1. isr[c] = {} /\ DOMAIN frames[c] = {}
    BY <1>2 DEF Unhandled
  <2> QED BY <2>1
<1>3. ASSUME NEW k \in Frame, frames[c] = <<k>>, isr[c] = InService(k)
      PROVE  isr[c] = {frames[c][i].vector : i \in {j \in DOMAIN frames[c] : ~frames[c][j].acked}}
  <2>1. DOMAIN frames[c] = {1} /\ frames[c][1] = k
    BY <1>3
  <2>2. CASE k.acked
    BY <1>3, <2>1, <2>2 DEF InService
  <2>3. CASE ~k.acked
    <3>1. {j \in DOMAIN frames[c] : ~frames[c][j].acked} = {1}
      BY <2>1, <2>3
    <3> QED BY <1>3, <2>1, <2>3, <3>1 DEF InService
  <2> QED BY <2>2, <2>3
<1>4. ASSUME NEW k \in Frame, NEW e \in Frame,
             FailingOver(level[c], flag[c], isr[c], frames[c], k, e)
      PROVE  isr[c] = {frames[c][i].vector : i \in {j \in DOMAIN frames[c] : ~frames[c][j].acked}}
  <2>1. frames[c] = <<k, e>> /\ isr[c] = InService(k) \cup {"error"} /\ ~e.acked /\ e.vector = "error"
    BY <1>4 DEF FailingOver, ErrorFrame
  <2>2. DOMAIN frames[c] = {1, 2} /\ frames[c][1] = k /\ frames[c][2] = e
    BY <2>1
  <2>3. CASE k.acked
    <3>1. {j \in DOMAIN frames[c] : ~frames[c][j].acked} = {2}
      BY <2>1, <2>2, <2>3
    <3> QED BY <2>1, <2>2, <2>3, <3>1 DEF InService
  <2>4. CASE ~k.acked
    <3>1. {j \in DOMAIN frames[c] : ~frames[c][j].acked} = {1, 2}
      BY <2>1, <2>2, <2>4
    <3> QED BY <2>1, <2>2, <2>4, <3>1 DEF InService
  <2> QED BY <2>3, <2>4
<1>5. ASSUME NEW k \in Frame, \/ Entering(level[c], flag[c], isr[c], frames[c], k)
                              \/ Serving(level[c], flag[c], isr[c], frames[c], k)
                              \/ Failing(level[c], flag[c], isr[c], frames[c], k)
      PROVE  frames[c] = <<k>> /\ isr[c] = InService(k)
  BY <1>5 DEF Entering, Serving, Failing, ErrorFrame, InService
<1> QED BY <1>1, <1>2, <1>3, <1>4, <1>5 DEF StackOK

LEMMA ResourcesFollow == SyncInv => ResourcesSafe
<1> SUFFICES ASSUME SyncInv PROVE ResourcesSafe
  OBVIOUS
<1>1. \A c \in Cpus : MainOK(level[c], flag[c], frames[c], main[c])
  BY SameAt
<1>2. LockNeverInterrupted
  BY <1>1 DEF LockNeverInterrupted, MainOK, LockStates, InMain
<1>3. InterruptsStayDisabled
  BY <1>1 DEF InterruptsStayDisabled, MainOK
<1>4. ResourcesExclusive
  <2>1. ASSUME NEW r \in Resources
        PROVE  Cardinality({c \in Cpus : main[c].holds = r}) = (IF locked[r] THEN 1 ELSE 0)
    <3>1. CASE locked[r]
      <4>1. PICK c \in Cpus : main[c].holds = r
        BY <3>1 DEF SyncInv, Owned
      <4>2. {d \in Cpus : main[d].holds = r} = {c}
        BY <4>1 DEF SyncInv, Owned
      <4> QED BY <3>1, <4>2, FS_Singleton
    <3>2. CASE ~locked[r]
      <4>1. {c \in Cpus : main[c].holds = r} = {}
        BY <3>2 DEF SyncInv, Owned
      <4> QED BY <3>2, <4>1, FS_EmptySet
    <3> QED BY <3>1, <3>2
  <2> QED BY <2>1 DEF ResourcesExclusive
<1> QED BY <1>2, <1>3, <1>4 DEF ResourcesSafe

LEMMA SyncInvSound == SyncInv => SyncSound
BY HandlersFollow, ServiceFollows, ResourcesFollow DEF SyncSound, InterruptsNest

(* Handlers nest at rising levels and acknowledge what they handle, nobody *)
(* waits for the resource lock where it can be interrupted, resources have *)
(* one owner and interrupts stay disabled for those who disabled them.     *)
THEOREM SyncHolds == SyncSpec => []SyncSound
<1>1. SyncInv /\ [SyncNext]_syncVars => SyncInv'
  BY SyncStep, SyncIdle DEF syncVars
<1> QED BY <1>1, SyncStart, SyncInvSound, PTL DEF SyncSpec

-----------------------------------------------------------------------------
(* Rundown protection.                                                     *)

RundownTypes ==
  /\ word \in Nat
  /\ user \in [Users -> [at : {"out", "acquiring", "in", "releasing"}, current : Nat]]

(* NoWaitBlock is inductive only with the count: a thread that begins a    *)
(* release holds a reference, so the word it reads is not active.          *)
RundownInv == RundownTypes /\ ReferencesCounted /\ NoWaitBlock

(* Who holds a reference when a thread moves.                              *)
LEMMA HoldersMove ==
  ASSUME RundownTypes, NEW u \in Users, NEW at, NEW n, Move(u, at, n)
  PROVE  Holders' = IF at \in {"in", "releasing"} THEN Holders \cup {u} ELSE Holders \ {u}
BY DEF Holders, Move, RundownTypes

(* The holders are finitely many, as the threads are.                      *)
LEMMA HoldersFinite ==
  /\ IsFiniteSet(Holders)
  /\ Cardinality(Holders) \in Nat
  /\ Holders = {} <=> Cardinality(Holders) = 0
<1>1. IsFiniteSet(Holders)
  BY UsersAssumption, FS_Subset DEF Holders
<1> QED BY <1>1, FS_CardinalityType, FS_EmptySet

(* One holder more, or less.                                               *)
LEMMA HolderCount ==
  ASSUME NEW u
  PROVE  /\ u \notin Holders => Cardinality(Holders \cup {u}) = Cardinality(Holders) + 1
         /\ u \in Holders => Cardinality(Holders \ {u}) = Cardinality(Holders) - 1
BY HoldersFinite, FS_AddElement, FS_RemoveElement

LEMMA RundownStart == RundownInit => RundownInv
<1> SUFFICES ASSUME RundownInit PROVE RundownInv
  OBVIOUS
<1>1. RundownTypes /\ word = 0 /\ Holders = {}
  BY DEF RundownInit, RundownTypes, Done, Holders
<1>2. ~IsActive(word)
  BY <1>1 DEF IsActive
<1>3. ReferencesCounted
  BY <1>1, <1>2, HoldersFinite DEF ReferencesCounted
<1>4. NoWaitBlock
  BY DEF RundownInit, NoWaitBlock, Done
<1> QED BY <1>1, <1>3, <1>4 DEF RundownInv

(* Reading the word moves the thread and changes nobody's references.      *)
LEMMA ReadKeeps ==
  ASSUME RundownInv, NEW u \in Users, NEW at \in {"out", "acquiring", "in", "releasing"},
         NEW n \in Nat, Move(u, at, n), UNCHANGED word, Holders' = Holders,
         at = "releasing" => ~IsActive(n)
  PROVE  RundownInv'
<1>1. RundownTypes'
  BY DEF RundownInv, RundownTypes, Move
<1>2. ReferencesCounted'
  BY DEF RundownInv, ReferencesCounted
<1>3. NoWaitBlock'
  BY DEF RundownInv, RundownTypes, NoWaitBlock, Move
<1> QED BY <1>1, <1>2, <1>3 DEF RundownInv

(* Adding or taking a reference leaves the lowest bit alone.               *)
LEMMA Parity ==
  ASSUME NEW n \in Nat
  PROVE  /\ IsActive(n + 2) <=> IsActive(n)
         /\ n >= 2 => (IsActive(n - 2) <=> IsActive(n))
BY DEF IsActive

LEMMA AcquireKeeps ==
  ASSUME RundownInv, NEW u \in Users, AcquireProtection(u)
  PROVE  RundownInv'
<1>1. RundownTypes /\ user[u].at = "acquiring" /\ user[u].current \in Nat /\ u \notin Holders
  BY DEF RundownInv, RundownTypes, AcquireProtection, Holders
<1>2. CASE IsActive(user[u].current)
  <2>1. Move(u, "out", 0) /\ UNCHANGED word
    BY <1>2 DEF AcquireProtection
  <2>2. Holders' = Holders
    BY <1>1, <2>1, HoldersMove
  <2> QED BY <2>1, <2>2, ReadKeeps
<1>3. CASE ~IsActive(user[u].current) /\ word # user[u].current
  <2>1. Move(u, "acquiring", word) /\ UNCHANGED word
    BY <1>3 DEF AcquireProtection
  <2>2. Holders' = Holders
    BY <1>1, <2>1, HoldersMove
  <2> QED BY <1>1, <2>1, <2>2, ReadKeeps DEF RundownTypes
<1>4. CASE ~IsActive(user[u].current) /\ word = user[u].current
  <2>1. word' = word + 2 /\ Move(u, "in", 0) /\ ~IsActive(word) /\ word \in Nat
    BY <1>1, <1>4 DEF AcquireProtection
  <2>2. Holders' = Holders \cup {u}
    BY <1>1, <2>1, HoldersMove
  <2>3. word = 2 * Cardinality(Holders) /\ NoWaitBlock
    BY <2>1 DEF RundownInv, ReferencesCounted
  <2>4. word' = 2 * Cardinality(Holders')
    BY <1>1, <2>1, <2>2, <2>3, HolderCount, HoldersFinite
  <2>5. ~IsActive(word')
    BY <2>1, Parity
  <2>6. ReferencesCounted'
    BY <2>4, <2>5 DEF ReferencesCounted
  <2>7. RundownTypes'
    BY <1>1, <2>1 DEF RundownTypes, Move
  <2>8. NoWaitBlock'
    BY <1>1, <2>1, <2>3 DEF RundownTypes, NoWaitBlock, Move
  <2> QED BY <2>6, <2>7, <2>8 DEF RundownInv
<1> QED BY <1>2, <1>3, <1>4

LEMMA ReleaseKeeps ==
  ASSUME RundownInv, NEW u \in Users, ReleaseProtection(u)
  PROVE  RundownInv'
<1>1. RundownTypes /\ user[u].at = "releasing" /\ user[u].current \in Nat /\ u \in Holders
  BY DEF RundownInv, RundownTypes, ReleaseProtection, Holders
<1>2. Holders # {} /\ ~IsActive(word) /\ word = 2 * Cardinality(Holders) /\ NoWaitBlock
  BY <1>1 DEF RundownInv, ReferencesCounted
<1>3. CASE word # user[u].current
  <2>1. Move(u, "releasing", word) /\ UNCHANGED word
    BY <1>3 DEF ReleaseProtection
  <2>2. Holders' = Holders
    BY <1>1, <2>1, HoldersMove
  <2> QED BY <1>1, <1>2, <2>1, <2>2, ReadKeeps DEF RundownTypes
<1>4. CASE word = user[u].current
  <2>1. word' = word - 2 /\ Move(u, "out", 0) /\ word \in Nat
    BY <1>1, <1>4 DEF ReleaseProtection
  <2>2. Holders' = Holders \ {u}
    BY <1>1, <2>1, HoldersMove
  <2>3. word >= 2
    BY <1>2, HoldersFinite
  <2>4. word' = 2 * Cardinality(Holders')
    BY <1>1, <1>2, <2>1, <2>2, HolderCount, HoldersFinite
  <2>5. ~IsActive(word')
    BY <1>2, <2>1, <2>3, Parity
  <2>6. ReferencesCounted'
    BY <2>4, <2>5 DEF ReferencesCounted
  <2>7. RundownTypes'
    BY <1>1, <2>1, <2>3 DEF RundownTypes, Move
  <2>8. NoWaitBlock'
    BY <1>1, <1>2, <2>1 DEF RundownTypes, NoWaitBlock, Move
  <2> QED BY <2>6, <2>7, <2>8 DEF RundownInv
<1> QED BY <1>3, <1>4

LEMMA RundownStep == RundownInv /\ RundownNext => RundownInv'
<1> SUFFICES ASSUME RundownInv, RundownNext PROVE RundownInv'
  OBVIOUS
<1>1. RundownTypes /\ ReferencesCounted /\ NoWaitBlock
  BY DEF RundownInv
<1>2. ASSUME NEW u \in Users, BeginAcquire(u) PROVE RundownInv'
  <2>1. Holders' = Holders
    BY <1>1, <1>2, HoldersMove DEF BeginAcquire, Holders
  <2> QED BY <1>1, <1>2, <2>1, ReadKeeps DEF BeginAcquire, RundownTypes
<1>3. ASSUME NEW u \in Users, BeginRelease(u) PROVE RundownInv'
  <2>1. u \in Holders
    BY <1>3 DEF BeginRelease, Holders
  <2>2. Holders' = Holders
    BY <1>1, <1>3, <2>1, HoldersMove DEF BeginRelease
  <2>3. ~IsActive(word)
    BY <1>1, <2>1 DEF ReferencesCounted
  <2> QED BY <1>1, <1>3, <2>2, <2>3, ReadKeeps DEF BeginRelease, RundownTypes
<1>4. ASSUME CompleteProtection PROVE RundownInv'
  <2>1. word' = 1 /\ Holders' = {} /\ UNCHANGED user
    BY <1>4 DEF CompleteProtection, Active, Holders
  <2>2. ReferencesCounted'
    BY <2>1 DEF ReferencesCounted, IsActive, Active
  <2>3. RundownTypes' /\ NoWaitBlock'
    BY <1>1, <2>1 DEF RundownTypes, NoWaitBlock
  <2> QED BY <2>2, <2>3 DEF RundownInv
<1>5. ASSUME ReInitializeProtection PROVE RundownInv'
  <2>1. Holders = {} /\ word' = 0 /\ UNCHANGED user
    BY <1>1, <1>5 DEF ReInitializeProtection, ReferencesCounted
  <2>2. Holders' = {} /\ Cardinality(Holders') = 0
    BY <2>1, FS_EmptySet DEF Holders
  <2>3. ReferencesCounted'
    BY <2>1, <2>2 DEF ReferencesCounted, IsActive
  <2>4. RundownTypes' /\ NoWaitBlock'
    BY <1>1, <2>1 DEF RundownTypes, NoWaitBlock
  <2> QED BY <2>3, <2>4 DEF RundownInv
<1> QED BY <1>2, <1>3, <1>4, <1>5, AcquireKeeps, ReleaseKeeps DEF RundownNext

LEMMA RundownIdle == RundownInv /\ UNCHANGED rundownVars => RundownInv'
BY DEF rundownVars, RundownInv, RundownTypes, ReferencesCounted, NoWaitBlock, Holders

(* The references of rundown protection stay exact.                        *)
THEOREM RundownCounts == RundownSpec => []RundownSound
<1>1. RundownInv /\ [RundownNext]_rundownVars => RundownInv'
  BY RundownStep, RundownIdle
<1>2. RundownInv => RundownSound
  BY DEF RundownInv, RundownSound
<1> QED BY <1>1, <1>2, RundownStart, PTL DEF RundownSpec

-----------------------------------------------------------------------------
(* The interlocked list.                                                   *)

EntryRefs == Entries \cup {NoEntry}
LinkMaps == [Entries -> EntryRefs]

(* Chain, for any links.                                                   *)
ClosedUnder(nx, S) == \A f \in S \ {NoEntry} : nx[f] \in S
Reach(nx, e) == {f \in Entries : \A S \in SUBSET EntryRefs : e \in S /\ ClosedUnder(nx, S) => f \in S}

(* An entry leads to itself, and no link leaves what it leads to.          *)
LEMMA ReachClosed ==
  ASSUME NEW nx \in LinkMaps, NEW e \in EntryRefs
  PROVE  /\ ClosedUnder(nx, Reach(nx, e) \cup {NoEntry})
         /\ e \in Reach(nx, e) \cup {NoEntry}
         /\ Reach(nx, e) \subseteq Entries
<1>2. ASSUME NEW f \in Reach(nx, e), nx[f] # NoEntry PROVE nx[f] \in Reach(nx, e)
  <2>1. f \in Entries /\ nx[f] \in Entries
    BY <1>2 DEF Reach, LinkMaps, EntryRefs
  <2>2. ASSUME NEW S \in SUBSET EntryRefs, e \in S, ClosedUnder(nx, S) PROVE nx[f] \in S
    <3>1. f \in S /\ f # NoEntry
      BY <2>1, <2>2, ListAssumption DEF Reach
    <3> QED BY <2>2, <3>1 DEF ClosedUnder
  <2> QED BY <2>1, <2>2 DEF Reach
<1>3. ClosedUnder(nx, Reach(nx, e) \cup {NoEntry})
  BY <1>2 DEF ClosedUnder
<1> QED BY <1>3 DEF Reach, EntryRefs

(* The chain is the least such set.                                        *)
LEMMA ReachLeast ==
  ASSUME NEW nx \in LinkMaps, NEW e \in EntryRefs, NEW S \in SUBSET EntryRefs, e \in S,
         ClosedUnder(nx, S)
  PROVE  Reach(nx, e) \subseteq S
BY DEF Reach

(* The end of the list leads nowhere.                                      *)
LEMMA ReachNothing ==
  ASSUME NEW nx \in LinkMaps
  PROVE  Reach(nx, NoEntry) = {}
<1>1. ClosedUnder(nx, {NoEntry}) /\ {NoEntry} \in SUBSET EntryRefs
  BY DEF ClosedUnder, EntryRefs
<1>2. Reach(nx, NoEntry) \subseteq {NoEntry}
  BY <1>1, ReachLeast DEF EntryRefs
<1>3. Reach(nx, NoEntry) \subseteq Entries
  BY DEF Reach
<1> QED BY <1>2, <1>3, ListAssumption

(* Where an entry of a chain leads to is in the chain.                     *)
LEMMA ReachOn ==
  ASSUME NEW nx \in LinkMaps, NEW e \in EntryRefs, NEW f \in Reach(nx, e)
  PROVE  f \in Entries /\ nx[f] \in EntryRefs /\ Reach(nx, nx[f]) \subseteq Reach(nx, e)
<1>1. f \in Entries /\ nx[f] \in EntryRefs /\ Reach(nx, e) \cup {NoEntry} \in SUBSET EntryRefs
  BY ReachClosed DEF LinkMaps, EntryRefs
<1>2. nx[f] \in Reach(nx, e) \cup {NoEntry}
  BY <1>1, ReachClosed, ListAssumption DEF ClosedUnder
<1>3. Reach(nx, nx[f]) \subseteq Reach(nx, e) \cup {NoEntry}
  <2>1. ClosedUnder(nx, Reach(nx, e) \cup {NoEntry})
    BY ReachClosed
  <2> QED BY <1>1, <1>2, <2>1, ReachLeast
<1>4. Reach(nx, nx[f]) \subseteq Entries
  BY <1>1, ReachClosed
<1> QED BY <1>1, <1>3, <1>4, ListAssumption

(* A chain is its first entry and the chain of its link.                   *)
LEMMA ReachFirst ==
  ASSUME NEW nx \in LinkMaps, NEW e \in Entries
  PROVE  Reach(nx, e) = {e} \cup Reach(nx, nx[e])
<1> DEFINE T == {e} \cup Reach(nx, nx[e]) \cup {NoEntry}
<1>1. e \in EntryRefs /\ nx[e] \in EntryRefs /\ e # NoEntry
  BY ListAssumption DEF EntryRefs, LinkMaps
<1>2. e \in Reach(nx, e)
  BY <1>1, ReachClosed
<1>3. Reach(nx, nx[e]) \subseteq Reach(nx, e)
  BY <1>1, <1>2, ReachOn
<1>4. ClosedUnder(nx, T) /\ T \in SUBSET EntryRefs
  BY <1>1, ReachClosed DEF ClosedUnder, EntryRefs
<1>5. Reach(nx, e) \subseteq T
  BY <1>1, <1>4, ReachLeast
<1>6. Reach(nx, e) \subseteq Entries
  BY <1>1, ReachClosed
<1> QED BY <1>2, <1>3, <1>5, <1>6, ListAssumption

(* A link that is not in the chain may change.                             *)
LEMMA ReachSame ==
  ASSUME NEW nx \in LinkMaps, NEW ny \in LinkMaps, NEW e \in EntryRefs,
         \A f \in Reach(nx, e) : ny[f] = nx[f]
  PROVE  Reach(ny, e) = Reach(nx, e)
<1>1. ClosedUnder(ny, Reach(nx, e) \cup {NoEntry})
  BY ReachClosed DEF ClosedUnder
<1>2. Reach(ny, e) \subseteq Reach(nx, e)
  <2>0. e \in Reach(nx, e) \cup {NoEntry} /\ Reach(nx, e) \cup {NoEntry} \in SUBSET EntryRefs
    BY ReachClosed DEF EntryRefs
  <2>1. Reach(ny, e) \subseteq Reach(nx, e) \cup {NoEntry}
    BY <1>1, <2>0, ReachLeast
  <2> QED BY <2>1, ReachClosed, ListAssumption
<1>3. Reach(nx, e) \subseteq Reach(ny, e)
  <2> DEFINE S == (Reach(ny, e) \cup {NoEntry}) \cap (Reach(nx, e) \cup {NoEntry})
  <2>1. e \in S /\ S \in SUBSET EntryRefs
    BY ReachClosed DEF EntryRefs
  <2>2. ClosedUnder(nx, S)
    <3>1. ASSUME NEW f \in S, f # NoEntry PROVE nx[f] \in S
      <4>1. f \in Reach(nx, e) /\ f \in Reach(ny, e)
        BY <3>1
      <4>2. nx[f] \in Reach(nx, e) \cup {NoEntry} /\ ny[f] \in Reach(ny, e) \cup {NoEntry}
        BY <3>1, <4>1, ReachClosed DEF ClosedUnder
      <4> QED BY <4>1, <4>2
    <3> QED BY <3>1 DEF ClosedUnder
  <2>3. Reach(nx, e) \subseteq S
    BY <2>1, <2>2, ReachLeast
  <2> QED BY <2>3, ReachClosed, ListAssumption
<1> QED BY <1>2, <1>3

-----------------------------------------------------------------------------

StepTypes == [at : {"ready", "push", "pop", "popping"}, entry : EntryRefs, first : EntryRefs, link : EntryRefs]

ListTypes ==
  /\ head \in EntryRefs
  /\ next \in LinkMaps
  /\ owner \in [Entries -> Pushers \cup {InList}]
  /\ step \in [Pushers -> StepTypes]
  /\ stale \in BOOLEAN

(* An entry that is being pushed belongs to the processor that pushes it,  *)
(* so its link, which a failed exchange has written, is no link of the     *)
(* list; and a pop has an entry to look at.                                *)
PushesOwned ==
  \A p \in Pushers : step[p].at = "push" =>
      step[p].entry \in Entries /\ owner[step[p].entry] = p
PopsAimed == \A p \in Pushers : step[p].at \in {"pop", "popping"} => step[p].first \in Entries

ListInv == ListTypes /\ PushesOwned /\ PopsAimed /\ EntriesAccounted

(* The books of the list, for any state of it.                             *)
ListExact(h, nx, own) ==
  /\ Reach(nx, h) = {e \in Entries : own[e] = InList}
  /\ \A e \in Reach(nx, h) : e \notin Reach(nx, nx[e])

LEMMA ChainIsReach ==
  /\ EntriesAccounted <=> (~stale => ListExact(head, next, owner))
  /\ EntriesAccounted' <=> (~stale' => ListExact(head', next', owner'))
<1>1. EntriesAccounted <=> (~stale => ListExact(head, next, owner))
  BY DEF EntriesAccounted, ListExact, Chain, Closed, Reach, ClosedUnder, EntryRefs
<1>2. EntriesAccounted' <=> (~stale' => ListExact(head', next', owner'))
  BY DEF EntriesAccounted, ListExact, Chain, Closed, Reach, ClosedUnder, EntryRefs
<1> QED BY <1>1, <1>2

(* An owner may write the link of its entry, ...                           *)
LEMMA WriteLink ==
  ASSUME NEW h \in EntryRefs, NEW nx \in LinkMaps, NEW own, ListExact(h, nx, own),
         NEW e \in Entries, own[e] # InList, NEW l \in EntryRefs
  PROVE  /\ [nx EXCEPT ![e] = l] \in LinkMaps
         /\ ListExact(h, [nx EXCEPT ![e] = l], own)
         /\ Reach([nx EXCEPT ![e] = l], h) = Reach(nx, h)
<1>1. PICK ny \in LinkMaps : ny = [nx EXCEPT ![e] = l]
  BY DEF LinkMaps
<1>2. e \notin Reach(nx, h)
  BY DEF ListExact
<1>3. \A f \in Reach(nx, h) : ny[f] = nx[f]
  BY <1>1, <1>2, ReachClosed DEF LinkMaps
<1>4. Reach(ny, h) = Reach(nx, h)
  BY <1>3, ReachSame
<1>5. ASSUME NEW f \in Reach(nx, h) PROVE Reach(ny, ny[f]) = Reach(nx, nx[f])
  <2>1. nx[f] \in EntryRefs /\ Reach(nx, nx[f]) \subseteq Reach(nx, h) /\ ny[f] = nx[f]
    BY <1>3, ReachOn
  <2> QED BY <1>3, <2>1, ReachSame
<1>6. ListExact(h, ny, own)
  BY <1>4, <1>5 DEF ListExact
<1> QED BY <1>1, <1>4, <1>6

(* ... and put it in front, ...                                            *)
LEMMA PushListed ==
  ASSUME NEW h \in EntryRefs, NEW nx \in LinkMaps, NEW own \in [Entries -> Pushers \cup {InList}],
         ListExact(h, nx, own), NEW e \in Entries, own[e] # InList
  PROVE  ListExact(e, [nx EXCEPT ![e] = h], [own EXCEPT ![e] = InList])
<1>1. PICK ny \in LinkMaps : ny = [nx EXCEPT ![e] = h]
  BY DEF LinkMaps
<1>2. ListExact(h, ny, own) /\ ny[e] = h
  BY <1>1, WriteLink DEF LinkMaps
<1>3. Reach(ny, e) = {e} \cup Reach(ny, h)
  BY <1>2, ReachFirst
<1>4. ListExact(e, ny, [own EXCEPT ![e] = InList])
  BY <1>2, <1>3 DEF ListExact
<1> QED BY <1>1, <1>4

(* ... and the first entry may be taken out for its link.                  *)
LEMMA PopListed ==
  ASSUME NEW h \in Entries, NEW nx \in LinkMaps, NEW own \in [Entries -> Pushers \cup {InList}],
         ListExact(h, nx, own), NEW p \in Pushers
  PROVE  ListExact(nx[h], nx, [own EXCEPT ![h] = p]) /\ own[h] = InList
<1>1. Reach(nx, h) = {h} \cup Reach(nx, nx[h])
  BY ReachFirst
<1>2. h \notin Reach(nx, nx[h])
  BY <1>1 DEF ListExact
<1> QED BY <1>1, <1>2, ListAssumption DEF ListExact

(* A flush leaves an empty list.                                           *)
LEMMA FlushListed ==
  ASSUME NEW h \in EntryRefs, NEW nx \in LinkMaps, NEW own \in [Entries -> Pushers \cup {InList}],
         ListExact(h, nx, own), NEW p \in Pushers
  PROVE  ListExact(NoEntry, nx, [e \in Entries |-> IF e \in Reach(nx, h) THEN p ELSE own[e]])
BY ReachNothing, ListAssumption DEF ListExact

LEMMA ListStart == ListInit => ListInv
<1> SUFFICES ASSUME ListInit PROVE ListInv
  OBVIOUS
<1>1. ListTypes
  BY ListAssumption DEF ListInit, ListTypes, EntryRefs, LinkMaps, StepTypes, Ready
<1>2. PushesOwned /\ PopsAimed
  BY DEF ListInit, PushesOwned, PopsAimed, Ready
<1>3. \A e \in Entries : owner[e] # InList
  BY ListAssumption DEF ListInit
<1>4. Reach(next, head) = {}
  BY <1>1, ReachNothing DEF ListInit, ListTypes
<1>5. ListExact(head, next, owner)
  BY <1>3, <1>4 DEF ListExact
<1> QED BY <1>1, <1>2, <1>5, ChainIsReach DEF ListInv

(* A processor that only reads moves nothing.                              *)
LEMMA ReaderKeeps ==
  ASSUME ListInv, NEW p \in Pushers, NEW r \in StepTypes, Advance(p, r),
         UNCHANGED <<head, next, owner, stale>>,
         r.at = "push" => r.entry \in Entries /\ owner[r.entry] = p,
         r.at \in {"pop", "popping"} => r.first \in Entries
  PROVE  ListInv'
<1>1. ListTypes'
  BY DEF ListInv, ListTypes, Advance
<1>2. PushesOwned' /\ PopsAimed'
  BY DEF ListInv, ListTypes, PushesOwned, PopsAimed, Advance
<1>3. EntriesAccounted'
  BY ChainIsReach DEF ListInv
<1> QED BY <1>1, <1>2, <1>3 DEF ListInv

(* A processor that gave entries to the list or took them from it, with    *)
(* nothing of another processor's touched.                                 *)
LEMMA WriterKeeps ==
  ASSUME ListInv, NEW p \in Pushers, Advance(p, Ready), ListTypes',
         \A e \in Entries : owner[e] \in Pushers \ {p} => owner'[e] = owner[e],
         EntriesAccounted'
  PROVE  ListInv'
<1>1. Ready.at = "ready"
  BY DEF Ready
<1>2. PushesOwned'
  <2>1. ASSUME NEW q \in Pushers, step'[q].at = "push"
        PROVE  step'[q].entry \in Entries /\ owner'[step'[q].entry] = q
    <3>1. q # p /\ step'[q] = step[q]
      BY <1>1, <2>1 DEF Advance, ListInv, ListTypes
    <3> QED BY <2>1, <3>1 DEF ListInv, PushesOwned
  <2> QED BY <2>1 DEF PushesOwned
<1>3. PopsAimed'
  BY <1>1 DEF ListInv, ListTypes, PopsAimed, Advance
<1> QED BY <1>2, <1>3 DEF ListInv

LEMMA PushKeeps ==
  ASSUME ListInv, ~stale, NEW p \in Pushers, PushEntrySingleList(p)
  PROVE  ListInv'
<1>1. PICK e \in Entries : e = step[p].entry /\ owner[e] = p
  BY DEF PushEntrySingleList, ListInv, PushesOwned
<1>2. ListTypes /\ step[p] \in StepTypes /\ step[p].at = "push"
  BY DEF PushEntrySingleList, ListInv, ListTypes
<1>3. owner[e] # InList
  BY <1>1, ListAssumption
<1>4. PICK f \in EntryRefs : f = step[p].first
  BY <1>2 DEF StepTypes
<1>5. next' = [next EXCEPT ![e] = f] /\ UNCHANGED stale
  BY <1>1, <1>4 DEF PushEntrySingleList
<1>6. ListExact(head, next, owner)
  BY ChainIsReach DEF ListInv
<1>7. next' \in LinkMaps
  BY <1>2, <1>5 DEF ListTypes, LinkMaps
<1>8. CASE head = f
  <2>1. head' = e /\ owner' = [owner EXCEPT ![e] = InList] /\ Advance(p, Ready)
    BY <1>1, <1>4, <1>8 DEF PushEntrySingleList
  <2>2. ListExact(head', next', owner')
    BY <1>2, <1>3, <1>5, <1>6, <1>8, <2>1, PushListed DEF ListTypes
  <2>3. ListTypes'
    BY <1>2, <1>5, <1>7, <2>1 DEF ListTypes, EntryRefs, Advance, Ready, StepTypes
  <2>4. \A x \in Entries : owner[x] \in Pushers \ {p} => owner'[x] = owner[x]
    BY <1>1, <1>2, <2>1 DEF ListTypes
  <2> QED BY <2>1, <2>2, <2>3, <2>4, ChainIsReach, WriterKeeps
<1>9. CASE head # f
  <2>1. PICK r \in StepTypes : r = [step[p] EXCEPT !.first = head]
    BY <1>2 DEF StepTypes, ListTypes
  <2>2. Advance(p, r) /\ UNCHANGED <<head, owner>>
    BY <1>4, <1>9, <2>1 DEF PushEntrySingleList
  <2>3. r.at = "push" /\ r.entry = e
    BY <1>1, <1>2, <2>1 DEF StepTypes
  <2>4. ListExact(head', next', owner')
    BY <1>2, <1>3, <1>5, <1>6, <2>2, WriteLink DEF ListTypes
  <2>5. EntriesAccounted'
    BY <2>4, ChainIsReach
  <2>6. ListTypes'
    BY <1>2, <1>5, <1>7, <2>2 DEF ListTypes, Advance
  <2>7. PushesOwned' /\ PopsAimed'
    BY <1>1, <1>2, <2>2, <2>3 DEF ListInv, ListTypes, PushesOwned, PopsAimed, Advance
  <2> QED BY <2>5, <2>6, <2>7 DEF ListInv
<1> QED BY <1>8, <1>9

LEMMA PopKeeps ==
  ASSUME ListInv, ~stale, NEW p \in Pushers, PopEntrySingleList(p)
  PROVE  ListInv'
<1>1. ListTypes /\ step[p] \in StepTypes /\ step[p].at = "popping" /\ step[p].first \in Entries
  BY DEF PopEntrySingleList, ListInv, ListTypes, PopsAimed
<1>2. PICK e \in Entries : e = step[p].first
  BY <1>1
<1>3. PICK l \in EntryRefs : l = step[p].link
  BY <1>1 DEF StepTypes
<1>4. UNCHANGED next
  BY DEF PopEntrySingleList
<1>5. CASE head = e
  <2>1. /\ head' = l /\ stale' = (stale \/ l # next[e])
        /\ owner' = [owner EXCEPT ![e] = p] /\ Advance(p, Ready)
    BY <1>2, <1>3, <1>5 DEF PopEntrySingleList
  <2>2. ListExact(e, next, owner)
    BY <1>5, ChainIsReach DEF ListInv
  <2>3. ListExact(next[e], next, owner') /\ owner[e] = InList
    BY <1>1, <2>1, <2>2, PopListed DEF ListTypes
  <2>4. EntriesAccounted'
    BY <1>4, <2>1, <2>3, ChainIsReach
  <2>5. ListTypes'
    BY <1>1, <1>4, <2>1 DEF ListTypes, Advance, Ready, StepTypes, EntryRefs
  <2>6. \A x \in Entries : owner[x] \in Pushers \ {p} => owner'[x] = owner[x]
    BY <1>1, <2>1, <2>3, ListAssumption DEF ListTypes
  <2> QED BY <2>1, <2>4, <2>5, <2>6, WriterKeeps
<1>6. CASE head # e
  <2>1. UNCHANGED <<head, owner, stale>>
    BY <1>2, <1>6 DEF PopEntrySingleList
  <2>2. CASE head = NoEntry
    <3>1. Advance(p, Ready) /\ Ready \in StepTypes /\ Ready.at = "ready"
      BY <1>2, <1>6, <2>2 DEF PopEntrySingleList, Ready, StepTypes, EntryRefs
    <3> QED BY <1>4, <2>1, <3>1, ReaderKeeps
  <2>3. CASE head # NoEntry
    <3>1. PICK r \in StepTypes : r = [Ready EXCEPT !.at = "pop", !.first = head]
      BY <1>1 DEF ListTypes, Ready, StepTypes, EntryRefs
    <3>2. Advance(p, r) /\ r.at = "pop" /\ r.first \in Entries
      BY <1>1, <1>2, <1>6, <2>3, <3>1 DEF PopEntrySingleList, Ready, ListTypes, EntryRefs
    <3> QED BY <1>4, <2>1, <3>2, ReaderKeeps
  <2> QED BY <2>2, <2>3
<1> QED BY <1>5, <1>6

LEMMA FlushKeeps ==
  ASSUME ListInv, ~stale, NEW p \in Pushers, FlushSingleList(p)
  PROVE  ListInv'
<1>1. ListTypes /\ ListExact(head, next, owner)
  BY ChainIsReach DEF ListInv
<1>2. Chain(head) = Reach(next, head)
  BY DEF Chain, Closed, Reach, ClosedUnder, EntryRefs
<1>3. /\ owner' = [e \in Entries |-> IF e \in Reach(next, head) THEN p ELSE owner[e]]
      /\ head' = NoEntry /\ UNCHANGED <<next, step, stale>>
  BY <1>2 DEF FlushSingleList
<1>4. ListExact(head', next', owner')
  BY <1>1, <1>3, FlushListed DEF ListTypes
<1>5. ListTypes'
  BY <1>1, <1>3 DEF ListTypes, EntryRefs
<1>6. \A e \in Entries : owner[e] \in Pushers => owner'[e] = owner[e]
  BY <1>1, <1>3, ListAssumption DEF ListExact
<1>7. PushesOwned' /\ PopsAimed'
  BY <1>3, <1>6 DEF ListInv, PushesOwned, PopsAimed
<1> QED BY <1>4, <1>5, <1>7, ChainIsReach DEF ListInv

LEMMA ListStep == ListInv /\ ListNext => ListInv'
<1> SUFFICES ASSUME ListInv, ListNext PROVE ListInv'
  OBVIOUS
<1>1. ListTypes /\ ~stale
  BY DEF ListInv, ListNext
<1>2. ASSUME NEW p \in Pushers, NEW e \in Entries, BeginPush(p, e) PROVE ListInv'
  <2>1. PICK r \in StepTypes : r = [Ready EXCEPT !.at = "push", !.entry = e, !.first = head]
    BY <1>1 DEF ListTypes, Ready, StepTypes, EntryRefs
  <2>2. Advance(p, r) /\ r.at = "push" /\ r.entry = e /\ owner[e] = p
    BY <1>2, <2>1 DEF BeginPush, Ready
  <2> QED BY <1>2, <2>2, ReaderKeeps DEF BeginPush
<1>3. ASSUME NEW p \in Pushers, BeginPop(p) PROVE ListInv'
  <2>1. PICK r \in StepTypes : r = [Ready EXCEPT !.at = "pop", !.first = head]
    BY <1>1 DEF ListTypes, Ready, StepTypes, EntryRefs
  <2>2. Advance(p, r) /\ r.at = "pop" /\ r.first \in Entries
    BY <1>1, <1>3, <2>1 DEF BeginPop, Ready, ListTypes, EntryRefs
  <2> QED BY <1>3, <2>2, ReaderKeeps DEF BeginPop
<1>4. ASSUME NEW p \in Pushers, ReadLink(p) PROVE ListInv'
  <2>1. step[p] \in StepTypes /\ step[p].first \in Entries
    BY <1>1, <1>4 DEF ListTypes, ReadLink, ListInv, PopsAimed
  <2>2. next[step[p].first] \in EntryRefs
    BY <1>1, <2>1 DEF ListTypes, LinkMaps
  <2>3. PICK r \in StepTypes : r = [step[p] EXCEPT !.at = "popping", !.link = next[step[p].first]]
    BY <2>1, <2>2 DEF StepTypes
  <2>4. Advance(p, r) /\ r.at = "popping" /\ r.first \in Entries
    BY <1>4, <2>1, <2>3 DEF ReadLink, StepTypes
  <2> QED BY <1>4, <2>4, ReaderKeeps DEF ReadLink
<1> QED BY <1>1, <1>2, <1>3, <1>4, PushKeeps, PopKeeps, FlushKeeps DEF ListNext

LEMMA ListIdle == ListInv /\ UNCHANGED listVars => ListInv'
<1> SUFFICES ASSUME ListInv, UNCHANGED listVars PROVE ListInv'
  OBVIOUS
<1>1. EntriesAccounted'
  BY ChainIsReach DEF ListInv, listVars
<1> QED BY <1>1 DEF ListInv, ListTypes, PushesOwned, PopsAimed, listVars

(* No entry of the interlocked list is lost or handed out twice, until an  *)
(* exchange is fooled by an entry that came back.                          *)
THEOREM ListAccounts == ListSpec => []EntriesAccounted
<1>1. ListInv /\ [ListNext]_listVars => ListInv'
  BY ListStep, ListIdle
<1>2. ListInv => EntriesAccounted
  BY DEF ListInv
<1> QED BY <1>1, <1>2, ListStart, PTL DEF ListSpec

-----------------------------------------------------------------------------
(* The start of the processors.                                            *)

StructureRefs == Structures \cup {NoStructures}
BootTypes == [at : {"next", "fill", "wait", "done"}, index : Nat \ {0}, number : Nat,
              structures : StructureRefs]
BlockTypes == [stack : StructureRefs, structures : StructureRefs, started : BOOLEAN]
ApTypes == [at : {"off", "called", "trampoline", "initialized", "activating", "active", "running"},
            stack : StructureRefs, structures : StructureRefs, number : Nat, seen : SUBSET Nat]

Taking == boot.at \in {"fill", "wait"}

StartTypes ==
  /\ boot \in BootTypes
  /\ startBlock \in BlockTypes
  /\ allocated \subseteq Structures
  /\ cpuNumber \in [Structures -> Nat]
  /\ processorBlocks \in [Numbers -> StructureRefs]
  /\ ap \in [Aps -> ApTypes]
  /\ active \subseteq Nat
  /\ givenUp \subseteq Aps
  /\ \A a \in givenUp : a < boot.index
  /\ Taking => boot.number >= 1 /\ boot.index \in Aps

(* The processors the boot processor is done with that answered.           *)
Settled == {a \in Aps : a < boot.index /\ a \notin givenUp}

(* Before the one being started, a processor has answered or has not come; *)
(* behind it, none was called.                                             *)
Passed ==
  \A a \in Aps :
    /\ a < boot.index => ap[a].at = IF a \in givenUp THEN "called" ELSE "running"
    /\ a > boot.index => ap[a].at = "off"
    /\ a = boot.index /\ boot.at # "wait" => ap[a].at = "off"

(* Numbers are given in order, and taken back from those that do not come. *)
NumbersGiven ==
  /\ Cardinality(Settled) < MaxCpus
  /\ boot.at = "next" => boot.number = Cardinality(Settled)
  /\ Taking => boot.number = Cardinality(Settled) + 1 /\ Cardinality(Settled) + 1 < MaxCpus
  /\ {ap[a].number : a \in Settled} = 1..Cardinality(Settled)

OwnStructures ==
  /\ \A a \in Settled : /\ ap[a].stack = ap[a].structures
                        /\ ap[a].structures \in Structures
                        /\ processorBlocks[ap[a].number] = ap[a].structures
  /\ \A a, b \in Settled : ap[a].structures = ap[b].structures => a = b

Books ==
  /\ allocated = {ap[a].structures : a \in Settled} \cup (IF Taking THEN {boot.structures} ELSE {})
  /\ {n \in Numbers : processorBlocks[n] # NoStructures} =
         1..Cardinality(Settled) \cup (IF Taking THEN {boot.number} ELSE {})

ActiveExact ==
  active = {0} \cup 1..Cardinality(Settled)
               \cup (IF boot.at = "wait" /\ ap[boot.index].at \in {"active", "running"}
                     THEN {boot.number} ELSE {})

(* The structures of the one being started.                                *)
AtHand ==
  Taking =>
    /\ boot.structures \in Structures
    /\ \A a \in Settled : ap[a].structures # boot.structures
    /\ cpuNumber[boot.structures] = boot.number
    /\ processorBlocks[boot.number] = boot.structures
    /\ startBlock.stack = boot.structures

(* How far it is.                                                          *)
Coming ==
  boot.at = "wait" =>
    LET r == ap[boot.index]
    IN  /\ startBlock.structures = boot.structures
        /\ r.at # "off"
        /\ startBlock.started <=> r.at = "running"
        /\ r.at # "called" => r.stack = boot.structures
        /\ r.at \notin {"called", "trampoline"} =>
               r.structures = boot.structures /\ r.number = boot.number
        /\ r.at = "activating" => r.seen = {0} \cup 1..Cardinality(Settled)

(* As long as no processor wakes late, they come one after the other.      *)
Orderly ==
  Passed /\ NumbersGiven /\ OwnStructures /\ Books /\ ActiveExact /\ AtHand /\ Coming

StartInv == StartTypes /\ (~WokeLate => Orderly)

-----------------------------------------------------------------------------

LEMMA SettledFinite ==
  ASSUME StartTypes
  PROVE  /\ IsFiniteSet(Settled)
         /\ Cardinality(Settled) \in Nat
         /\ Cardinality(Settled) <= boot.index - 1
<1>1. PICK k \in Nat : k = boot.index - 1
  BY DEF StartTypes, BootTypes
<1>2. Settled \subseteq 1..k
  BY <1>1, StartAssumption DEF Settled, Aps, StartTypes, BootTypes
<1>3. IsFiniteSet(1..k) /\ Cardinality(1..k) = IF 1 > k THEN 0 ELSE k - 1 + 1
  BY FS_Interval
<1>4. Cardinality(1..k) = k
  BY <1>3
<1>5. IsFiniteSet(Settled) /\ Cardinality(Settled) <= Cardinality(1..k)
  BY <1>2, <1>3, FS_Subset
<1> QED BY <1>1, <1>4, <1>5, FS_CardinalityType

LEMMA StartBegins == StartInit => StartInv
<1> SUFFICES ASSUME StartInit PROVE StartInv
  OBVIOUS
<1>1. /\ boot = [at |-> "next", index |-> 1, number |-> 0, structures |-> NoStructures]
      /\ boot.at = "next" /\ boot.index = 1 /\ boot.number = 0
  BY DEF StartInit
<1>2. Off \in ApTypes /\ Off.at = "off"
  BY DEF Off, ApTypes, StructureRefs
<1>3. StartTypes
  BY <1>1, <1>2 DEF StartInit, StartTypes, BootTypes, BlockTypes, StructureRefs, Taking, Numbers
<1>4. Settled = {} /\ Cardinality(Settled) = 0 /\ 1..0 = {}
  BY <1>1, FS_EmptySet DEF Settled, Aps
<1>5. Passed
  BY <1>1, <1>2, StartAssumption DEF StartInit, Passed, Aps
<1>6. NumbersGiven /\ OwnStructures /\ ActiveExact /\ AtHand /\ Coming
  BY <1>1, <1>4, StartAssumption
  DEF StartInit, NumbersGiven, OwnStructures, ActiveExact, AtHand, Coming, Taking
<1>7. Books
  BY <1>1, <1>4 DEF StartInit, Books, Taking
<1> QED BY <1>3, <1>5, <1>6, <1>7 DEF StartInv, Orderly

(* A step of a processor that is being started, in terms of its record.    *)
ApMoves(a, r) ==
  /\ a \in Aps /\ r \in ApTypes
  /\ ap' = [ap EXCEPT ![a] = r]
  /\ UNCHANGED <<boot, allocated, cpuNumber, processorBlocks, givenUp>>

LEMMA EnterEffect ==
  ASSUME StartTypes, NEW a \in Aps, EnterTrampoline(a)
  PROVE  \E r \in ApTypes : /\ ApMoves(a, r) /\ ap[a].at = "called"
                            /\ r.at = "trampoline" /\ r.stack = startBlock.stack
                            /\ UNCHANGED <<startBlock, active>>
<1>1. ap[a] \in ApTypes /\ startBlock.stack \in StructureRefs
  BY DEF StartTypes, BlockTypes
<1>2. PICK r \in ApTypes : r = [ap[a] EXCEPT !.at = "trampoline", !.stack = startBlock.stack]
  BY <1>1 DEF ApTypes
<1>3. r.at = "trampoline" /\ r.stack = startBlock.stack
  BY <1>1, <1>2 DEF ApTypes
<1> QED BY <1>1, <1>2, <1>3 DEF EnterTrampoline, ApMoves, StartTypes

LEMMA InitializeEffect ==
  ASSUME StartTypes, NEW a \in Aps, InitializeProcessor(a)
  PROVE  \E r \in ApTypes :
           /\ ApMoves(a, r) /\ ap[a].at = "trampoline" /\ UNCHANGED <<startBlock, active>>
           /\ r.at = "initialized" /\ r.stack = ap[a].stack /\ r.structures = startBlock.structures
           /\ startBlock.structures # NoStructures => r.number = cpuNumber[startBlock.structures]
<1>1. ap[a] \in ApTypes /\ startBlock.structures \in StructureRefs
  BY DEF StartTypes, BlockTypes
<1>2. PICK n \in Nat :
        n = IF startBlock.structures = NoStructures THEN 0 ELSE cpuNumber[startBlock.structures]
  BY <1>1 DEF StartTypes, StructureRefs
<1>3. PICK r \in ApTypes : r = [ap[a] EXCEPT !.at = "initialized",
                                    !.structures = startBlock.structures, !.number = n]
  BY <1>1 DEF ApTypes
<1>4. r.at = "initialized" /\ r.stack = ap[a].stack /\ r.structures = startBlock.structures /\ r.number = n
  BY <1>1, <1>3 DEF ApTypes
<1> QED BY <1>1, <1>2, <1>3, <1>4 DEF InitializeProcessor, ApMoves, StartTypes

LEMMA ReadEffect ==
  ASSUME StartTypes, NEW a \in Aps, ReadActive(a)
  PROVE  \E r \in ApTypes :
           /\ ApMoves(a, r) /\ ap[a].at = "initialized" /\ UNCHANGED <<startBlock, active>>
           /\ r.at = "activating" /\ r.stack = ap[a].stack /\ r.structures = ap[a].structures
           /\ r.number = ap[a].number /\ r.seen = active
<1>1. ap[a] \in ApTypes /\ active \in SUBSET Nat
  BY DEF StartTypes
<1>2. PICK r \in ApTypes : r = [ap[a] EXCEPT !.at = "activating", !.seen = active]
  BY <1>1 DEF ApTypes
<1>3. /\ r.at = "activating" /\ r.stack = ap[a].stack /\ r.structures = ap[a].structures
      /\ r.number = ap[a].number /\ r.seen = active
  BY <1>1, <1>2 DEF ApTypes
<1> QED BY <1>1, <1>2, <1>3 DEF ReadActive, ApMoves, StartTypes

(* The last two steps only change where the processor is.                  *)
ApGoes(a, r, to) ==
  /\ ApMoves(a, r) /\ r.at = to /\ r.stack = ap[a].stack
  /\ r.structures = ap[a].structures /\ r.number = ap[a].number

LEMMA WriteEffect ==
  ASSUME StartTypes, NEW a \in Aps, WriteActive(a)
  PROVE  \E r \in ApTypes :
           /\ ApGoes(a, r, "active") /\ ap[a].at = "activating" /\ UNCHANGED startBlock
           /\ active' = ap[a].seen \cup {ap[a].number} /\ active' \subseteq Nat
<1>1. ap[a] \in ApTypes
  BY DEF StartTypes
<1>2. PICK r \in ApTypes : r = [ap[a] EXCEPT !.at = "active"]
  BY <1>1 DEF ApTypes
<1>3. /\ r.at = "active" /\ r.stack = ap[a].stack /\ r.structures = ap[a].structures
      /\ r.number = ap[a].number
  BY <1>1, <1>2 DEF ApTypes
<1>4. ap[a].seen \cup {ap[a].number} \subseteq Nat
  BY <1>1 DEF ApTypes
<1> QED BY <1>1, <1>2, <1>3, <1>4 DEF WriteActive, ApMoves, ApGoes, StartTypes

LEMMA ReportEffect ==
  ASSUME StartTypes, NEW a \in Aps, ReportStarted(a)
  PROVE  \E r \in ApTypes :
           /\ ApGoes(a, r, "running") /\ ap[a].at = "active" /\ UNCHANGED active
           /\ startBlock' \in BlockTypes /\ startBlock'.started
           /\ startBlock'.stack = startBlock.stack
           /\ startBlock'.structures = startBlock.structures
<1>1. ap[a] \in ApTypes
  BY DEF StartTypes
<1>2. PICK r \in ApTypes : r = [ap[a] EXCEPT !.at = "running"]
  BY <1>1 DEF ApTypes
<1>3. /\ r.at = "running" /\ r.stack = ap[a].stack /\ r.structures = ap[a].structures
      /\ r.number = ap[a].number
  BY <1>1, <1>2 DEF ApTypes
<1>4. /\ startBlock' \in BlockTypes /\ startBlock'.started /\ startBlock'.stack = startBlock.stack
      /\ startBlock'.structures = startBlock.structures
  BY DEF ReportStarted, StartTypes, BlockTypes
<1> QED BY <1>1, <1>2, <1>3, <1>4 DEF ReportStarted, ApMoves, ApGoes, StartTypes

(* A processor that moves without having woken late is the one that the    *)
(* boot processor waits for, and the others' books stay as they are.       *)
LEMMA MoverIsAwaited ==
  ASSUME StartTypes, Orderly, NEW a \in Aps, NEW r \in ApTypes, ApMoves(a, r), ~WokeLate',
         ap[a].at \notin {"off", "running"}, r.at # "called"
  PROVE  /\ a = boot.index /\ boot.at = "wait" /\ a \notin Settled /\ ap'[a] = r
         /\ Settled' = Settled
         /\ Passed' /\ NumbersGiven' /\ OwnStructures' /\ Books' /\ Taking
<1>1. boot.index \in Nat \ {0} /\ a \in Nat /\ ap'[a] = r
  BY StartAssumption DEF StartTypes, BootTypes, Aps, ApMoves
<1>2. a \notin givenUp
  BY <1>1 DEF WokeLate, ApMoves, StartTypes
<1>3. a = boot.index /\ boot.at = "wait" /\ Taking
  BY <1>1, <1>2 DEF Orderly, Passed, Taking
<1>4. a \notin Settled /\ Settled' = Settled
  BY <1>1, <1>3 DEF Settled, ApMoves
<1>5. \A b \in Aps : b # a => ap'[b] = ap[b]
  BY DEF ApMoves, StartTypes
<1>6. \A b \in Settled : b \in Aps /\ ap'[b] = ap[b]
  BY <1>4, <1>5 DEF Settled
<1>7. Passed'
  BY <1>1, <1>3, <1>5 DEF Orderly, Passed, ApMoves
<1>8. {ap'[b].number : b \in Settled} = {ap[b].number : b \in Settled}
  BY <1>6
<1>9. NumbersGiven'
  BY <1>4, <1>8 DEF Orderly, NumbersGiven, ApMoves, Taking
<1>10. OwnStructures'
  BY <1>4, <1>6 DEF Orderly, OwnStructures, ApMoves
<1>11. {ap'[b].structures : b \in Settled} = {ap[b].structures : b \in Settled}
  BY <1>6
<1>12. Books'
  BY <1>4, <1>11 DEF Orderly, Books, ApMoves, Taking, Numbers
<1> QED BY <1>1, <1>3, <1>4, <1>7, <1>9, <1>10, <1>12

LEMMA ApStepKeeps ==
  ASSUME StartInv, StartTypes', ~WokeLate', ~WokeLate, NEW a \in Aps,
         \/ EnterTrampoline(a) \/ InitializeProcessor(a)
         \/ ReadActive(a) \/ WriteActive(a) \/ ReportStarted(a)
  PROVE  Orderly'
<1>1. StartTypes /\ Orderly
  BY DEF StartInv
<1> DEFINE Kept == Passed' /\ NumbersGiven' /\ OwnStructures' /\ Books'
<1>3. ASSUME NEW r \in ApTypes, ApMoves(a, r), ap[a].at \notin {"off", "running"}, r.at # "called",
             startBlock'.stack = startBlock.stack
      PROVE  AtHand'
  <2>1. Settled' = Settled /\ a \notin Settled
    BY <1>1, <1>3, MoverIsAwaited
  <2>2. \A b \in Settled : ap'[b] = ap[b]
    BY <1>1, <1>3, <2>1 DEF ApMoves, StartTypes, Settled
  <2> QED BY <1>1, <1>3, <2>1, <2>2 DEF Orderly, AtHand, Taking, ApMoves
<1>4. CASE EnterTrampoline(a)
  <2>1. PICK r \in ApTypes : /\ ApMoves(a, r) /\ ap[a].at = "called"
                             /\ r.at = "trampoline" /\ r.stack = startBlock.stack
                             /\ UNCHANGED <<startBlock, active>>
    BY <1>1, <1>4, EnterEffect
  <2>2. /\ Kept /\ Settled' = Settled /\ Taking /\ a = boot.index /\ boot.at = "wait"
        /\ ap'[a] = r
    BY <1>1, <2>1, MoverIsAwaited
  <2>3. ActiveExact'
    BY <1>1, <2>1, <2>2 DEF Orderly, ActiveExact, ApMoves
  <2>4. AtHand'
    BY <1>3, <2>1
  <2>5. Coming'
    BY <1>1, <2>1, <2>2 DEF Orderly, Coming, AtHand, ApMoves
  <2> QED BY <2>2, <2>3, <2>4, <2>5 DEF Orderly
<1>5. CASE InitializeProcessor(a)
  <2>1. PICK r \in ApTypes :
          /\ ApMoves(a, r) /\ ap[a].at = "trampoline" /\ UNCHANGED <<startBlock, active>>
          /\ r.at = "initialized" /\ r.stack = ap[a].stack /\ r.structures = startBlock.structures
          /\ startBlock.structures # NoStructures => r.number = cpuNumber[startBlock.structures]
    BY <1>1, <1>5, InitializeEffect
  <2>2. /\ Kept /\ Settled' = Settled /\ Taking /\ a = boot.index /\ boot.at = "wait"
        /\ ap'[a] = r
    BY <1>1, <2>1, MoverIsAwaited
  <2>3. ActiveExact'
    BY <1>1, <2>1, <2>2 DEF Orderly, ActiveExact, ApMoves
  <2>4. AtHand'
    BY <1>3, <2>1
  <2>5. r.structures = boot.structures /\ r.number = boot.number
    BY <1>1, <2>1, <2>2, StartAssumption DEF Orderly, Coming, AtHand
  <2>6. Coming'
    BY <1>1, <2>1, <2>2, <2>5 DEF Orderly, Coming, ApMoves
  <2> QED BY <2>2, <2>3, <2>4, <2>6 DEF Orderly
<1>6. CASE ReadActive(a)
  <2>1. PICK r \in ApTypes :
          /\ ApMoves(a, r) /\ ap[a].at = "initialized" /\ UNCHANGED <<startBlock, active>>
          /\ r.at = "activating" /\ r.stack = ap[a].stack /\ r.structures = ap[a].structures
          /\ r.number = ap[a].number /\ r.seen = active
    BY <1>1, <1>6, ReadEffect
  <2>2. /\ Kept /\ Settled' = Settled /\ Taking /\ a = boot.index /\ boot.at = "wait"
        /\ ap'[a] = r
    BY <1>1, <2>1, MoverIsAwaited
  <2>3. ActiveExact'
    BY <1>1, <2>1, <2>2 DEF Orderly, ActiveExact, ApMoves
  <2>4. AtHand'
    BY <1>3, <2>1
  <2>5. active = {0} \cup 1..Cardinality(Settled)
    BY <1>1, <2>1, <2>2 DEF Orderly, ActiveExact
  <2>6. Coming'
    BY <1>1, <2>1, <2>2, <2>5 DEF Orderly, Coming, ApMoves
  <2> QED BY <2>2, <2>3, <2>4, <2>6 DEF Orderly
<1>7. CASE WriteActive(a)
  <2>1. PICK r \in ApTypes :
          /\ ApGoes(a, r, "active") /\ ap[a].at = "activating" /\ UNCHANGED startBlock
          /\ active' = ap[a].seen \cup {ap[a].number} /\ active' \subseteq Nat
    BY <1>1, <1>7, WriteEffect
  <2>2. /\ Kept /\ Settled' = Settled /\ Taking /\ a = boot.index /\ boot.at = "wait"
        /\ ap'[a] = r
    BY <1>1, <2>1, MoverIsAwaited DEF ApGoes
  <2>3. active' = {0} \cup 1..Cardinality(Settled) \cup {boot.number}
    BY <1>1, <2>1, <2>2 DEF Orderly, Coming
  <2>4. ActiveExact'
    BY <2>1, <2>2, <2>3 DEF ActiveExact, ApGoes, ApMoves
  <2>5. AtHand'
    BY <1>3, <2>1 DEF ApGoes
  <2>6. Coming'
    BY <1>1, <2>1, <2>2 DEF Orderly, Coming, ApGoes, ApMoves
  <2> QED BY <2>2, <2>4, <2>5, <2>6 DEF Orderly
<1>8. CASE ReportStarted(a)
  <2>1. PICK r \in ApTypes :
          /\ ApGoes(a, r, "running") /\ ap[a].at = "active" /\ UNCHANGED active
          /\ startBlock' \in BlockTypes /\ startBlock'.started
          /\ startBlock'.stack = startBlock.stack
          /\ startBlock'.structures = startBlock.structures
    BY <1>1, <1>8, ReportEffect
  <2>2. /\ Kept /\ Settled' = Settled /\ Taking /\ a = boot.index /\ boot.at = "wait"
        /\ ap'[a] = r
    BY <1>1, <2>1, MoverIsAwaited DEF ApGoes
  <2>3. ActiveExact'
    BY <1>1, <2>1, <2>2 DEF Orderly, ActiveExact, ApGoes, ApMoves
  <2>4. AtHand'
    BY <1>3, <2>1 DEF ApGoes
  <2>5. Coming'
    BY <1>1, <2>1, <2>2 DEF Orderly, Coming, ApGoes, ApMoves
  <2> QED BY <2>2, <2>3, <2>4, <2>5 DEF Orderly
<1> QED BY <1>4, <1>5, <1>6, <1>7, <1>8

-----------------------------------------------------------------------------
(* The steps of the boot processor.                                        *)

LEMMA SendKeeps ==
  ASSUME StartInv, ~WokeLate, SendStartup
  PROVE  Orderly' /\ StartTypes'
<1>1. StartTypes /\ Orderly /\ Taking
  BY DEF StartInv, SendStartup, Taking
<1>2. PICK a \in Aps : a = boot.index
  BY <1>1 DEF StartTypes
<1>3. ap[a] \in ApTypes /\ a \in Nat /\ a \notin givenUp /\ a \notin Settled
  BY <1>1, <1>2, StartAssumption DEF StartTypes, Aps, Settled
<1>4. PICK r \in ApTypes : r = [ap[a] EXCEPT !.at = "called"]
  BY <1>3 DEF ApTypes
<1>5. ap' = [ap EXCEPT ![a] = r] /\ r.at = "called" /\ ap'[a] = r
  BY <1>1, <1>2, <1>3, <1>4 DEF SendStartup, ApTypes, StartTypes
<1>6. /\ boot.at = "fill" /\ boot'.at = "wait" /\ boot'.index = boot.index
      /\ boot'.number = boot.number /\ boot'.structures = boot.structures /\ boot' \in BootTypes
      /\ Taking'
  BY <1>1 DEF SendStartup, StartTypes, BootTypes, Taking
<1>7. /\ startBlock' \in BlockTypes /\ startBlock'.stack = startBlock.stack
      /\ startBlock'.structures = boot.structures /\ startBlock'.started = FALSE
  BY <1>1 DEF SendStartup, Filled, StartTypes, BlockTypes, BootTypes
<1>8. UNCHANGED <<allocated, cpuNumber, processorBlocks, active, givenUp>>
  BY DEF SendStartup
<1>9. StartTypes'
  BY <1>1, <1>4, <1>5, <1>6, <1>7, <1>8 DEF StartTypes, Numbers
<1>10. Settled' = Settled
  BY <1>6, <1>8 DEF Settled
<1>11. \A b \in Aps : b # a => ap'[b] = ap[b]
  BY <1>1, <1>5 DEF StartTypes
<1>12. \A b \in Settled : b \in Aps /\ ap'[b] = ap[b]
  BY <1>3, <1>11 DEF Settled
<1>13. Passed'
  BY <1>1, <1>2, <1>3, <1>6, <1>8, <1>11 DEF Orderly, Passed
<1>14. {ap'[b].number : b \in Settled} = {ap[b].number : b \in Settled}
  BY <1>12
<1>15. NumbersGiven'
  BY <1>1, <1>6, <1>10, <1>14 DEF Orderly, NumbersGiven
<1>16. OwnStructures'
  BY <1>1, <1>8, <1>10, <1>12 DEF Orderly, OwnStructures
<1>17. {ap'[b].structures : b \in Settled} = {ap[b].structures : b \in Settled}
  BY <1>12
<1>18. Books'
  BY <1>1, <1>6, <1>8, <1>10, <1>17 DEF Orderly, Books, Numbers
<1>19. ActiveExact'
  BY <1>1, <1>2, <1>5, <1>6, <1>8, <1>10 DEF Orderly, ActiveExact
<1>20. AtHand'
  BY <1>1, <1>6, <1>7, <1>8, <1>10, <1>12 DEF Orderly, AtHand
<1>21. Coming'
  BY <1>2, <1>5, <1>6, <1>7 DEF Coming
<1> QED BY <1>9, <1>13, <1>15, <1>16, <1>18, <1>19, <1>20, <1>21 DEF Orderly

(* Where no processor and no structure changes, only the counts are left.  *)
LEMMA StopKeeps ==
  ASSUME StartInv, ~WokeLate, LastProcessor \/ AllocationFails
  PROVE  Orderly'
<1>1. StartTypes /\ Orderly
  BY DEF StartInv
<1>2. /\ boot.at = "next" /\ boot'.at = "done" /\ boot'.index = boot.index /\ ~Taking /\ ~Taking'
      /\ UNCHANGED <<startBlock, allocated, cpuNumber, processorBlocks, ap, active, givenUp>>
  BY <1>1 DEF LastProcessor, AllocationFails, NextProcessor, StartTypes, BootTypes, Taking
<1>3. Settled' = Settled
  BY <1>2 DEF Settled
<1>4. Passed' /\ NumbersGiven' /\ OwnStructures'
  BY <1>1, <1>2, <1>3 DEF Orderly, Passed, NumbersGiven, OwnStructures
<1>5. Books'
  BY <1>1, <1>2, <1>3 DEF Orderly, Books, Numbers
<1>6. ActiveExact' /\ AtHand' /\ Coming'
  BY <1>1, <1>2, <1>3 DEF Orderly, ActiveExact, AtHand, Coming, Taking
<1> QED BY <1>4, <1>5, <1>6 DEF Orderly

LEMMA PrepareKeeps ==
  ASSUME StartInv, ~WokeLate, NEW s \in Structures, PrepareStructures(s)
  PROVE  Orderly'
<1>1. StartTypes /\ Orderly
  BY DEF StartInv
<1>2. PICK n \in Nat : n = boot.number
  BY <1>1 DEF StartTypes, BootTypes
<1>3. /\ boot.at = "next" /\ boot.index <= ApCount /\ n + 1 < MaxCpus /\ ~Taking
      /\ s \notin allocated /\ allocated' = allocated \cup {s}
      /\ cpuNumber' = [cpuNumber EXCEPT ![s] = n + 1]
      /\ UNCHANGED <<ap, active, givenUp>>
  BY <1>2 DEF PrepareStructures, NextProcessor, Taking
<1>4. /\ boot'.at = "fill" /\ boot'.index = boot.index /\ boot'.number = n + 1
      /\ boot'.structures = s /\ Taking'
  BY <1>1, <1>2 DEF PrepareStructures, StartTypes, BootTypes, Taking
<1>5. startBlock'.stack = s
  BY <1>1 DEF PrepareStructures, StartTypes, BlockTypes
<1>6. Settled' = Settled
  BY <1>3, <1>4 DEF Settled
<1>7. n = Cardinality(Settled) /\ n <= boot.index - 1 /\ boot.index \in Nat
  BY <1>1, <1>2, <1>3, SettledFinite DEF Orderly, NumbersGiven, StartTypes, BootTypes
<1>8. n + 1 \in Numbers /\ n + 1 \notin 1..n
  BY <1>3, <1>7, StartAssumption DEF Numbers
<1>9. processorBlocks' = [processorBlocks EXCEPT ![n + 1] = s]
  BY <1>2, <1>8 DEF PrepareStructures, Register
<1>10. \A a \in Settled : ap[a].number \in 1..n
  BY <1>1, <1>7 DEF Orderly, NumbersGiven
<1>11. /\ processorBlocks'[n + 1] = s
       /\ \A k \in Numbers : k # n + 1 => processorBlocks'[k] = processorBlocks[k]
  BY <1>1, <1>8, <1>9 DEF StartTypes
<1>12. 1..n \subseteq Numbers
  BY <1>8, StartAssumption DEF Numbers
<1>13. Passed'
  BY <1>1, <1>3, <1>4 DEF Orderly, Passed
<1>14. NumbersGiven'
  BY <1>1, <1>3, <1>4, <1>6, <1>7 DEF Orderly, NumbersGiven
<1>15. OwnStructures'
  BY <1>1, <1>3, <1>6, <1>8, <1>10, <1>11, <1>12 DEF Orderly, OwnStructures
<1>16. Books'
  <2>1. allocated' = {ap[a].structures : a \in Settled} \cup {s}
    BY <1>1, <1>3 DEF Orderly, Books
  <2>2. {k \in Numbers : processorBlocks[k] # NoStructures} = 1..n
    BY <1>1, <1>3, <1>7 DEF Orderly, Books
  <2>3. {k \in Numbers : processorBlocks'[k] # NoStructures} = 1..n \cup {n + 1}
    BY <1>8, <1>11, <2>2, StartAssumption
  <2> QED BY <1>3, <1>4, <1>6, <1>7, <2>1, <2>3 DEF Books, Numbers
<1>17. ActiveExact' /\ Coming'
  BY <1>1, <1>3, <1>4, <1>6 DEF Orderly, ActiveExact, Coming
<1>18. AtHand'
  <2>1. cpuNumber'[s] = n + 1
    BY <1>1, <1>3 DEF StartTypes
  <2>2. \A a \in Settled : ap[a].structures # s
    BY <1>1, <1>3 DEF Orderly, Books
  <2> QED BY <1>3, <1>4, <1>5, <1>6, <1>11, <2>1, <2>2 DEF AtHand
<1> QED BY <1>13, <1>14, <1>15, <1>16, <1>17, <1>18 DEF Orderly

LEMMA AnswerKeeps ==
  ASSUME StartInv, ~WokeLate, AnswerSeen
  PROVE  Orderly'
<1>1. StartTypes /\ Orderly /\ Taking
  BY DEF StartInv, AnswerSeen, Taking
<1>2. PICK a \in Aps : a = boot.index
  BY <1>1 DEF StartTypes
<1>3. a \in Nat /\ a \notin givenUp /\ a \notin Settled /\ ap[a].at = "running"
  BY <1>1, <1>2, StartAssumption DEF AnswerSeen, StartTypes, Aps, Settled, Orderly, Coming
<1>4. /\ boot.at = "wait" /\ boot'.at = "next" /\ boot'.index = boot.index + 1
      /\ boot'.number = boot.number /\ ~Taking'
      /\ UNCHANGED <<startBlock, allocated, cpuNumber, processorBlocks, ap, active, givenUp>>
  BY <1>1 DEF AnswerSeen, StartTypes, BootTypes, Taking
<1>5. Settled' = Settled \cup {a}
  BY <1>2, <1>3, <1>4, StartAssumption DEF Settled, Aps
<1>6. PICK n \in Nat : n = Cardinality(Settled)
  BY <1>1, SettledFinite
<1>7. Cardinality(Settled') = n + 1
  BY <1>1, <1>3, <1>5, <1>6, SettledFinite, FS_AddElement
<1>8. boot.number = n + 1 /\ n + 1 < MaxCpus
  BY <1>1, <1>6 DEF Orderly, NumbersGiven
<1>9. ap[a].stack = boot.structures /\ ap[a].structures = boot.structures /\ ap[a].number = n + 1
  BY <1>1, <1>2, <1>3, <1>4, <1>8 DEF Orderly, Coming
<1>10. 1..(n + 1) = 1..n \cup {n + 1}
  OBVIOUS
<1>11. Passed'
  BY <1>1, <1>2, <1>3, <1>4, StartAssumption DEF Orderly, Passed, Aps
<1>12. NumbersGiven'
  <2>1. {ap[b].number : b \in Settled} = 1..n
    BY <1>1, <1>6 DEF Orderly, NumbersGiven
  <2>2. {ap[b].number : b \in Settled \cup {a}} = 1..n \cup {n + 1}
    BY <1>9, <2>1
  <2> QED BY <1>4, <1>5, <1>7, <1>8, <1>10, <2>2 DEF NumbersGiven
<1>13. OwnStructures'
  BY <1>1, <1>4, <1>5, <1>8, <1>9 DEF Orderly, OwnStructures, AtHand
<1>14. Books'
  <2>1. {ap[b].structures : b \in Settled \cup {a}} =
            {ap[b].structures : b \in Settled} \cup {boot.structures}
    BY <1>9
  <2>2. allocated' = {ap[b].structures : b \in Settled \cup {a}}
    BY <1>1, <1>4, <2>1 DEF Orderly, Books
  <2>3. {k \in Numbers : processorBlocks[k] # NoStructures} = 1..n \cup {n + 1}
    BY <1>1, <1>6, <1>8 DEF Orderly, Books
  <2> QED BY <1>4, <1>5, <1>7, <1>10, <2>2, <2>3 DEF Books, Numbers
<1>15. ActiveExact'
  <2>1. active = {0} \cup 1..n \cup {n + 1}
    BY <1>1, <1>2, <1>3, <1>4, <1>6, <1>8 DEF Orderly, ActiveExact
  <2> QED BY <1>4, <1>7, <1>10, <2>1 DEF ActiveExact
<1>16. AtHand' /\ Coming'
  BY <1>4 DEF AtHand, Coming
<1> QED BY <1>11, <1>12, <1>13, <1>14, <1>15, <1>16 DEF Orderly

LEMMA GiveUpKeeps ==
  ASSUME StartInv, ~WokeLate, ~WokeLate', GiveUp
  PROVE  Orderly'
<1>1. StartTypes /\ Orderly /\ Taking
  BY DEF StartInv, GiveUp, Taking
<1>2. PICK a \in Aps : a = boot.index
  BY <1>1 DEF StartTypes
<1>3. a \in Nat /\ a \notin givenUp /\ a \notin Settled
  BY <1>1, <1>2, StartAssumption DEF StartTypes, Aps, Settled
<1>4. PICK n \in Nat : n = Cardinality(Settled)
  BY <1>1, SettledFinite
<1>5. boot.number = n + 1 /\ n + 1 < MaxCpus
  BY <1>1, <1>4 DEF Orderly, NumbersGiven
<1>6. /\ boot.at = "wait" /\ boot'.at = "next" /\ boot'.index = boot.index + 1
      /\ boot'.number = n /\ ~Taking'
      /\ givenUp' = givenUp \cup {a} /\ allocated' = allocated \ {boot.structures}
      /\ UNCHANGED <<startBlock, cpuNumber, ap, active>>
  BY <1>1, <1>2, <1>5 DEF GiveUp, GiveUpNumber, StartTypes, BootTypes, Taking
<1>7. ap[a].at = "called"
  BY <1>6 DEF WokeLate
<1>8. Settled' = Settled
  BY <1>2, <1>3, <1>6, StartAssumption DEF Settled, Aps
<1>9. n <= boot.index - 1 /\ n + 1 \in Numbers /\ n + 1 \notin 1..n
  BY <1>1, <1>2, <1>4, SettledFinite, StartAssumption DEF Numbers, Aps
<1>10. processorBlocks' = [processorBlocks EXCEPT ![n + 1] = NoStructures]
  BY <1>5, <1>9 DEF GiveUp, Register
<1>11. /\ processorBlocks'[n + 1] = NoStructures
       /\ \A k \in Numbers : k # n + 1 => processorBlocks'[k] = processorBlocks[k]
  BY <1>1, <1>9, <1>10 DEF StartTypes
<1>12. \A b \in Settled : ap[b].number \in 1..n
  BY <1>1, <1>4 DEF Orderly, NumbersGiven
<1>13. 1..n \subseteq Numbers
  BY <1>9, StartAssumption DEF Numbers
<1>14. Passed'
  BY <1>1, <1>2, <1>3, <1>6, <1>7, StartAssumption DEF Orderly, Passed, Aps
<1>15. NumbersGiven'
  BY <1>1, <1>4, <1>5, <1>6, <1>8 DEF Orderly, NumbersGiven
<1>16. OwnStructures'
  BY <1>1, <1>6, <1>8, <1>9, <1>11, <1>12, <1>13 DEF Orderly, OwnStructures
<1>17. Books'
  <2>1. allocated' = {ap[b].structures : b \in Settled}
    BY <1>1, <1>6 DEF Orderly, Books, AtHand
  <2>2. {k \in Numbers : processorBlocks[k] # NoStructures} = 1..n \cup {n + 1}
    BY <1>1, <1>4, <1>5 DEF Orderly, Books
  <2>3. {k \in Numbers : processorBlocks'[k] # NoStructures} = 1..n
    BY <1>9, <1>11, <1>13, <2>2
  <2> QED BY <1>4, <1>6, <1>8, <2>1, <2>3 DEF Books, Numbers
<1>18. ActiveExact'
  <2>1. active = {0} \cup 1..n
    BY <1>1, <1>2, <1>4, <1>6, <1>7 DEF Orderly, ActiveExact
  <2> QED BY <1>4, <1>6, <1>8, <2>1 DEF ActiveExact
<1>19. AtHand' /\ Coming'
  BY <1>6 DEF AtHand, Coming
<1> QED BY <1>14, <1>15, <1>16, <1>17, <1>18, <1>19 DEF Orderly

-----------------------------------------------------------------------------

(* The record of the boot processor, field by field.                       *)
LEMMA BootIs ==
  ASSUME StartTypes
  PROVE  \E i \in Nat \ {0}, n \in Nat, s \in StructureRefs, at \in {"next", "fill", "wait", "done"} :
           boot = [at |-> at, index |-> i, number |-> n, structures |-> s]
BY DEF StartTypes, BootTypes

LEMMA BootTypesMade ==
  ASSUME NEW at \in {"next", "fill", "wait", "done"}, NEW i \in Nat \ {0}, NEW n \in Nat,
         NEW s \in StructureRefs
  PROVE  [at |-> at, index |-> i, number |-> n, structures |-> s] \in BootTypes
BY DEF BootTypes

LEMMA RegisterTypes ==
  ASSUME StartTypes, NEW n \in Nat, NEW s \in StructureRefs, Register(n, s)
  PROVE  processorBlocks' \in [Numbers -> StructureRefs]
BY DEF StartTypes, Register

LEMMA ApTypesKept ==
  ASSUME StartTypes, NEW a \in Aps, NEW r \in ApTypes, ApMoves(a, r),
         startBlock' \in BlockTypes, active' \subseteq Nat
  PROVE  StartTypes'
BY DEF StartTypes, ApMoves, Taking, Numbers

LEMMA StartTypesKept ==
  ASSUME StartTypes, StartNext, ~(\E s \in Structures : PrepareStructures(s)), ~SendStartup
  PROVE  StartTypes'
<1>1. ASSUME NEW a \in Aps, EnterTrampoline(a) PROVE StartTypes'
  BY <1>1, EnterEffect, ApTypesKept DEF StartTypes
<1>2. ASSUME NEW a \in Aps, InitializeProcessor(a) PROVE StartTypes'
  BY <1>2, InitializeEffect, ApTypesKept DEF StartTypes
<1>3. ASSUME NEW a \in Aps, ReadActive(a) PROVE StartTypes'
  BY <1>3, ReadEffect, ApTypesKept DEF StartTypes
<1>4. ASSUME NEW a \in Aps, WriteActive(a) PROVE StartTypes'
  BY <1>4, WriteEffect, ApTypesKept DEF StartTypes, ApGoes
<1>5. ASSUME NEW a \in Aps, ReportStarted(a) PROVE StartTypes'
  BY <1>5, ReportEffect, ApTypesKept DEF StartTypes, ApGoes
<1>6. CASE LastProcessor \/ AllocationFails
  <2>1. PICK i \in Nat \ {0}, n \in Nat, s \in StructureRefs,
               at \in {"next", "fill", "wait", "done"} :
          boot = [at |-> at, index |-> i, number |-> n, structures |-> s]
    BY BootIs
  <2>2. \/ boot' = [at |-> "done", index |-> i, number |-> n, structures |-> s]
        \/ boot' = [at |-> "done", index |-> i, number |-> n + 1, structures |-> s]
    BY <1>6, <2>1 DEF LastProcessor, AllocationFails
  <2>3. boot'.at = "done" /\ boot'.index = boot.index
    BY <2>1, <2>2
  <2>4. n + 1 \in Nat
    OBVIOUS
  <2>5. boot' \in BootTypes
    BY <2>2, <2>4, BootTypesMade
  <2>6. UNCHANGED <<startBlock, allocated, cpuNumber, processorBlocks, ap, active, givenUp>>
    BY <1>6 DEF LastProcessor, AllocationFails
  <2> QED BY <2>3, <2>5, <2>6 DEF StartTypes, Taking, Numbers
<1>7. CASE AnswerSeen
  <2>1. /\ boot' \in BootTypes /\ boot'.at = "next" /\ boot'.index = boot.index + 1
        /\ UNCHANGED <<startBlock, allocated, cpuNumber, processorBlocks, ap, active, givenUp>>
    <3>1. PICK i \in Nat \ {0}, n \in Nat, s \in StructureRefs,
               at \in {"next", "fill", "wait", "done"} :
            boot = [at |-> at, index |-> i, number |-> n, structures |-> s]
      BY BootIs
    <3>2. boot' = [at |-> "next", index |-> i + 1, number |-> n, structures |-> s]
      BY <1>7, <3>1 DEF AnswerSeen
    <3>3. i + 1 \in Nat \ {0}
      OBVIOUS
    <3>4. boot' \in BootTypes
      BY <3>2, <3>3, BootTypesMade
    <3> QED BY <1>7, <3>1, <3>2, <3>4 DEF AnswerSeen
  <2>2. \A a \in givenUp' : a < boot'.index
    BY <2>1, StartAssumption DEF StartTypes, Aps, BootTypes
  <2> QED BY <2>1, <2>2 DEF StartTypes, Taking, Numbers
<1>8. CASE GiveUp
  <2>1. boot.at = "wait" /\ boot.number >= 1 /\ boot.index \in Aps /\ boot.number \in Nat
    BY <1>8 DEF GiveUp, StartTypes, BootTypes, Taking
  <2>2. /\ boot' \in BootTypes /\ boot'.at = "next" /\ boot'.index = boot.index + 1
        /\ givenUp' = givenUp \cup {boot.index} /\ allocated' \subseteq Structures
        /\ UNCHANGED <<startBlock, cpuNumber, ap, active>>
    <3>1. PICK i \in Nat \ {0}, n \in Nat, s \in StructureRefs,
               at \in {"next", "fill", "wait", "done"} :
            boot = [at |-> at, index |-> i, number |-> n, structures |-> s]
      BY BootIs
    <3>2. boot' = [at |-> "next", index |-> i + 1, number |-> n - 1, structures |-> s]
      BY <1>8, <3>1 DEF GiveUp, GiveUpNumber
    <3>3. i + 1 \in Nat \ {0} /\ n - 1 \in Nat
      BY <2>1, <3>1
    <3>4. boot' \in BootTypes
      BY <3>2, <3>3, BootTypesMade
    <3> QED BY <1>8, <3>1, <3>2, <3>4 DEF GiveUp, StartTypes
  <2>3. processorBlocks' \in [Numbers -> StructureRefs]
    BY <1>8, <2>1, RegisterTypes DEF GiveUp, StructureRefs
  <2>4. \A a \in givenUp' : a < boot'.index
    BY <2>1, <2>2, StartAssumption DEF StartTypes, Aps, BootTypes
  <2> QED BY <2>1, <2>2, <2>3, <2>4 DEF StartTypes, Taking, Numbers
<1> QED BY <1>1, <1>2, <1>3, <1>4, <1>5, <1>6, <1>7, <1>8 DEF StartNext

LEMMA PrepareTypes ==
  ASSUME StartTypes, NEW s \in Structures, PrepareStructures(s)
  PROVE  StartTypes'
<1>1. /\ boot' \in BootTypes /\ boot'.at = "fill" /\ boot'.index = boot.index
      /\ boot'.number = boot.number + 1 /\ boot.number \in Nat
      /\ boot.index \in Nat \ {0} /\ boot.index <= ApCount
  <2>1. PICK i \in Nat \ {0}, n \in Nat, t \in StructureRefs,
               at \in {"next", "fill", "wait", "done"} :
          boot = [at |-> at, index |-> i, number |-> n, structures |-> t]
    BY BootIs
  <2>2. boot' = [at |-> "fill", index |-> i, number |-> n + 1, structures |-> s]
    BY <2>1 DEF PrepareStructures
  <2>3. n + 1 \in Nat /\ s \in StructureRefs
    BY DEF StructureRefs
  <2>4. boot' \in BootTypes
    BY <2>2, <2>3, BootTypesMade
  <2> QED BY <2>1, <2>2, <2>4 DEF PrepareStructures, NextProcessor
<1>2. startBlock' \in BlockTypes
  BY DEF PrepareStructures, StartTypes, BlockTypes, StructureRefs
<1>3. processorBlocks' \in [Numbers -> StructureRefs]
  BY <1>1, RegisterTypes, SMTT(30) DEF PrepareStructures, StructureRefs
<1>4. /\ cpuNumber' \in [Structures -> Nat] /\ allocated' \subseteq Structures
      /\ UNCHANGED <<ap, active, givenUp>>
  BY <1>1, SMTT(30) DEF PrepareStructures, StartTypes
<1>5. boot'.number >= 1 /\ boot'.index \in Aps
  BY <1>1, StartAssumption DEF Aps
<1> QED BY <1>1, <1>2, <1>3, <1>4, <1>5 DEF StartTypes, Taking, Numbers

LEMMA SendTypes ==
  ASSUME StartTypes, SendStartup
  PROVE  StartTypes'
<1>1. /\ boot.at = "fill" /\ boot'.at = "wait" /\ boot'.index = boot.index
      /\ boot'.number = boot.number /\ boot' \in BootTypes /\ Taking
  BY DEF SendStartup, StartTypes, BootTypes, Taking
<1>2. PICK a \in Aps : a = boot.index
  BY <1>1 DEF StartTypes
<1>3. ap[a] \in ApTypes
  BY DEF StartTypes
<1>4. PICK r \in ApTypes : r = [ap[a] EXCEPT !.at = "called"]
  BY <1>3 DEF ApTypes
<1>5. ap' = [ap EXCEPT ![a] = r]
  BY <1>2, <1>4 DEF SendStartup
<1>6. startBlock' \in BlockTypes
  BY DEF SendStartup, Filled, StartTypes, BlockTypes, BootTypes
<1>7. UNCHANGED <<allocated, cpuNumber, processorBlocks, active, givenUp>>
  BY DEF SendStartup
<1> QED BY <1>1, <1>5, <1>6, <1>7 DEF StartTypes, Numbers, Taking

(* Once a processor has woken late nothing undoes it: the boot processor   *)
(* calls each processor once.                                              *)
LEMMA LateStaysLate ==
  ASSUME StartTypes, StartNext, WokeLate
  PROVE  WokeLate'
<1>1. PICK a \in givenUp : ap[a].at # "called" /\ a \in Aps /\ a < boot.index
  BY DEF WokeLate, StartTypes
<1>2. SUFFICES a \in givenUp' /\ ap'[a].at # "called"
  BY DEF WokeLate
<1>3. ASSUME NEW b \in Aps, NEW r \in ApTypes, ApMoves(b, r), r.at # "called"
      PROVE  a \in givenUp' /\ ap'[a].at # "called"
  BY <1>1, <1>3 DEF ApMoves, StartTypes
<1>4. ASSUME NEW b \in Aps, EnterTrampoline(b) PROVE a \in givenUp' /\ ap'[a].at # "called"
  BY <1>3, <1>4, EnterEffect
<1>5. ASSUME NEW b \in Aps, InitializeProcessor(b) PROVE a \in givenUp' /\ ap'[a].at # "called"
  BY <1>3, <1>5, InitializeEffect
<1>6. ASSUME NEW b \in Aps, ReadActive(b) PROVE a \in givenUp' /\ ap'[a].at # "called"
  BY <1>3, <1>6, ReadEffect
<1>7. ASSUME NEW b \in Aps, WriteActive(b) PROVE a \in givenUp' /\ ap'[a].at # "called"
  BY <1>3, <1>7, WriteEffect DEF ApGoes
<1>8. ASSUME NEW b \in Aps, ReportStarted(b) PROVE a \in givenUp' /\ ap'[a].at # "called"
  BY <1>3, <1>8, ReportEffect DEF ApGoes
<1>9. CASE SendStartup
  <2>1. boot.index \in Aps /\ a # boot.index
    BY <1>1, <1>9, StartAssumption DEF SendStartup, StartTypes, Taking, Aps
  <2>2. ap'[a] = ap[a]
    BY <1>1, <1>9, <2>1 DEF SendStartup, StartTypes
  <2> QED BY <1>1, <1>9, <2>2 DEF SendStartup
<1>10. CASE LastProcessor \/ AllocationFails \/ AnswerSeen \/ GiveUp
  BY <1>1, <1>10 DEF LastProcessor, AllocationFails, AnswerSeen, GiveUp
<1>11. ASSUME NEW s \in Structures, PrepareStructures(s)
       PROVE  a \in givenUp' /\ ap'[a].at # "called"
  BY <1>1, <1>11 DEF PrepareStructures
<1> QED BY <1>4, <1>5, <1>6, <1>7, <1>8, <1>9, <1>10, <1>11 DEF StartNext

LEMMA StartStep == StartInv /\ StartNext => StartInv'
<1> SUFFICES ASSUME StartInv, StartNext PROVE StartInv'
  OBVIOUS
<1>1. StartTypes'
  BY StartTypesKept, PrepareTypes, SendTypes DEF StartInv
<1>2. ASSUME ~WokeLate' PROVE Orderly'
  <2>1. ~WokeLate
    BY <1>2, LateStaysLate DEF StartInv
  <2>2. ASSUME NEW a \in Aps,
               \/ EnterTrampoline(a) \/ InitializeProcessor(a)
               \/ ReadActive(a) \/ WriteActive(a) \/ ReportStarted(a)
        PROVE  Orderly'
    BY <1>1, <1>2, <2>1, <2>2, ApStepKeeps
  <2> QED BY <1>2, <2>1, <2>2, SendKeeps, StopKeeps, PrepareKeeps, AnswerKeeps, GiveUpKeeps
          DEF StartNext
<1> QED BY <1>1, <1>2 DEF StartInv

(* What the run checks follows: the entered processors are the settled     *)
(* ones and the one at hand.                                               *)
LEMMA StartInvSound == StartInv => StartsSound
<1> SUFFICES ASSUME StartInv, ~WokeLate PROVE StartsSound
  BY DEF StartsSound, StartsExclusive, StartAccounted
<1>1. StartTypes /\ Orderly
  BY DEF StartInv
<1>2. boot.index \in Nat \ {0} /\ \A a \in Aps : a \in Nat
  BY <1>1, StartAssumption DEF StartTypes, BootTypes, Aps
<1>3. \A a \in Settled : a \in Aps /\ ap[a].at = "running"
  BY <1>1 DEF Orderly, Passed, Settled
<1>4. \A a \in Aps : ap[a].at \notin {"off", "called"} => a \in Settled \/ (a = boot.index /\ boot.at = "wait")
  BY <1>1, <1>2 DEF Orderly, Passed, Settled
<1>5. StartsExclusive
  <2>1. ASSUME NEW a \in Entered
        PROVE  /\ ap[a].stack = ap[a].structures
               /\ ap[a].structures \in allocated
               /\ processorBlocks[ap[a].number] = ap[a].structures
    <3>1. CASE a \in Settled
      BY <1>1, <3>1 DEF Orderly, OwnStructures, Books
    <3>2. CASE a = boot.index /\ boot.at = "wait"
      BY <1>1, <2>1, <3>2 DEF Orderly, Coming, AtHand, Taking, Books, Entered
    <3> QED BY <1>4, <2>1, <3>1, <3>2 DEF Entered
  <2>2. ASSUME NEW a \in Entered, NEW b \in Entered, a # b
        PROVE  ap[b].structures # ap[a].structures
    <3>1. CASE a \in Settled /\ b \in Settled
      BY <1>1, <2>2, <3>1 DEF Orderly, OwnStructures
    <3>2. CASE a \in Settled /\ b = boot.index /\ boot.at = "wait"
      BY <1>1, <2>2, <3>2 DEF Orderly, Coming, AtHand, Taking, Entered
    <3>3. CASE b \in Settled /\ a = boot.index /\ boot.at = "wait"
      BY <1>1, <2>2, <3>3 DEF Orderly, Coming, AtHand, Taking, Entered
    <3> QED BY <1>4, <2>2, <3>1, <3>2, <3>3 DEF Entered
  <2> QED BY <2>1, <2>2 DEF StartsExclusive
<1>6. ASSUME boot.at = "done" PROVE StartAccounted
  <2>1. Running = Settled
    BY <1>2, <1>3, <1>4, <1>6 DEF Running
  <2>2. ~Taking
    BY <1>6 DEF Taking
  <2>3. \A n \in Numbers : n \in Nat
    BY StartAssumption DEF Numbers
  <2>4. {ap[a].number : a \in Running} = 1..Cardinality(Running) /\ Cardinality(Running) < MaxCpus
    BY <1>1, <2>1 DEF Orderly, NumbersGiven
  <2>5. active = {0} \cup 1..Cardinality(Running)
    BY <1>1, <1>6, <2>1 DEF Orderly, ActiveExact
  <2>6. /\ {n \in Numbers : processorBlocks[n] # NoStructures} = 1..Cardinality(Running)
        /\ allocated = {ap[a].structures : a \in Running}
    BY <1>1, <2>1, <2>2 DEF Orderly, Books
  <2> QED BY <2>4, <2>5, <2>6 DEF StartAccounted
<1>7. StartAccounted
  BY <1>6 DEF StartAccounted
<1> QED BY <1>5, <1>7 DEF StartsSound

LEMMA StartIdle == StartInv /\ UNCHANGED startVars => StartInv'
<1> SUFFICES ASSUME StartInv, UNCHANGED startVars PROVE StartInv'
  OBVIOUS
<1>1. UNCHANGED <<boot, startBlock, allocated, cpuNumber, processorBlocks, ap, active, givenUp>>
  BY DEF startVars
<1>2. StartTypes'
  BY <1>1 DEF StartInv, StartTypes, Taking, Numbers
<1>3. Settled' = Settled /\ (WokeLate' <=> WokeLate) /\ (Taking' <=> Taking) /\ Numbers' = Numbers
  BY <1>1 DEF Settled, WokeLate, Taking, Numbers
<1>4. Orderly => Orderly'
  BY <1>1, <1>3 DEF Orderly, Passed, NumbersGiven, OwnStructures, Books, ActiveExact, AtHand, Coming
<1> QED BY <1>2, <1>3, <1>4 DEF StartInv

(* Processors start apart, on structures of their own and with exact       *)
(* books, until one that was given up wakes.                               *)
THEOREM StartsApart == StartSpec => []StartsSound
<1>1. StartInv /\ [StartNext]_startVars => StartInv'
  BY StartStep, StartIdle
<1> QED BY <1>1, StartBegins, StartInvSound, PTL DEF StartSpec

-----------------------------------------------------------------------------
(* Quotients and rests of a counter of m ticks.                            *)

LEMMA Divided ==
  ASSUME NEW n \in Int, NEW m \in Nat \ {0}
  PROVE  \E q \in Int, r \in 0 .. m - 1 : n = m * q + r /\ n % m = r /\ n \div m = q
OBVIOUS

LEMMA Rest ==
  ASSUME NEW n \in Int, NEW m \in Nat \ {0}, NEW q \in Int, NEW r \in 0 .. m - 1, n = m * q + r
  PROVE  n % m = r /\ n \div m = q
<1>1. PICK a \in Int, s \in 0 .. m - 1 : n = m * a + s /\ n % m = s /\ n \div m = a
  BY Divided
<1> QED BY <1>1

(* A counter goes up by one until it wraps.                                *)
LEMMA RestOfNext ==
  ASSUME NEW n \in Int, NEW m \in Nat \ {0}
  PROVE  (n + 1) % m = IF n % m = m - 1 THEN 0 ELSE (n % m) + 1
<1>1. PICK q \in Int, r \in 0 .. m - 1 : n = m * q + r /\ n % m = r
  BY Divided
<1>2. CASE r = m - 1
  <2>1. PICK a \in Int : a = q + 1
    OBVIOUS
  <2>2. n + 1 = m * a + 0 /\ 0 \in 0 .. m - 1
    BY <1>1, <1>2, <2>1
  <2> QED BY <1>1, <1>2, <2>2, Rest
<1>3. CASE r # m - 1
  <2>1. PICK s \in 0 .. m - 1 : s = r + 1
    BY <1>3
  <2>2. n + 1 = m * q + s
    BY <1>1, <2>1
  <2>3. PICK k \in Int : k = n + 1
    OBVIOUS
  <2>4. k = m * q + s
    BY <2>2, <2>3
  <2>5. k % m = s
    BY <2>4, Rest
  <2> QED BY <1>1, <1>3, <2>1, <2>3, <2>5
<1> QED BY <1>2, <1>3

(* The distance between two samples is never more than the ticks between   *)
(* them, and no less within one period.                                    *)
LEMMA Distance ==
  ASSUME NEW m \in Nat \ {0}, NEW s \in Int, NEW n \in Int, s <= n
  PROVE  /\ ((n % m) - (s % m)) % m \in 0 .. n - s
         /\ n - s < m => ((n % m) - (s % m)) % m = n - s
<1>1. PICK a \in Int, r \in 0 .. m - 1 : n = m * a + r /\ n % m = r
  BY Divided
<1>2. PICK b \in Int, t \in 0 .. m - 1 : s = m * b + t /\ s % m = t
  BY Divided
<1>3. PICK e \in Int, x \in 0 .. m - 1 : r - t = m * e + x /\ (r - t) % m = x
  BY Divided
<1>4. PICK k \in Int : k = a - b + e
  OBVIOUS
<1>5. n - s = m * k + x
  <2>1. n - s = m * a - m * b + (r - t)
    BY <1>1, <1>2
  <2>2. m * k = m * a - m * b + m * e
    BY <1>4
  <2> QED BY <1>3, <2>1, <2>2
<1>6. k >= 0 /\ m * k >= 0
  BY <1>5
<1>7. x \in 0 .. n - s
  BY <1>5, <1>6
<1>8. ASSUME n - s < m PROVE x = n - s
  <2>1. k = 0
    BY <1>5, <1>6, <1>8
  <2> QED BY <1>5, <2>1
<1> QED BY <1>1, <1>2, <1>3, <1>7, <1>8

-----------------------------------------------------------------------------
(* Counters                                                                *)

CallerTypes == [at : {"idle", "based", "latched", "stall"}, base : Nat, read : Nat, left : Int,
                began : Nat, length : Nat]

CounterTypes ==
  /\ source \in {"pit", "pm"} /\ pending \in BOOLEAN /\ skipped \in BOOLEAN
  /\ now \in Nat /\ counted \in Nat /\ missed \in Nat /\ systemCounter \in Int
  /\ pmCounter \in 0 .. Period - 1 /\ queried \in 0 .. now
  /\ caller \in [Callers -> CallerTypes]

(* Until a clock interrupt is lost: the wraps of the PIT are counted, but  *)
(* for the one that is pending, and no query was ahead of the time.        *)
PitInv ==
  source = "pit" /\ missed = 0 =>
    /\ pending => counted + Rollover = now - (now % Rollover)
    /\ ~pending => counted = now - (now % Rollover)
    /\ systemCounter <= queried

(* Until a whole period passes without a query the PM counter is exact.    *)
PmInv ==
  source = "pm" /\ ~skipped =>
    systemCounter = queried /\ pmCounter = queried % Period /\ now - queried < Period

(* One caller at a time is in a query of the PIT.  If the wraps have not   *)
(* changed since it read them, what it found is the time at which it read  *)
(* the counter, or one wrap less.                                          *)
Querying == {c \in Callers : caller[c].at \in {"based", "latched"}}
Value(r) == r.base + (Rollover - r.read)
QueryInv ==
  /\ Querying # {} => source = "pit"
  /\ \A c, d \in Querying : c = d
  /\ \A c \in Querying : caller[c].base <= counted
  /\ \A c \in Callers : /\ caller[c].at = "latched" /\ missed = 0
                        /\ caller[c].base = counted
                        => Value(caller[c]) \in {queried, queried - Rollover}

(* A wait has taken off no more ticks than passed before its last sample.  *)
Sampled(r, s) == r.read = s % Period /\ r.length - r.left <= s - r.began
StallInv ==
  \A c \in Callers : caller[c].at = "stall" => \E s \in 0 .. now : Sampled(caller[c], s)

(* Between two queries of the PIT the counter is what the last one found,  *)
(* or one wrap less.                                                       *)
AnswerInv ==
  source = "pit" /\ missed = 0 /\ Querying = {} => systemCounter \in {queried, queried - Rollover}

CounterInv == CounterTypes /\ PitInv /\ PmInv /\ QueryInv /\ AnswerInv /\ StallInv

LEMMA CounterStart == CounterInit => CounterInv
<1> SUFFICES ASSUME CounterInit PROVE CounterInv
  OBVIOUS
<1>1. Rollover \in Nat \ {0} /\ Period \in Nat \ {0}
  BY CounterAssumption
<1>2. 0 % Rollover = 0 /\ 0 % Period = 0
  BY <1>1
<1>3. CounterTypes
  <2>1. Idle \in CallerTypes /\ 0 \in 0 .. Period - 1
    BY <1>1 DEF CallerTypes, Idle
  <2>2. 0 \in 0 .. 0 /\ FALSE \in BOOLEAN /\ 0 \in Nat
    OBVIOUS
  <2>3. caller \in [Callers -> CallerTypes]
    BY <2>1 DEF CounterInit
  <2>4. pmCounter \in 0 .. Period - 1 /\ queried \in 0 .. now
    BY <2>1, <2>2 DEF CounterInit
  <2>5. source \in {"pit", "pm"} /\ pending \in BOOLEAN /\ skipped \in BOOLEAN
    BY DEF CounterInit
  <2>6. now \in Nat /\ counted \in Nat /\ missed \in Nat /\ systemCounter \in Int
    BY DEF CounterInit
  <2> QED BY <2>3, <2>4, <2>5, <2>6 DEF CounterTypes
<1>4. PitInv /\ PmInv
  BY <1>1, <1>2 DEF CounterInit, PitInv, PmInv
<1>5. Querying = {} /\ StallInv /\ \A c \in Callers : caller[c].at # "latched"
  BY DEF CounterInit, Querying, StallInv, Idle
<1>6. AnswerInv
  BY <1>1 DEF CounterInit, AnswerInv
<1> QED BY <1>3, <1>4, <1>5, <1>6 DEF CounterInv, QueryInv

LEMMA TickKeeps == CounterInv /\ Tick => CounterInv'
<1> SUFFICES ASSUME CounterInv, Tick PROVE CounterInv'
  OBVIOUS
<1> USE DEF CounterInv
<1>1. Rollover \in Nat \ {0} /\ Period \in Nat \ {0}
  BY CounterAssumption
<1>2. CounterTypes'
  BY DEF CounterTypes, Tick
<1>3. PitInv'
  <2> SUFFICES ASSUME source' = "pit", missed' = 0
               PROVE  /\ pending' => counted' + Rollover = now' - (now' % Rollover)
                      /\ ~pending' => counted' = now' - (now' % Rollover)
                      /\ systemCounter' <= queried'
    BY DEF PitInv
  <2>1. PICK r \in 0 .. Rollover - 1, s \in 0 .. Rollover - 1 :
          r = now % Rollover /\ s = now' % Rollover /\ s = IF r = Rollover - 1 THEN 0 ELSE r + 1
    <3>1. PICK n \in Int : n = now
      BY DEF CounterTypes
    <3>2. (n + 1) % Rollover = IF n % Rollover = Rollover - 1 THEN 0 ELSE (n % Rollover) + 1
      BY <1>1, RestOfNext
    <3> QED BY <1>1, <3>1, <3>2 DEF Tick
  <2>2. /\ source = "pit" /\ counted' = counted /\ systemCounter' = systemCounter
        /\ queried' = queried /\ now' = now + 1 /\ pending' = (pending \/ s = 0)
    BY <2>1 DEF Tick
  <2>3. missed = 0 /\ ~(pending /\ s = 0)
    BY <2>1, <2>2 DEF Tick, CounterTypes
  <2>4. /\ pending => counted + Rollover = now - r
        /\ ~pending => counted = now - r
        /\ systemCounter <= queried
    BY <2>1, <2>2, <2>3 DEF PitInv
  <2>5. CASE s = 0
    <3>1. ~pending /\ pending'
      BY <2>2, <2>3, <2>5
    <3>2. r = Rollover - 1
      BY <1>1, <2>1, <2>5
    <3> QED BY <1>1, <2>1, <2>2, <2>4, <2>5, <3>1, <3>2 DEF CounterTypes
  <2>6. CASE s # 0
    <3>1. (pending' <=> pending) /\ s = r + 1
      BY <1>1, <2>1, <2>2, <2>6
    <3> QED BY <1>1, <2>1, <2>2, <2>4, <3>1 DEF CounterTypes
  <2> QED BY <2>5, <2>6
<1>4. PmInv'
  <2> SUFFICES ASSUME source' = "pm", ~skipped'
               PROVE  systemCounter' = queried' /\ pmCounter' = queried' % Period
                      /\ now' - queried' < Period
    BY DEF PmInv
  <2>1. /\ source = "pm" /\ ~skipped /\ ~(now + 1 - queried >= Period) /\ now' = now + 1
        /\ UNCHANGED <<systemCounter, pmCounter, queried>>
    BY DEF Tick
  <2> QED BY <1>1, <2>1 DEF PmInv, CounterTypes
<1>5. QueryInv'
  <2>1. missed' = 0 => missed = 0
    BY DEF Tick, CounterTypes
  <2> QED BY <2>1 DEF QueryInv, Querying, Value, Tick
<1>6. StallInv'
  <2>1. \A s \in 0 .. now : s \in 0 .. now'
    BY DEF Tick, CounterTypes
  <2> QED BY <2>1 DEF StallInv, Sampled, Tick
<1>7. AnswerInv'
  <2>1. missed' = 0 => missed = 0
    BY DEF Tick, CounterTypes
  <2>2. UNCHANGED <<source, queried, systemCounter, caller>>
    BY DEF Tick
  <2> QED BY <2>1, <2>2 DEF AnswerInv, Querying
<1> QED BY <1>2, <1>3, <1>4, <1>5, <1>6, <1>7

LEMMA CountKeeps == CounterInv /\ HandleClockInterrupt => CounterInv'
<1> SUFFICES ASSUME CounterInv, HandleClockInterrupt PROVE CounterInv'
  OBVIOUS
<1> USE DEF CounterInv
<1>1. Rollover \in Nat \ {0}
  BY CounterAssumption
<1>2. CounterTypes'
  <2>1. counted \in Nat /\ counted' = counted + Rollover /\ pending' = FALSE
    BY DEF CounterTypes, HandleClockInterrupt
  <2>2. counted' \in Nat
    BY <1>1, <2>1
  <2>3. pending' \in BOOLEAN
    BY <2>1
  <2> QED BY <2>2, <2>3 DEF CounterTypes, HandleClockInterrupt
<1>3. PitInv' /\ PmInv'
  BY <1>1 DEF CounterTypes, PitInv, PmInv, HandleClockInterrupt
<1>4. QueryInv'
  <2>1. \A c \in Querying : caller[c].base \in Nat /\ caller[c].base <= counted
    BY DEF QueryInv, Querying, CounterTypes, CallerTypes
  <2>2. \A c \in Querying : caller[c].base # counted' /\ caller[c].base <= counted'
    BY <1>1, <2>1 DEF CounterTypes, HandleClockInterrupt
  <2>3. Querying' = Querying /\ \A c \in Callers : caller[c].at = "latched" => c \in Querying
    BY DEF Querying, HandleClockInterrupt
  <2> QED BY <2>2, <2>3 DEF QueryInv, HandleClockInterrupt
<1>5. StallInv'
  BY DEF StallInv, Sampled, HandleClockInterrupt
<1>6. AnswerInv'
  BY DEF AnswerInv, Querying, HandleClockInterrupt
<1> QED BY <1>2, <1>3, <1>4, <1>5, <1>6

LEMMA PmKeeps ==
  ASSUME CounterInv, NEW c \in Callers, QueryPerformanceCounterAcpiPm(c)
  PROVE  CounterInv'
<1> USE DEF CounterInv
<1>1. Period \in Nat \ {0}
  BY CounterAssumption
<1>2. PICK x \in 0 .. Period - 1 : x = now % Period
  BY <1>1 DEF CounterTypes
<1>3. (x - pmCounter) % Period \in Nat
  BY <1>1, <1>2 DEF CounterTypes
<1>4. /\ source = "pm" /\ pmCounter' = x /\ systemCounter' = systemCounter + ((x - pmCounter) % Period)
      /\ queried' = now
      /\ UNCHANGED <<source, now, pending, counted, missed, skipped, caller>>
  BY <1>2 DEF QueryPerformanceCounterAcpiPm, PmValue
<1>5. CounterTypes'
  BY <1>3, <1>4 DEF CounterTypes
<1>6. PitInv'
  BY <1>4 DEF PitInv
<1>7. PmInv'
  <2> SUFFICES ASSUME ~skipped PROVE systemCounter' = now /\ x = now % Period /\ now - now < Period
    BY <1>4 DEF PmInv
  <2>1. systemCounter = queried /\ pmCounter = queried % Period /\ now - queried < Period
    BY <1>4 DEF PmInv
  <2>2. ((now % Period) - (queried % Period)) % Period = now - queried
    <3>1. PICK n \in Int, q \in Int : n = now /\ q = queried /\ q <= n /\ n - q < Period
      BY <1>1, <2>1 DEF CounterTypes
    <3>2. ((n % Period) - (q % Period)) % Period = n - q
      BY <1>1, <3>1, Distance
    <3> QED BY <3>1, <3>2
  <2> QED BY <1>1, <1>2, <1>4, <2>1, <2>2 DEF CounterTypes
<1>8. QueryInv'
  <2>1. Querying = {}
    BY <1>4 DEF QueryInv
  <2>2. \A d \in Callers : caller[d].at # "latched"
    BY <2>1 DEF Querying
  <2> QED BY <1>4, <2>1, <2>2 DEF QueryInv, Querying
<1>9. StallInv' /\ AnswerInv'
  BY <1>4 DEF StallInv, Sampled, AnswerInv
<1> QED BY <1>5, <1>6, <1>7, <1>8, <1>9

(* Callers: who is in a query, or waits, after a step of caller c that     *)
(* leaves the counters alone.                                              *)
LEMMA CallerStep ==
  ASSUME CounterInv, NEW c \in Callers, NEW r \in CallerTypes, Step(c, r),
         UNCHANGED <<source, now, pending, counted, missed, systemCounter, pmCounter, skipped>>,
         queried' \in queried .. now, source = "pit" \/ queried' = queried,
         r.at \in {"based", "latched"} => source = "pit" /\ Querying \subseteq {c} /\ r.base <= counted,
         r.at \in {"based", "latched"} \/ (c \notin Querying /\ queried' = queried),
         r.at = "latched" /\ missed = 0 /\ r.base = counted
           => Value(r) \in {queried', queried' - Rollover},
         queried' = queried \/ Querying \subseteq {c},
         r.at = "stall" => \E s \in 0 .. now : Sampled(r, s)
  PROVE  CounterInv'
<1> USE DEF CounterInv
<1>1. caller' = [caller EXCEPT ![c] = r] /\ caller'[c] = r
      /\ \A d \in Callers \ {c} : caller'[d] = caller[d]
  BY DEF Step, CounterTypes
<1>2. CounterTypes'
  BY <1>1 DEF CounterTypes
<1>3. PitInv'
  <2>1. systemCounter \in Int /\ queried \in Nat /\ queried' \in Nat /\ queried <= queried'
    BY DEF CounterTypes
  <2> QED BY <2>1 DEF PitInv
<1>4. PmInv'
  BY DEF PmInv
<1>5. Querying' \subseteq Querying \cup {c} /\ (c \in Querying' => r.at \in {"based", "latched"})
  BY <1>1 DEF Querying
<1>6. QueryInv'
  <2>1. Querying' # {} => source' = "pit"
    BY <1>5 DEF QueryInv
  <2>2. \A d, e \in Querying' : d = e
    BY <1>5 DEF QueryInv
  <2>3. \A d \in Querying' : caller'[d].base <= counted'
    BY <1>1, <1>5 DEF QueryInv, Querying
  <2>4. ASSUME NEW d \in Callers, caller'[d].at = "latched", missed' = 0, caller'[d].base = counted'
        PROVE  Value(caller'[d]) \in {queried', queried' - Rollover}
    <3>1. CASE d = c
      BY <1>1, <2>4, <3>1
    <3>2. CASE d # c
      <4>1. caller'[d] = caller[d] /\ d \in Querying
        BY <1>1, <2>4, <3>2 DEF Querying
      <4>2. queried' = queried
        BY <3>2, <4>1
      <4> QED BY <2>4, <4>1, <4>2 DEF QueryInv
    <3> QED BY <3>1, <3>2
  <2> QED BY <2>1, <2>2, <2>3, <2>4 DEF QueryInv, Value
<1>7. StallInv'
  <2> SUFFICES ASSUME NEW d \in Callers, caller'[d].at = "stall"
               PROVE  \E s \in 0 .. now : Sampled(caller'[d], s)
    BY DEF StallInv, Sampled
  <2> QED BY <1>1 DEF StallInv
<1>8. AnswerInv'
  <2> SUFFICES ASSUME Querying' = {}
               PROVE  Querying = {} /\ queried' = queried
    BY DEF AnswerInv
  <2>1. c \notin Querying'
    OBVIOUS
  <2>2. r.at \notin {"based", "latched"}
    BY <1>1, <2>1 DEF Querying
  <2>3. Querying \subseteq Querying'
    BY <1>1, <2>2 DEF Querying
  <2> QED BY <2>2, <2>3
<1> QED BY <1>2, <1>3, <1>4, <1>6, <1>7, <1>8

LEMMA ReadWrapsKeeps ==
  ASSUME CounterInv, NEW c \in Callers, ReadWraps(c)
  PROVE  CounterInv'
<1>1. PICK r \in CallerTypes : r = [caller[c] EXCEPT !.at = "based", !.base = counted]
  BY DEF CounterInv, CounterTypes, CallerTypes
<1>2. r.at = "based" /\ r.base = counted /\ counted <= counted
  BY <1>1 DEF CounterInv, CounterTypes, CallerTypes
<1>3. Querying \subseteq {c}
  BY DEF ReadWraps, LockHeld, Querying
<1>4. queried' \in queried .. now /\ queried' = queried
  BY DEF ReadWraps, CounterInv, CounterTypes
<1> QED BY <1>1, <1>2, <1>3, <1>4, CallerStep DEF ReadWraps

LEMMA LatchKeeps ==
  ASSUME CounterInv, NEW c \in Callers, LatchCounter(c)
  PROVE  CounterInv'
<1>1. Rollover \in Nat \ {0}
  BY CounterAssumption
<1>2. PICK x \in 0 .. Rollover - 1 : x = now % Rollover
  BY <1>1 DEF CounterInv, CounterTypes
<1>3. PICK v \in Nat : v = Rollover - x
  BY <1>1, <1>2
<1>4. PICK r \in CallerTypes : r = [caller[c] EXCEPT !.at = "latched", !.read = v]
  BY <1>3 DEF CounterInv, CounterTypes, CallerTypes
<1>5. r.at = "latched" /\ r.base = caller[c].base /\ r.read = v
  BY <1>4 DEF CounterInv, CounterTypes, CallerTypes
<1>6. c \in Querying /\ Querying \subseteq {c} /\ source = "pit" /\ r.base <= counted
  BY <1>5 DEF LatchCounter, Querying, CounterInv, QueryInv
<1>7. queried' = now /\ now \in queried .. now
  BY DEF LatchCounter, CounterInv, CounterTypes
<1>8. Step(c, r)
  BY <1>2, <1>3, <1>4 DEF LatchCounter, PitValue
<1>9. ASSUME missed = 0, r.base = counted PROVE Value(r) \in {now, now - Rollover}
  <2>1. /\ pending => counted + Rollover = now - x
        /\ ~pending => counted = now - x
    BY <1>2, <1>6, <1>9 DEF CounterInv, PitInv
  <2>2. counted \in Nat /\ now \in Nat
    BY DEF CounterInv, CounterTypes
  <2>3. Value(r) = counted + x
    BY <1>1, <1>2, <1>3, <1>5, <1>9, <2>2 DEF Value
  <2> QED BY <1>1, <1>2, <2>1, <2>2, <2>3
<1> QED BY <1>5, <1>6, <1>7, <1>8, <1>9, CallerStep DEF LatchCounter

LEMMA RetryKeeps ==
  ASSUME CounterInv, NEW c \in Callers, RetryQuery(c)
  PROVE  CounterInv'
<1>1. PICK r \in CallerTypes : r = [caller[c] EXCEPT !.at = "based", !.base = counted]
  BY DEF CounterInv, CounterTypes, CallerTypes
<1>2. r.at = "based" /\ r.base = counted /\ counted <= counted
  BY <1>1 DEF CounterInv, CounterTypes, CallerTypes
<1>3. Querying \subseteq {c} /\ source = "pit"
  BY DEF RetryQuery, Querying, CounterInv, QueryInv
<1>4. queried' \in queried .. now /\ queried' = queried
  BY DEF RetryQuery, CounterInv, CounterTypes
<1> QED BY <1>1, <1>2, <1>3, <1>4, CallerStep DEF RetryQuery

(* What a query of the PIT returns lies between the last answer and the    *)
(* time at which it read the counter, and is that time or one wrap less.   *)
LEMMA AnswerBetween ==
  ASSUME CounterInv, NEW c \in Callers, QueryPerformanceCounterPit(c), missed = 0
  PROVE  systemCounter' \in systemCounter .. queried /\ systemCounter' \in {queried, queried - Rollover}
<1>1. c \in Querying /\ source = "pit"
  BY DEF QueryPerformanceCounterPit, Querying, CounterInv, QueryInv
<1>2. PICK v \in Int : v = Value(caller[c])
  BY CounterAssumption DEF Value, CounterInv, CounterTypes, CallerTypes
<1>3. v \in {queried, queried - Rollover}
  BY <1>2 DEF CounterInv, QueryInv, QueryPerformanceCounterPit
<1>4. systemCounter' = IF v < systemCounter THEN v + Rollover ELSE v
  BY <1>2 DEF QueryPerformanceCounterPit, Compensated, Value
<1>5. systemCounter <= queried /\ systemCounter \in Int /\ queried \in Nat /\ Rollover \in Nat
  BY <1>1, CounterAssumption DEF CounterInv, PitInv, CounterTypes
<1> QED BY <1>3, <1>4, <1>5

LEMMA PitKeeps ==
  ASSUME CounterInv, NEW c \in Callers, QueryPerformanceCounterPit(c)
  PROVE  CounterInv'
<1>1. /\ caller' = [caller EXCEPT ![c] = Idle] /\ source = "pit"
      /\ UNCHANGED <<source, now, pending, counted, missed, pmCounter, queried, skipped>>
  BY DEF QueryPerformanceCounterPit, Step, CounterInv, QueryInv, Querying
<1>2. systemCounter' \in Int
  <2>1. PICK v \in Int : v = Value(caller[c])
    BY CounterAssumption DEF Value, CounterInv, CounterTypes, CallerTypes
  <2>2. systemCounter' = IF v < systemCounter THEN v + Rollover ELSE v
    BY <2>1 DEF QueryPerformanceCounterPit, Compensated, Value
  <2> QED BY <2>1, <2>2, CounterAssumption
<1>3. Idle \in CallerTypes /\ Idle.at = "idle"
  BY DEF CallerTypes, Idle
<1>4. CounterTypes'
  BY <1>1, <1>2, <1>3 DEF CounterInv, CounterTypes
<1>5. PitInv'
  <2>1. missed = 0 => systemCounter' <= queried
    BY AnswerBetween DEF CounterInv, CounterTypes
  <2> QED BY <1>1, <2>1 DEF CounterInv, PitInv
<1>6. PmInv'
  BY <1>1 DEF PmInv
<1>7. caller'[c] = Idle /\ \A d \in Callers \ {c} : caller'[d] = caller[d]
  BY <1>1 DEF CounterInv, CounterTypes
<1>8. QueryInv' /\ StallInv'
  BY <1>1, <1>3, <1>7 DEF CounterInv, QueryInv, Querying, StallInv, Sampled, Value
<1>9. AnswerInv'
  BY <1>1, AnswerBetween DEF AnswerInv
<1> QED BY <1>4, <1>5, <1>6, <1>8, <1>9 DEF CounterInv

LEMMA BeginStallKeeps ==
  ASSUME CounterInv, NEW c \in Callers, NEW n \in Waits, BeginStall(c, n)
  PROVE  CounterInv'
<1>1. Period \in Nat \ {0} /\ n \in Nat /\ now \in Nat
  BY CounterAssumption DEF CounterInv, CounterTypes
<1>2. PICK x \in Nat : x = now % Period
  BY <1>1
<1>3. PICK r \in CallerTypes : r = [caller[c] EXCEPT !.at = "stall", !.read = x, !.left = n,
                                                     !.began = now, !.length = n]
  <2>1. caller[c] \in CallerTypes /\ n \in Int
    BY <1>1 DEF CounterInv, CounterTypes
  <2> QED BY <1>1, <1>2, <2>1 DEF CallerTypes
<1>4. r.at = "stall" /\ r.read = x /\ r.left = n /\ r.began = now /\ r.length = n
  BY <1>3 DEF CounterInv, CounterTypes, CallerTypes
<1>5. now \in 0 .. now /\ Sampled(r, now)
  BY <1>1, <1>2, <1>4 DEF Sampled
<1>6. Step(c, r) /\ queried' = queried /\ queried' \in queried .. now
  BY <1>2, <1>3 DEF BeginStall, PmValue, CounterInv, CounterTypes
<1>7. c \notin Querying
  BY DEF BeginStall, Querying
<1> QED BY <1>4, <1>5, <1>6, <1>7, CallerStep DEF BeginStall

LEMMA SampleStallKeeps ==
  ASSUME CounterInv, NEW c \in Callers, SampleStall(c)
  PROVE  CounterInv'
<1>1. Period \in Nat \ {0} /\ now \in Nat /\ caller[c] \in CallerTypes
  BY CounterAssumption DEF CounterInv, CounterTypes
<1>2. PICK x \in Nat : x = now % Period
  BY <1>1
<1>3. PICK s \in 0 .. now : Sampled(caller[c], s)
  BY DEF SampleStall, CounterInv, StallInv
<1>4. PICK d \in 0 .. now - s : d = (x - caller[c].read) % Period
  <2>1. PICK n \in Int, t \in Int : n = now /\ t = s /\ t <= n /\ caller[c].read = t % Period
    BY <1>1, <1>3 DEF Sampled
  <2>2. ((n % Period) - (t % Period)) % Period \in 0 .. n - t
    BY <1>1, <2>1, Distance
  <2> QED BY <1>2, <2>1, <2>2
<1>5. PICK l \in Int : l = caller[c].left - d
  BY <1>1, <1>4 DEF CallerTypes
<1>6. PICK r \in CallerTypes : r = [caller[c] EXCEPT !.left = l, !.read = x]
  BY <1>1, <1>2, <1>5 DEF CallerTypes
<1>7. /\ r.at = "stall" /\ r.read = x /\ r.left = l
      /\ r.began = caller[c].began /\ r.length = caller[c].length
  BY <1>1, <1>6 DEF CallerTypes, SampleStall
<1>8. Sampled(r, now) /\ now \in 0 .. now
  <2>1. r.length - r.left <= now - r.began
    BY <1>1, <1>3, <1>4, <1>5, <1>7 DEF Sampled, CallerTypes
  <2> QED BY <1>1, <1>2, <1>7, <2>1 DEF Sampled
<1>9. Step(c, r) /\ queried' = queried /\ queried' \in queried .. now
  <2>1. Step(c, r)
    BY <1>2, <1>4, <1>5, <1>6 DEF SampleStall, PmValue
  <2> QED BY <2>1, SMTT(30) DEF SampleStall, CounterInv, CounterTypes
<1>10. c \notin Querying
  BY DEF SampleStall, Querying
<1> QED BY <1>7, <1>8, <1>9, <1>10, CallerStep DEF SampleStall

LEMMA EndStallKeeps ==
  ASSUME CounterInv, NEW c \in Callers, EndStall(c)
  PROVE  CounterInv'
<1>1. Idle \in CallerTypes /\ Idle.at = "idle"
  BY DEF CallerTypes, Idle
<1>2. queried' = queried /\ queried' \in queried .. now
  BY DEF EndStall, CounterInv, CounterTypes
<1>3. c \notin Querying
  BY DEF EndStall, Querying
<1> QED BY <1>1, <1>2, <1>3, CallerStep DEF EndStall

LEMMA CounterStep == CounterInv /\ CounterNext => CounterInv'
BY TickKeeps, CountKeeps, PmKeeps, ReadWrapsKeeps, LatchKeeps, RetryKeeps, PitKeeps,
   BeginStallKeeps, SampleStallKeeps, EndStallKeeps DEF CounterNext

LEMMA CounterIdle == CounterInv /\ UNCHANGED counterVars => CounterInv'
BY DEF CounterInv, CounterTypes, PitInv, PmInv, QueryInv, Querying, Value, AnswerInv, StallInv,
       Sampled, counterVars

LEMMA CounterInvKeepsTime == CounterInv => TimeKept
<1> SUFFICES ASSUME CounterInv PROVE TimeKept
  OBVIOUS
<1>1. CounterTracksTime
  <2>1. ~LockHeld => Querying = {}
    BY DEF LockHeld, Querying
  <2>2. source = "pit" /\ missed = 0 /\ ~LockHeld => systemCounter \in {queried, queried - Rollover}
    BY <2>1 DEF CounterInv, AnswerInv
  <2>3. source = "pit" /\ missed = 0 => systemCounter <= now
    BY DEF CounterInv, PitInv, CounterTypes
  <2>4. source = "pm" /\ ~skipped => systemCounter = queried
    BY DEF CounterInv, PmInv
  <2> QED BY <2>2, <2>3, <2>4 DEF CounterTracksTime
<1>2. StallsLongEnough
  <2> SUFFICES ASSUME NEW c \in Callers, caller[c].at = "stall", caller[c].left <= 0
               PROVE  now - caller[c].began >= caller[c].length
    BY DEF StallsLongEnough
  <2>1. PICK s \in 0 .. now : Sampled(caller[c], s)
    BY DEF CounterInv, StallInv
  <2> QED BY <2>1 DEF Sampled, CounterInv, CounterTypes, CallerTypes
<1> QED BY <1>1, <1>2 DEF TimeKept

LEMMA CounterRises ==
  ASSUME CounterInv, CounterNext, missed = 0
  PROVE  systemCounter' >= systemCounter
<1>1. systemCounter \in Int
  BY DEF CounterInv, CounterTypes
<1>2. ASSUME NEW c \in Callers, QueryPerformanceCounterAcpiPm(c)
      PROVE  systemCounter' >= systemCounter
  <2>1. PICK d \in Nat : d = (PmValue - pmCounter) % Period
    BY CounterAssumption DEF PmValue, CounterInv, CounterTypes
  <2> QED BY <1>1, <1>2, <2>1 DEF QueryPerformanceCounterAcpiPm
<1>3. ASSUME NEW c \in Callers, QueryPerformanceCounterPit(c)
      PROVE  systemCounter' >= systemCounter
  BY <1>1, <1>3, AnswerBetween DEF CounterInv, CounterTypes
<1>4. systemCounter' = systemCounter => systemCounter' >= systemCounter
  BY <1>1
<1> QED BY <1>2, <1>3, <1>4
   DEF CounterNext, Tick, HandleClockInterrupt, ReadWraps, LatchCounter, RetryQuery, BeginStall,
       SampleStall, EndStall

-----------------------------------------------------------------------------
(* The hardware pool.                                                      *)

(* Adding what is missing to the next multiple.                            *)
LEMMA AlignsUp ==
  ASSUME NEW b \in Nat, NEW m \in Nat \ {0}
  PROVE  (0 - b) % m \in 0 .. m - 1 /\ (b + ((0 - b) % m)) % m = 0
<1>1. PICK n \in Int : n = 0 - b
  OBVIOUS
<1>2. PICK a \in Int, s \in 0 .. m - 1 : n = m * a + s /\ n % m = s
  <2>1. \E a \in Int, s \in 0 .. m - 1 : n = m * a + s /\ n % m = s /\ n \div m = a
    OBVIOUS
  <2> QED BY <2>1
<1>3. PICK c \in Int : c = -a
  OBVIOUS
<1>4. b + s = m * c + 0
  <2>1. m * c = -(m * a)
    BY <1>3
  <2>2. m * a \in Int /\ s \in Int
    OBVIOUS
  <2>3. PICK x \in Int : x = m * a
    BY <2>2
  <2>4. b + s = -x
    BY <1>1, <1>2, <2>3
  <2> QED BY <2>1, <2>3, <2>4
<1>5. (b + s) % m = 0
  <2>1. b + s \in Int /\ 0 \in 0 .. m - 1
    OBVIOUS
  <2> QED BY <1>4, <2>1, RestIs
<1> QED BY <1>1, <1>2, <1>5


(* Descriptors in the order of their addresses, whatever lies between.     *)
Ordered(ds) ==
  \A i, j \in DOMAIN ds : i < j => ds[i].base + ds[i].count <= ds[j].base

DescriptorTypes == {"free", "used", "hardware"}
DescriptorRecord == [base : Nat, count : Nat, type : DescriptorTypes]
BufferRecord == [base : Nat, count : Nat, aligned : BOOLEAN]

(* Pieces that lie within the descriptor they take the place of, in order, *)
(* and cover its pages.                                                    *)
Divides(p, d) ==
  /\ p \in Seq(DescriptorRecord) /\ Ordered(p)
  /\ \A i \in DOMAIN p : d.base <= p[i].base /\ p[i].base + p[i].count <= d.base + d.count

(* Element j of what ReplaceBy makes comes from before, out of the pieces  *)
(* or from behind.                                                         *)
LEMMA ReplaceByProperties ==
  ASSUME NEW S, NEW s \in Seq(S), NEW i \in 1 .. Len(s), NEW p \in Seq(S)
  PROVE  /\ ReplaceBy(s, i, p) \in Seq(S)
         /\ Len(ReplaceBy(s, i, p)) = Len(s) - 1 + Len(p)
         /\ \A j \in 1 .. Len(s) - 1 + Len(p) :
              ReplaceBy(s, i, p)[j] =
                IF j < i THEN s[j] ELSE IF j < i + Len(p) THEN p[j - i + 1]
                ELSE s[j - Len(p) + 1]
<1> DEFINE a == SubSeq(s, 1, i - 1)
           b == SubSeq(s, i + 1, Len(s))
<1>1. Len(s) \in Nat /\ Len(p) \in Nat /\ i \in Nat /\ \A j \in 1 .. Len(s) : s[j] \in S
  BY LenProperties, ElementOfSeq
<1>2. a \in Seq(S) /\ Len(a) = i - 1 /\ \A j \in 1 .. i - 1 : a[j] = s[j]
  BY <1>1
<1>3. b \in Seq(S) /\ Len(b) = Len(s) - i /\ \A j \in 1 .. Len(s) - i : b[j] = s[i + j]
  BY <1>1
<1>4. ReplaceBy(s, i, p) = a \o p \o b
  BY DEF ReplaceBy
<1> HIDE DEF a, b
<1>0. PICK front : front = a \o p
  OBVIOUS
<1>5. /\ front \in Seq(S) /\ Len(front) = i - 1 + Len(p)
      /\ \A j \in 1 .. i - 1 + Len(p) : front[j] = IF j < i THEN s[j] ELSE p[j - i + 1]
  <2>1. /\ a \o p \in Seq(S) /\ Len(a \o p) = Len(a) + Len(p)
        /\ \A j \in 1 .. Len(a) + Len(p) :
             (a \o p)[j] = IF j <= Len(a) THEN a[j] ELSE p[j - Len(a)]
    BY <1>2, ConcatProperties
  <2>2. \A j \in 1 .. i - 1 + Len(p) :
          /\ j \in Int /\ (j <= i - 1 <=> j < i) /\ j - (i - 1) = j - i + 1
          /\ j < i => j \in 1 .. i - 1
    BY <1>1
  <2> QED BY <1>0, <1>2, <2>1, <2>2
<1>6. /\ front \o b \in Seq(S) /\ Len(front \o b) = Len(front) + Len(b)
      /\ \A j \in 1 .. Len(front) + Len(b) :
           (front \o b)[j] = IF j <= Len(front) THEN front[j] ELSE b[j - Len(front)]
  <2>1. front \in Seq(S) /\ b \in Seq(S)
    BY <1>3, <1>5
  <2> QED BY <2>1, ConcatProperties
<1>7. PICK n \in Nat, m \in Nat : n = Len(s) /\ m = Len(p)
  BY <1>1
<1>8. Len(front) + Len(b) = Len(s) - 1 + Len(p)
  <2>1. (i - 1 + m) + (n - i) = n - 1 + m
    BY <1>1
  <2> QED BY <1>3, <1>5, <1>7, <2>1
<1>9. ASSUME NEW j \in 1 .. Len(s) - 1 + Len(p)
      PROVE  (front \o b)[j] = IF j < i THEN s[j] ELSE IF j < i + Len(p) THEN p[j - i + 1]
                            ELSE s[j - Len(p) + 1]
  <2>1. j \in Int /\ 1 <= j /\ j <= n - 1 + m /\ i \in Int
    BY <1>1, <1>7
  <2>2. CASE j < i + m
    <3>1. j <= Len(front) /\ j \in 1 .. i - 1 + m
      BY <1>1, <1>5, <1>7, <2>1, <2>2
    <3> QED BY <1>5, <1>6, <1>7, <1>8, <2>2, <3>1
  <2>3. CASE ~(j < i + m)
    <3>1. ~(j <= i - 1 + m) /\ j - (i - 1 + m) \in 1 .. n - i /\ i + (j - (i - 1 + m)) = j - m + 1
          /\ ~(j < i)
      BY <1>1, <1>7, <2>1, <2>3
    <3> QED BY <1>3, <1>5, <1>6, <1>7, <1>8, <2>3, <3>1
  <2> QED BY <1>7, <2>2, <2>3
<1> QED BY <1>0, <1>4, <1>6, <1>8, <1>9

(* Which pages the descriptors of a type cover.                            *)
LEMMA CoveredBy ==
  ASSUME NEW ds, NEW t, NEW x
  PROVE  x \in Covered(ds, t) <=> \E j \in DOMAIN ds : ds[j].type = t /\ x \in PagesOf(ds[j])
BY DEF Covered

LEMMA InPages ==
  ASSUME NEW d, d.base \in Nat, d.count \in Nat, NEW x
  PROVE  x \in PagesOf(d) <=> x \in Nat /\ d.base <= x /\ x < d.base + d.count
BY DEF PagesOf

(* Pieces keep the order.                                                  *)
LEMMA DividingKeepsOrder ==
  ASSUME NEW s \in Seq(DescriptorRecord), Ordered(s), NEW i \in 1 .. Len(s), NEW p, Divides(p, s[i])
  PROVE  ReplaceBy(s, i, p) \in Seq(DescriptorRecord) /\ Ordered(ReplaceBy(s, i, p))
<1>1. /\ p \in Seq(DescriptorRecord) /\ Ordered(p)
      /\ \A j \in DOMAIN p : s[i].base <= p[j].base /\ p[j].base + p[j].count <= s[i].base + s[i].count
  BY DEF Divides
<1>2. PICK r : r = ReplaceBy(s, i, p)
  OBVIOUS
<1>3. PICK n \in Nat, m \in Nat : n = Len(s) /\ m = Len(p) /\ DOMAIN s = 1 .. n /\ DOMAIN p = 1 .. m
  BY <1>1, LenProperties
<1>4. /\ r \in Seq(DescriptorRecord) /\ DOMAIN r = 1 .. n - 1 + m
      /\ \A j \in 1 .. n - 1 + m :
           r[j] = IF j < i THEN s[j] ELSE IF j < i + m THEN p[j - i + 1] ELSE s[j - m + 1]
  <2>1. /\ r \in Seq(DescriptorRecord) /\ Len(r) = Len(s) - 1 + Len(p)
        /\ \A j \in 1 .. Len(s) - 1 + Len(p) :
             r[j] = IF j < i THEN s[j]
                    ELSE IF j < i + Len(p) THEN p[j - i + 1] ELSE s[j - Len(p) + 1]
    BY <1>1, <1>2, ReplaceByProperties
  <2>2. Len(r) = n - 1 + m /\ DOMAIN r = 1 .. Len(r)
    BY <1>3, <2>1, LenProperties
  <2> QED BY <1>3, <2>1, <2>2
<1>5. \A j \in DOMAIN s : s[j].base \in Nat /\ s[j].count \in Nat
  <2>1. \A j \in DOMAIN s : s[j] \in DescriptorRecord
    BY <1>3, ElementOfSeq
  <2> QED BY <2>1 DEF DescriptorRecord
<1>6. \A j \in DOMAIN p : p[j].base \in Nat /\ p[j].count \in Nat
  <2>1. \A j \in DOMAIN p : p[j] \in DescriptorRecord
    BY <1>1, <1>3, ElementOfSeq
  <2> QED BY <2>1 DEF DescriptorRecord
<1>7. \A j, k \in DOMAIN s : j < k => s[j].base + s[j].count <= s[k].base
  BY DEF Ordered
<1>8. \A j, k \in DOMAIN p : j < k => p[j].base + p[j].count <= p[k].base
  BY <1>1 DEF Ordered
<1>9. ASSUME NEW j \in 1 .. n - 1 + m, NEW k \in 1 .. n - 1 + m, j < k
      PROVE  r[j].base + r[j].count <= r[k].base
  <2>0. i \in Int /\ 1 <= i /\ i <= n /\ j \in Int /\ k \in Int /\ i \in DOMAIN s
    BY <1>3
  <2>1. CASE j < i /\ k < i
    <3>1. j \in DOMAIN s /\ k \in DOMAIN s
      BY <1>3, <2>0, <2>1
    <3> QED BY <1>4, <1>7, <1>9, <2>1, <3>1
  <2>2. CASE j < i /\ ~(k < i) /\ k < i + m
    <3>1. j \in DOMAIN s /\ k - i + 1 \in DOMAIN p
      BY <1>3, <2>0, <2>2
    <3>2. r[j] = s[j] /\ r[k] = p[k - i + 1]
      BY <1>4, <2>2
    <3>3. s[j].base + s[j].count <= s[i].base /\ s[i].base <= p[k - i + 1].base
      BY <1>1, <1>7, <2>0, <2>2, <3>1
    <3> QED BY <1>5, <1>6, <2>0, <3>1, <3>2, <3>3
  <2>3. CASE j < i /\ ~(k < i + m)
    <3>1. j \in DOMAIN s /\ k - m + 1 \in DOMAIN s /\ j < k - m + 1
      BY <1>3, <2>0, <2>3
    <3>2. r[j] = s[j] /\ r[k] = s[k - m + 1]
      BY <1>3, <1>4, <2>0, <2>3
    <3> QED BY <1>7, <3>1, <3>2
  <2>4. CASE ~(j < i) /\ k < i + m
    <3>1. j - i + 1 \in DOMAIN p /\ k - i + 1 \in DOMAIN p /\ j - i + 1 < k - i + 1
      BY <1>3, <1>9, <2>0, <2>4
    <3>2. r[j] = p[j - i + 1] /\ r[k] = p[k - i + 1]
      BY <1>3, <1>4, <1>9, <2>0, <2>4
    <3> QED BY <1>8, <3>1, <3>2
  <2>5. CASE ~(j < i) /\ j < i + m /\ ~(k < i + m)
    <3>1. PICK a \in Int, b \in Int : a = j - i + 1 /\ b = k - m + 1
      BY <1>3, <2>0
    <3>2. a \in DOMAIN p /\ b \in DOMAIN s /\ i < b
      BY <1>3, <2>0, <2>5, <3>1
    <3>3. r[j] = p[a] /\ r[k] = s[b]
      BY <1>3, <1>4, <2>0, <2>5, <3>1
    <3>4. p[a].base + p[a].count <= s[i].base + s[i].count /\ s[i].base + s[i].count <= s[b].base
      BY <1>1, <1>7, <2>0, <3>2
    <3>5. i \in DOMAIN s
      BY <1>3
    <3>6. /\ p[a].base \in Nat /\ p[a].count \in Nat /\ s[b].base \in Nat
          /\ s[i].base \in Nat /\ s[i].count \in Nat
      BY <1>5, <1>6, <3>2, <3>5
    <3>7. PICK e \in Nat : e = p[a].base + p[a].count
      BY <3>6
    <3>8. PICK f \in Nat : f = s[i].base + s[i].count
      BY <3>6
    <3>9. PICK g \in Nat : g = s[b].base
      BY <3>6
    <3>10. e <= g
      BY <3>4, <3>7, <3>8, <3>9
    <3> QED BY <3>3, <3>7, <3>9, <3>10
  <2>6. CASE ~(j < i + m)
    <3>1. j - m + 1 \in DOMAIN s /\ k - m + 1 \in DOMAIN s /\ j - m + 1 < k - m + 1
      BY <1>3, <1>9, <2>0, <2>6
    <3>2. r[j] = s[j - m + 1] /\ r[k] = s[k - m + 1] 
      BY <1>3, <1>4, <1>9, <2>0, <2>6
    <3> QED BY <1>7, <3>1, <3>2
  <2> QED BY <1>3, <1>9, <2>0, <2>1, <2>2, <2>3, <2>4, <2>5, <2>6
<1> QED BY <1>2, <1>4, <1>9 DEF Ordered

(* What is covered afterwards: what the others cover, and the pieces.      *)
LEMMA DividingCovers ==
  ASSUME NEW s \in Seq(DescriptorRecord), NEW i \in 1 .. Len(s), NEW p \in Seq(DescriptorRecord),
         NEW t, NEW x
  PROVE  x \in Covered(ReplaceBy(s, i, p), t) <=>
           \/ \E j \in DOMAIN s : j # i /\ s[j].type = t /\ x \in PagesOf(s[j])
           \/ x \in Covered(p, t)
<1>1. PICK r : r = ReplaceBy(s, i, p)
  OBVIOUS
<1>2. PICK n \in Nat, m \in Nat : n = Len(s) /\ m = Len(p) /\ DOMAIN s = 1 .. n /\ DOMAIN p = 1 .. m
  BY LenProperties
<1>3. /\ r \in Seq(DescriptorRecord) /\ DOMAIN r = 1 .. n - 1 + m
      /\ \A j \in 1 .. n - 1 + m :
           r[j] = IF j < i THEN s[j] ELSE IF j < i + m THEN p[j - i + 1] ELSE s[j - m + 1]
  BY <1>1, <1>2, ReplaceByProperties, LenProperties
<1>4. i \in Int /\ 1 <= i /\ i <= n
  BY <1>2
<1>5. ASSUME NEW j \in DOMAIN r
      PROVE  \/ \E k \in DOMAIN s : k # i /\ r[j] = s[k]
             \/ \E k \in DOMAIN p : r[j] = p[k]
  <2>1. CASE j < i
    <3>1. j \in DOMAIN s /\ j # i
      BY <1>2, <1>3, <1>4, <2>1
    <3> QED BY <1>3, <2>1, <3>1
  <2>2. CASE ~(j < i) /\ j < i + m
    <3>1. j - i + 1 \in DOMAIN p
      BY <1>2, <1>3, <1>4, <2>2
    <3> QED BY <1>3, <2>2, <3>1
  <2>3. CASE ~(j < i + m)
    <3>1. j - m + 1 \in DOMAIN s /\ j - m + 1 # i /\ ~(j < i)
      BY <1>2, <1>3, <1>4, <2>3
    <3> QED BY <1>3, <2>3, <3>1
  <2> QED BY <1>2, <1>3, <1>4, <2>1, <2>2, <2>3
<1>6. ASSUME NEW k \in DOMAIN s, k # i PROVE \E j \in DOMAIN r : r[j] = s[k]
  <2>1. CASE k < i
    <3>1. k \in DOMAIN r
      BY <1>2, <1>3, <1>4, <2>1
    <3> QED BY <1>3, <2>1, <3>1
  <2>2. CASE ~(k < i)
    <3>1. k \in Int /\ k <= n /\ k > i
      BY <1>2, <1>4, <1>6, <2>2
    <3>2. PICK j \in Int : j = k + m - 1
      BY <1>2, <3>1
    <3>3. m \in Int /\ m >= 0 /\ n \in Int
      BY <1>2
    <3>4. j - m + 1 = k /\ j <= n - 1 + m /\ j >= i + m
      BY <1>4, <3>1, <3>2, <3>3
    <3>5. j >= 1 /\ ~(j < i) /\ ~(j < i + m)
      BY <1>4, <3>1, <3>2, <3>3
    <3>6. j \in DOMAIN r
      BY <1>3, <3>2, <3>3, <3>4, <3>5
    <3>7. r[j] = s[j - m + 1]
      BY <1>3, <3>5, <3>6
    <3> QED BY <3>4, <3>6, <3>7
  <2> QED BY <2>1, <2>2
<1>7. ASSUME NEW k \in DOMAIN p PROVE \E j \in DOMAIN r : r[j] = p[k]
  <2>1. PICK j : j = k + i - 1
    OBVIOUS
  <2>2. j \in 1 .. n - 1 + m /\ ~(j < i) /\ j < i + m /\ j - i + 1 = k
    BY <1>2, <1>4, <2>1
  <2> QED BY <1>3, <2>2
<1>8. x \in Covered(r, t) <=> \E j \in DOMAIN r : r[j].type = t /\ x \in PagesOf(r[j])
  BY CoveredBy
<1>9. x \in Covered(p, t) <=> \E j \in DOMAIN p : p[j].type = t /\ x \in PagesOf(p[j])
  BY CoveredBy
<1>10. ASSUME x \in Covered(r, t)
       PROVE  \/ \E j \in DOMAIN s : j # i /\ s[j].type = t /\ x \in PagesOf(s[j])
              \/ x \in Covered(p, t)
  BY <1>5, <1>8, <1>9, <1>10
<1>11. ASSUME NEW k \in DOMAIN s, k # i, s[k].type = t, x \in PagesOf(s[k])
       PROVE  x \in Covered(r, t)
  BY <1>6, <1>8, <1>11
<1>12. ASSUME x \in Covered(p, t) PROVE x \in Covered(r, t)
  BY <1>7, <1>8, <1>9, <1>12
<1> QED BY <1>1, <1>10, <1>11, <1>12

(* A descriptor divided by a request: what is skipped, the buffer, the     *)
(* rest.                                                                   *)
LEMMA PiecesDivide ==
  ASSUME NEW d \in DescriptorRecord, NEW q, q.count \in Nat, Skip(d, q) \in Nat,
         d.count >= q.count + Skip(d, q), d.type = "free",
         NEW bf, bf.base = d.base + Skip(d, q), bf.count = q.count
  PROVE  /\ Divides(Pieces(d, q), d)
         /\ \A x : x \in Covered(Pieces(d, q), "hardware") <=> x \in PagesOf(bf)
         /\ \A x : x \notin Covered(Pieces(d, q), "used")
         /\ \A x : x \in Covered(Pieces(d, q), "free") <=> x \in PagesOf(d) /\ x \notin PagesOf(bf)
<1>1. PICK b \in Nat, c \in Nat, k \in Nat, n \in Nat :
        b = d.base /\ c = d.count /\ k = Skip(d, q) /\ n = q.count
  BY DEF DescriptorRecord
<1>2. PICK r \in Nat : r = c - k - n
  BY <1>1
<1>3. PICK F, H, R : /\ F = [base |-> b, count |-> k, type |-> "free"]
                     /\ H = [base |-> b + k, count |-> n, type |-> "hardware"]
                     /\ R = [base |-> b + k + n, count |-> r, type |-> "free"]
  OBVIOUS
<1>4. F \in DescriptorRecord /\ H \in DescriptorRecord /\ R \in DescriptorRecord
  BY <1>3 DEF DescriptorRecord, DescriptorTypes
<1>5. \A x : /\ x \in PagesOf(F) <=> x \in Nat /\ b <= x /\ x < b + k
             /\ x \in PagesOf(H) <=> x \in Nat /\ b + k <= x /\ x < b + k + n
             /\ x \in PagesOf(R) <=> x \in Nat /\ b + k + n <= x /\ x < b + k + n + r
             /\ x \in PagesOf(d) <=> x \in Nat /\ b <= x /\ x < b + c
             /\ x \in PagesOf(bf) <=> x \in Nat /\ b + k <= x /\ x < b + k + n
  BY <1>1, <1>3 DEF PagesOf
<1>6. b + c = b + k + n + r
  BY <1>1, <1>2
<1>7. PICK p : p = Pieces(d, q)
  OBVIOUS
<1>8. \/ k = 0 /\ r = 0 /\ p = <<H>>
      \/ k = 0 /\ p = <<H, R>>
      \/ r = 0 /\ p = <<F, H>>
      \/ p = <<F, H, R>>
  <2>1. CASE k = 0
    <3>1. b + k = b /\ (c = n <=> r = 0) /\ b + k + n = b + n /\ (r # 0 => c - n = r)
      BY <1>1, <1>2, <2>1
    <3>2. Extent(b, n, "hardware") = H /\ (r # 0 => Extent(b + n, c - n, "free") = R)
      BY <1>3, <3>1 DEF Extent
    <3>3. p = PiecesUnskipped(d, q)
      BY <1>1, <1>7, <2>1 DEF Pieces
    <3>4. CASE r = 0
      <4>1. PiecesUnskipped(d, q) = <<Extent(b, n, "hardware")>> \o
              (IF c = n THEN <<>> ELSE <<Extent(b + n, c - n, "free")>>)
        BY <1>1 DEF PiecesUnskipped
      <4>2. c = n /\ Extent(b, n, "hardware") = H
        BY <3>1, <3>2, <3>4
      <4>3. PiecesUnskipped(d, q) = <<H>> \o <<>>
        BY <4>1, <4>2
      <4> QED BY <2>1, <3>3, <3>4, <4>3
    <3>5. CASE r # 0
      <4>1. PiecesUnskipped(d, q) = <<Extent(b, n, "hardware")>> \o
              (IF c = n THEN <<>> ELSE <<Extent(b + n, c - n, "free")>>)
        BY <1>1 DEF PiecesUnskipped
      <4>2. c # n /\ Extent(b, n, "hardware") = H /\ Extent(b + n, c - n, "free") = R
        BY <3>1, <3>2, <3>5
      <4>3. PiecesUnskipped(d, q) = <<H>> \o <<R>>
        BY <4>1, <4>2
      <4>4. <<H>> \o <<R>> = <<H, R>>
        BY <1>4, JoinTuples
      <4> QED BY <2>1, <3>3, <4>3, <4>4, Zenon
    <3> QED BY <3>4, <3>5
  <2>2. CASE k # 0
    <3>1. RestOf(d, q) = r
      BY <1>1, <1>2 DEF RestOf
    <3>2. Extent(b, k, "free") = F /\ Extent(b + k, n, "hardware") = H
          /\ Extent(b + k + n, r, "free") = R
      BY <1>3 DEF Extent
    <3>3. p = <<F, H>> \o RestAfter(d, q)
      BY <1>1, <1>7, <2>2, <3>2 DEF Pieces
    <3>4. RestAfter(d, q) = IF RestOf(d, q) = 0 THEN <<>>
                            ELSE <<Extent(b + k + n, RestOf(d, q), "free")>>
      BY <1>1 DEF RestAfter
    <3>5. <<F, H>> \o <<R>> = <<F, H, R>>
      BY <1>4, JoinTuples
    <3>6. CASE r = 0
      <4>1. RestAfter(d, q) = <<>>
        BY <3>1, <3>4, <3>6
      <4>2. p = <<F, H>> \o <<>>
        BY <3>3, <4>1, Zenon
      <4>3. <<F, H>> \o <<>> = <<F, H>>
        OBVIOUS
      <4> QED BY <3>6, <4>2, <4>3, Zenon
    <3>7. CASE r # 0
      <4>1. RestAfter(d, q) = <<R>>
        BY <3>1, <3>2, <3>4, <3>7
      <4>2. p = <<F, H>> \o <<R>>
        BY <3>3, <4>1, Zenon
      <4> QED BY <3>5, <4>2, Zenon
    <3> QED BY <3>6, <3>7
  <2> QED BY <2>1, <2>2
<1>9. /\ p \in Seq(DescriptorRecord)
      /\ \A i \in DOMAIN p : p[i] \in {F, H, R}
      /\ \E i \in DOMAIN p : p[i] = H
      /\ k = 0 \/ \E i \in DOMAIN p : p[i] = F
      /\ r = 0 \/ \E i \in DOMAIN p : p[i] = R
      /\ \A i, j \in DOMAIN p : i < j => \/ p[i] = F /\ p[j] \in {H, R}
                                         \/ p[i] = H /\ p[j] = R
  <2>1. CASE p = <<H>> /\ k = 0 /\ r = 0
    <3>1. p \in Seq(DescriptorRecord) /\ DOMAIN p = {1} /\ p[1] = H
      BY <1>4, <2>1
    <3> QED BY <2>1, <3>1
  <2>2. CASE p = <<H, R>> /\ k = 0
    <3>1. p \in Seq(DescriptorRecord) /\ DOMAIN p = {1, 2} /\ p[1] = H /\ p[2] = R
      BY <1>4, <2>2
    <3> QED BY <2>2, <3>1
  <2>3. CASE p = <<F, H>> /\ r = 0
    <3>1. p \in Seq(DescriptorRecord) /\ DOMAIN p = {1, 2} /\ p[1] = F /\ p[2] = H
      BY <1>4, <2>3
    <3> QED BY <2>3, <3>1
  <2>4. CASE p = <<F, H, R>>
    <3>1. p \in Seq(DescriptorRecord) /\ DOMAIN p = {1, 2, 3} /\ p[1] = F /\ p[2] = H /\ p[3] = R
      BY <1>4, <2>4
    <3> QED BY <3>1
  <2> QED BY <1>8, <2>1, <2>2, <2>3, <2>4
<1>10. Divides(p, d)
  <2>1. \A y \in {F, H, R} : b <= y.base /\ y.base + y.count <= b + c
    BY <1>3, <1>6
  <2>2. \A y \in {H, R} : F.base + F.count <= y.base
    BY <1>3
  <2>3. H.base + H.count <= R.base
    BY <1>3
  <2>4. Ordered(p)
    BY <1>9, <2>2, <2>3 DEF Ordered
  <2> QED BY <1>1, <1>9, <2>1, <2>4 DEF Divides
<1>11. F.type = "free" /\ H.type = "hardware" /\ R.type = "free"
  BY <1>3
<1>12. \A x, t : x \in Covered(p, t) <=> \E j \in DOMAIN p : p[j].type = t /\ x \in PagesOf(p[j])
  BY CoveredBy
<1>13. \A x : x \in Covered(p, "hardware") <=> x \in PagesOf(H)
  BY <1>9, <1>11, <1>12
<1>14. \A x : x \notin Covered(p, "used")
  BY <1>9, <1>11, <1>12
<1>15. \A x : x \in Covered(p, "free") <=> x \in PagesOf(F) \/ x \in PagesOf(R)
  <2>1. k = 0 => \A x : x \notin PagesOf(F)
    BY <1>5
  <2>2. r = 0 => \A x : x \notin PagesOf(R)
    BY <1>5
  <2> QED BY <1>9, <1>11, <1>12, <2>1, <2>2
<1>16. \A x : (x \in PagesOf(F) \/ x \in PagesOf(R)) <=> x \in PagesOf(d) /\ x \notin PagesOf(bf)
  BY <1>5, <1>6
<1>17. \A x : x \in PagesOf(H) <=> x \in PagesOf(bf)
  BY <1>5
<1> QED BY <1>7, <1>10, <1>13, <1>14, <1>15, <1>16, <1>17

(* What a request needs of a descriptor.                                   *)
LEMMA SkipAligns ==
  ASSUME NEW d \in DescriptorRecord, NEW q, q.aligned \in BOOLEAN, HardwareAssumption
  PROVE  /\ Skip(d, q) \in Nat
         /\ q.aligned => (d.base + Skip(d, q)) % Align = 0
<1>1. d.base \in Nat /\ Align \in Nat \ {0}
  BY DEF DescriptorRecord, HardwareAssumption
<1>2. /\ (0 - d.base) % Align \in 0 .. Align - 1
      /\ (d.base + ((0 - d.base) % Align)) % Align = 0
  BY <1>1, AlignsUp
<1>3. \A x \in 0 .. Align - 1 : x \in Nat
  BY <1>1
<1> QED BY <1>2, <1>3 DEF Skip
(* The invariant: a descriptor ends before any later one begins, and until *)
(* a mapping goes past the end neither the start nor a mapping lies there. *)
HardwareTypes ==
  /\ descriptors \in Seq(DescriptorRecord) /\ buffers \in Seq(BufferRecord)
  /\ usedDescriptors \in Nat /\ heapStart \in Nat /\ wrapped \in BOOLEAN
  /\ mappings \subseteq [base : Nat, count : Nat \ {0}]

WithinRange ==
  ~wrapped => heapStart <= HeapPages /\ \A r \in mappings : r.base + r.count <= HeapPages

HardwareInv ==
  HardwareTypes /\ Ordered(descriptors) /\ DescriptorsTile /\ MappingsExact /\ WithinRange

LEMMA HardwareStart == HardwareInit => HardwareInv
<1> SUFFICES ASSUME HardwareInit PROVE HardwareInv
  OBVIOUS
<1>1. /\ descriptors = Memory /\ usedDescriptors = 0 /\ buffers = <<>>
      /\ heapStart = 0 /\ mappings = {} /\ wrapped = FALSE
  BY DEF HardwareInit
<1>2. PICK S : S = [base : Nat, count : Nat, type : {"free", "used"}]
  OBVIOUS
<1>3. Memory \in Seq(S) /\ \A x \in S : x \in DescriptorRecord /\ x.type # "hardware"
  BY <1>2, MemoryAssumption DEF DescriptorRecord, DescriptorTypes
<1>4. /\ DOMAIN Memory = 1 .. Len(Memory) /\ Len(Memory) \in Nat
      /\ \A j \in DOMAIN Memory : Memory[j] \in S
  BY <1>3, LenProperties, ElementOfSeq
<1>5. descriptors \in Seq(DescriptorRecord)
  <2>1. Memory \in Seq(DescriptorRecord)
    BY <1>3, <1>4
  <2> QED BY <1>1, <2>1
<1>6. Ordered(descriptors)
  BY <1>1, <1>4, MemoryAssumption DEF Ordered
<1>7. HardwareTypes
  <2>1. <<>> \in Seq(BufferRecord)
    OBVIOUS
  <2> QED BY <1>1, <1>5, <2>1 DEF HardwareTypes
<1>8. Covered(descriptors, "hardware") = {}
  <2>1. \A j \in DOMAIN Memory : Memory[j].type # "hardware"
    BY <1>3, <1>4
  <2> QED BY <1>1, <2>1 DEF Covered
<1>9. DOMAIN buffers = {}
  BY <1>1
<1>10. DescriptorsTile
  <2>1. \A i \in 1 .. (Len(descriptors) - 1) : descriptors[i].base + descriptors[i].count <= descriptors[i + 1].base
    <3> SUFFICES ASSUME NEW i \in 1 .. (Len(descriptors) - 1)
                 PROVE  descriptors[i].base + descriptors[i].count <= descriptors[i + 1].base
      OBVIOUS
    <3>1. i \in DOMAIN descriptors /\ i + 1 \in DOMAIN descriptors /\ i < i + 1
      BY <1>1, <1>4
    <3> QED BY <1>6, <3>1 DEF Ordered
  <2>2. Covered(descriptors, "hardware") = UNION {PagesOf(buffers[i]) : i \in DOMAIN buffers}
    BY <1>8, <1>9
  <2>3. usedDescriptors <= Descriptors
    BY <1>1, HardwareAssumption
  <2> QED BY <1>1, <1>8, <1>9, <2>1, <2>2, <2>3 DEF DescriptorsTile
<1>11. MappingsExact /\ WithinRange
  BY <1>1, HardwareAssumption DEF MappingsExact, WithinRange
<1> QED BY <1>6, <1>7, <1>10, <1>11 DEF HardwareInv

(* Two descriptors have no page in common.                                 *)
LEMMA DescriptorsApart ==
  ASSUME NEW s \in Seq(DescriptorRecord), Ordered(s), NEW i \in DOMAIN s, NEW j \in DOMAIN s,
         i # j, NEW x, x \in PagesOf(s[i])
  PROVE  x \notin PagesOf(s[j])
<1>1. i \in Nat /\ j \in Nat /\ s[i] \in DescriptorRecord /\ s[j] \in DescriptorRecord
  BY LenProperties, ElementOfSeq
<1>2. s[i].base \in Nat /\ s[i].count \in Nat /\ s[j].base \in Nat /\ s[j].count \in Nat
  BY <1>1 DEF DescriptorRecord
<1>3. s[i].base + s[i].count <= s[j].base \/ s[j].base + s[j].count <= s[i].base
  <2>1. i < j \/ j < i
    BY <1>1
  <2> QED BY <2>1 DEF Ordered
<1> QED BY <1>2, <1>3, InPages

(* The pages of the buffers handed out.                                    *)
HandedOut(s) == UNION {PagesOf(s[i]) : i \in DOMAIN s}

LEMMA HandedOutMore ==
  ASSUME NEW s \in Seq(BufferRecord), NEW b \in BufferRecord, NEW t \in Seq(BufferRecord),
         Len(t) = Len(s) + 1, t[Len(s) + 1] = b, \A k \in 1 .. Len(s) : t[k] = s[k]
  PROVE  /\ HandedOut(t) = HandedOut(s) \cup PagesOf(b)
         /\ \A k \in DOMAIN t : (k \in DOMAIN s /\ t[k] = s[k]) \/ (k = Len(s) + 1 /\ t[k] = b)
<1>1. PICK n \in Nat : n = Len(s) /\ DOMAIN s = 1 .. n
  BY LenProperties
<1>2. DOMAIN t = 1 .. n + 1 /\ t[n + 1] = b /\ \A k \in 1 .. n : t[k] = s[k]
  BY <1>1, LenProperties
<1>3. \A k : k \in DOMAIN t <=> k \in DOMAIN s \/ k = n + 1
  BY <1>1, <1>2
<1>4. \A k \in DOMAIN t : (k \in DOMAIN s /\ t[k] = s[k]) \/ (k = n + 1 /\ t[k] = b)
  <2> SUFFICES ASSUME NEW k \in DOMAIN t PROVE (k \in DOMAIN s /\ t[k] = s[k]) \/ (k = n + 1 /\ t[k] = b)
    OBVIOUS
  <2>1. \A m \in DOMAIN s : t[m] = s[m]
    BY <1>1, <1>2
  <2>2. CASE k = n + 1
    <3>1. t[k] = b
      BY <1>2, <2>2
    <3> QED BY <2>2, <3>1, Zenon
  <2>3. CASE k \in DOMAIN s
    <3>1. t[k] = s[k]
      BY <2>1, <2>3, Zenon
    <3> QED BY <2>3, <3>1
  <2> QED BY <1>3, <2>2, <2>3, Zenon
<1>5. \A x : x \in HandedOut(t) <=> x \in HandedOut(s) \/ x \in PagesOf(b)
  <2>1. \A x : x \in HandedOut(t) <=> \E k \in DOMAIN t : x \in PagesOf(t[k])
    BY DEF HandedOut
  <2>2. \A x : x \in HandedOut(s) <=> \E k \in DOMAIN s : x \in PagesOf(s[k])
    BY DEF HandedOut
  <2>3. \A k \in DOMAIN s : k \in DOMAIN t /\ t[k] = s[k]
    BY <1>1, <1>2, <1>3
  <2>4. n + 1 \in DOMAIN t /\ t[n + 1] = b
    BY <1>2, <1>3
  <2> QED BY <1>4, <2>1, <2>2, <2>3, <2>4
<1> QED BY <1>1, <1>2, <1>4, <1>5

(* What an allocation takes: the last descriptor that has room.            *)
LEMMA AllocationChooses ==
  ASSUME HardwareInv, NEW q \in Requests, AllocateHardwareMemory(q)
  PROVE  \E i \in 1 .. Len(descriptors) :
           LET d == descriptors[i] IN
           /\ d.type = "free" /\ d.base # 0 /\ d.count >= q.count + Skip(d, q)
           /\ descriptors' = ReplaceBy(descriptors, i, Pieces(d, q))
           /\ usedDescriptors' = usedDescriptors + (IF Skip(d, q) # 0 /\ RestOf(d, q) # 0 THEN 2 ELSE 1)
           /\ buffers' = Append(buffers, [base |-> d.base + Skip(d, q), count |-> q.count,
                                              aligned |-> q.aligned])
<1>1. PICK n \in Nat : n = Len(descriptors) /\ DOMAIN descriptors = 1 .. n
  BY LenProperties DEF HardwareInv, HardwareTypes
<1>2. Usable(q) \subseteq 1 .. n /\ Usable(q) # {}
  BY <1>1 DEF Usable, AllocateHardwareMemory
<1>3. PICK U : U = {n - i : i \in Usable(q)}
  OBVIOUS
<1>4. U \in SUBSET Nat /\ U # {}
  BY <1>2, <1>3
<1>5. PICK m \in U : \A k \in U : m <= k
  BY <1>4, LeastNumber
<1>6. \E x \in Usable(q) : \A y \in Usable(q) : y <= x
  <2>1. PICK x \in Usable(q) : m = n - x
    BY <1>3, <1>5
  <2>2. ASSUME NEW y \in Usable(q) PROVE y <= x
    <3>1. n - x <= n - y
      BY <1>3, <1>5, <2>1
    <3> QED BY <1>2, <3>1
  <2> QED BY <2>2
<1>7. PICK i : i = CHOOSE x \in Usable(q) : \A y \in Usable(q) : y <= x
  OBVIOUS
<1>8. i \in Usable(q)
  BY <1>6, <1>7
<1>9. /\ descriptors[i].type = "free" /\ descriptors[i].base # 0
      /\ descriptors[i].count >= q.count + Skip(descriptors[i], q)
  BY <1>8 DEF Usable
<1>10. /\ descriptors' = ReplaceBy(descriptors, i, Pieces(descriptors[i], q))
       /\ usedDescriptors' = usedDescriptors +
            (IF Skip(descriptors[i], q) # 0 /\ RestOf(descriptors[i], q) # 0 THEN 2 ELSE 1)
       /\ buffers' = Append(buffers, [base |-> descriptors[i].base + Skip(descriptors[i], q),
                                          count |-> q.count, aligned |-> q.aligned])
  BY <1>7 DEF AllocateHardwareMemory
<1> QED BY <1>1, <1>2, <1>8, <1>9, <1>10

(* The pages of each type afterwards.                                      *)
LEMMA AllocationCovers ==
  ASSUME NEW s \in Seq(DescriptorRecord), Ordered(s), NEW i \in 1 .. Len(s),
         NEW d, d = s[i], d.type = "free", NEW p, Divides(p, d), NEW b,
         \A x : x \in PagesOf(b) => x \in PagesOf(d),
         \A x : x \in Covered(p, "hardware") <=> x \in PagesOf(b),
         \A x : x \notin Covered(p, "used"),
         \A x : x \in Covered(p, "free") <=> x \in PagesOf(d) /\ x \notin PagesOf(b)
  PROVE  /\ Covered(ReplaceBy(s, i, p), "used") = Covered(s, "used")
         /\ Covered(ReplaceBy(s, i, p), "hardware") = Covered(s, "hardware") \cup PagesOf(b)
         /\ Covered(ReplaceBy(s, i, p), "free") = Covered(s, "free") \ PagesOf(b)
         /\ \A x \in PagesOf(b) : x \in Covered(s, "free")
<1>1. PICK r : r = ReplaceBy(s, i, p)
  OBVIOUS
<1>2. p \in Seq(DescriptorRecord) /\ i \in DOMAIN s
  BY LenProperties DEF Divides
<1>3. \A t, x : x \in Covered(r, t) <=> \/ \E j \in DOMAIN s : j # i /\ s[j].type = t /\ x \in PagesOf(s[j])
                                        \/ x \in Covered(p, t)
  BY <1>1, <1>2, DividingCovers
<1>4. \A t, x : x \in Covered(s, t) <=> \/ \E j \in DOMAIN s : j # i /\ s[j].type = t /\ x \in PagesOf(s[j])
                                        \/ d.type = t /\ x \in PagesOf(d)
  BY <1>2, CoveredBy
<1>5. \A x : x \in Covered(r, "used") <=> x \in Covered(s, "used")
  BY <1>3, <1>4
<1>6. \A x : x \in Covered(r, "hardware") <=> x \in Covered(s, "hardware") \/ x \in PagesOf(b)
  BY <1>3, <1>4
<1>7. ASSUME NEW j \in DOMAIN s, j # i, NEW x, x \in PagesOf(s[j]) PROVE x \notin PagesOf(b)
  BY <1>2, <1>7, DescriptorsApart
<1>8. \A x : x \in Covered(r, "free") <=> x \in Covered(s, "free") /\ x \notin PagesOf(b)
  BY <1>3, <1>4, <1>7
<1>9. \A x \in PagesOf(b) : x \in Covered(s, "free")
  BY <1>4
<1> QED BY <1>1, <1>5, <1>6, <1>8, <1>9

LEMMA AllocationKeeps ==
  ASSUME HardwareInv, NEW q \in Requests, AllocateHardwareMemory(q)
  PROVE  HardwareInv'
<1>1. HardwareTypes /\ Ordered(descriptors) /\ DescriptorsTile /\ MappingsExact /\ WithinRange
  BY DEF HardwareInv
<1>2. UNCHANGED <<heapStart, mappings, wrapped>> /\ usedDescriptors + 2 <= Descriptors
  BY DEF AllocateHardwareMemory
<1>3. PICK i \in 1 .. Len(descriptors) :
        /\ descriptors[i].type = "free" /\ descriptors[i].base # 0
        /\ descriptors[i].count >= q.count + Skip(descriptors[i], q)
        /\ descriptors' = ReplaceBy(descriptors, i, Pieces(descriptors[i], q))
        /\ usedDescriptors' = usedDescriptors +
             (IF Skip(descriptors[i], q) # 0 /\ RestOf(descriptors[i], q) # 0 THEN 2 ELSE 1)
        /\ buffers' = Append(buffers, [base |-> descriptors[i].base + Skip(descriptors[i], q),
                                           count |-> q.count, aligned |-> q.aligned])
  BY AllocationChooses
<1>4. descriptors \in Seq(DescriptorRecord) /\ buffers \in Seq(BufferRecord) /\ usedDescriptors \in Nat
  BY <1>1 DEF HardwareTypes
<1>5. PICK d \in DescriptorRecord : d = descriptors[i]
  BY <1>4, ElementOfSeq
<1>6. q.count \in Nat /\ q.aligned \in BOOLEAN
  BY HardwareAssumption
<1>7. Skip(d, q) \in Nat /\ (q.aligned => (d.base + Skip(d, q)) % Align = 0)
  BY <1>6, SkipAligns, HardwareAssumption
<1>8. PICK b : b = [base |-> d.base + Skip(d, q), count |-> q.count, aligned |-> q.aligned]
  OBVIOUS
<1>9. d.base \in Nat /\ d.count \in Nat /\ d.base # 0 /\ d.type = "free" /\ d.count >= q.count + Skip(d, q)
  BY <1>3, <1>5 DEF DescriptorRecord
<1>10. b.base = d.base + Skip(d, q) /\ b.count = q.count /\ b.aligned = q.aligned
  BY <1>8
<1>11. b \in BufferRecord
  BY <1>6, <1>7, <1>8, <1>9 DEF BufferRecord
<1>12. b.base # 0 /\ (b.aligned => b.base % Align = 0)
  BY <1>7, <1>9, <1>10
<1>13. \A x : x \in PagesOf(b) => x \in PagesOf(d)
  <2> SUFFICES ASSUME NEW x, x \in PagesOf(b) PROVE x \in PagesOf(d)
    OBVIOUS
  <2>1. b.base \in Nat /\ b.count \in Nat
    BY <1>6, <1>7, <1>9, <1>10
  <2>2. x \in Nat /\ b.base <= x /\ x < b.base + b.count
    BY <2>1, InPages
  <2>3. PICK s \in Nat, e \in Nat, f \in Nat, n \in Nat :
          s = Skip(d, q) /\ e = d.base /\ f = d.count /\ n = q.count
    BY <1>6, <1>7, <1>9
  <2>4. b.base = e + s /\ b.count = n /\ f >= n + s
    BY <1>9, <1>10, <2>3
  <2>5. x \in Nat /\ e + s <= x /\ x < e + s + n
    BY <2>2, <2>4
  <2>6. PICK y \in Nat : y = x
    BY <2>5
  <2>7. e + s <= y /\ y < e + s + n
    BY <2>5, <2>6
  <2>8. e <= y /\ y < e + f
    BY <2>4, <2>7
  <2> QED BY <1>9, <2>3, <2>6, <2>8, InPages
<1>14. PICK p : p = Pieces(d, q)
  OBVIOUS
<1>15. /\ Divides(p, d)
       /\ \A x : x \in Covered(p, "hardware") <=> x \in PagesOf(b)
       /\ \A x : x \notin Covered(p, "used")
       /\ \A x : x \in Covered(p, "free") <=> x \in PagesOf(d) /\ x \notin PagesOf(b)
  BY <1>6, <1>7, <1>9, <1>10, <1>14, PiecesDivide
<1>16. descriptors' = ReplaceBy(descriptors, i, p) /\ buffers' = Append(buffers, b)
  BY <1>3, <1>5, <1>8, <1>14
<1>17. descriptors' \in Seq(DescriptorRecord) /\ Ordered(descriptors')
  BY <1>1, <1>4, <1>5, <1>15, <1>16, DividingKeepsOrder
<1>18. /\ Covered(descriptors', "used") = Covered(descriptors, "used")
       /\ Covered(descriptors', "hardware") = Covered(descriptors, "hardware") \cup PagesOf(b)
       /\ Covered(descriptors', "free") = Covered(descriptors, "free") \ PagesOf(b)
       /\ \A x \in PagesOf(b) : x \in Covered(descriptors, "free")
  <2>1. PICK s \in Seq(DescriptorRecord) : s = descriptors /\ Ordered(s) /\ i \in 1 .. Len(s) /\ d = s[i]
    BY <1>1, <1>4, <1>5
  <2>2. PICK r : r = ReplaceBy(s, i, p)
    OBVIOUS
  <2>3. /\ Covered(r, "used") = Covered(s, "used")
        /\ Covered(r, "hardware") = Covered(s, "hardware") \cup PagesOf(b)
        /\ Covered(r, "free") = Covered(s, "free") \ PagesOf(b)
        /\ \A x \in PagesOf(b) : x \in Covered(s, "free")
    BY <1>9, <1>13, <1>15, <2>1, <2>2, AllocationCovers
  <2> QED BY <1>16, <2>1, <2>2, <2>3
<1>19. /\ buffers' \in Seq(BufferRecord)
       /\ HandedOut(buffers') = HandedOut(buffers) \cup PagesOf(b)
       /\ \A k \in DOMAIN buffers' : \/ k \in DOMAIN buffers /\ buffers'[k] = buffers[k]
                                     \/ k = Len(buffers) + 1 /\ buffers'[k] = b
  <2>1. PICK t : t = buffers' /\ t = Append(buffers, b)
    BY <1>16
  <2>2. /\ t \in Seq(BufferRecord)
        /\ HandedOut(t) = HandedOut(buffers) \cup PagesOf(b)
        /\ \A k \in DOMAIN t : (k \in DOMAIN buffers /\ t[k] = buffers[k]) \/ (k = Len(buffers) + 1 /\ t[k] = b)
    <3>1. /\ t \in Seq(BufferRecord) /\ Len(t) = Len(buffers) + 1 /\ t[Len(buffers) + 1] = b
          /\ \A k \in 1 .. Len(buffers) : t[k] = buffers[k]
      BY <1>4, <1>11, <2>1, AppendProperties
    <3> QED BY <1>4, <1>11, <3>1, HandedOutMore
  <2> QED BY <2>1, <2>2, Zenon
<1>20. usedDescriptors' \in Nat /\ usedDescriptors' <= Descriptors
  <2>1. usedDescriptors' = usedDescriptors + 1 \/ usedDescriptors' = usedDescriptors + 2
    BY <1>3
  <2> QED BY <1>2, <1>4, <2>1, HardwareAssumption
<1>21. /\ Covered(descriptors, "used") = Covered(Memory, "used")
       /\ Covered(descriptors, "hardware") = HandedOut(buffers)
       /\ Covered(descriptors, "free") = Covered(Memory, "free") \ Covered(descriptors, "hardware")
       /\ \A k, m \in DOMAIN buffers : k # m => PagesOf(buffers[k]) \cap PagesOf(buffers[m]) = {}
       /\ \A k \in DOMAIN buffers :
            buffers[k].base # 0 /\ (buffers[k].aligned => buffers[k].base % Align = 0)
  BY <1>1 DEF DescriptorsTile, HandedOut
<1>22. \A k \in DOMAIN buffers : PagesOf(buffers[k]) \cap PagesOf(b) = {}
  <2>1. \A k \in DOMAIN buffers : PagesOf(buffers[k]) \subseteq Covered(descriptors, "hardware")
    BY <1>21 DEF HandedOut
  <2>2. \A x \in PagesOf(b) : x \notin Covered(descriptors, "hardware")
    BY <1>18, <1>21
  <2> QED BY <2>1, <2>2
<1>23. DescriptorsTile'
  <2>1. ASSUME NEW k \in 1 .. (Len(descriptors') - 1)
        PROVE  descriptors'[k].base + descriptors'[k].count <= descriptors'[k + 1].base
    <3>1. PICK n \in Nat : n = Len(descriptors') /\ DOMAIN descriptors' = 1 .. n
      BY <1>17, LenProperties
    <3>2. k \in DOMAIN descriptors' /\ k + 1 \in DOMAIN descriptors' /\ k < k + 1
      BY <2>1, <3>1
    <3> QED BY <1>17, <3>2 DEF Ordered
  <2>2. Covered(descriptors', "hardware") = HandedOut(buffers')
    BY <1>18, <1>19, <1>21
  <2>3. Covered(descriptors', "free") = Covered(Memory, "free") \ Covered(descriptors', "hardware")
    BY <1>18, <1>21
  <2>4. \A k, m \in DOMAIN buffers' : k # m => PagesOf(buffers'[k]) \cap PagesOf(buffers'[m]) = {}
    BY <1>19, <1>21, <1>22
  <2>5. \A k \in DOMAIN buffers' :
          buffers'[k].base # 0 /\ (buffers'[k].aligned => buffers'[k].base % Align = 0)
    BY <1>12, <1>19, <1>21
  <2> QED BY <1>18, <1>20, <1>21, <2>1, <2>2, <2>3, <2>4, <2>5 DEF DescriptorsTile, HandedOut
<1>24. MappingsExact' /\ WithinRange'
  BY <1>1, <1>2 DEF MappingsExact, WithinRange, Valid
<1>25. HardwareTypes'
  BY <1>1, <1>2, <1>17, <1>19, <1>20 DEF HardwareTypes
<1> QED BY <1>17, <1>23, <1>24, <1>25 DEF HardwareInv

(* A new mapping begins at the first run of pages that is long enough.     *)
LEMMA MappingChooses ==
  ASSUME HardwareInv, NEW n \in Sizes, MapHardwareMemory(n)
  PROVE  \E b \in Nat :
           /\ heapStart <= b /\ b < HeapPages /\ \A p \in b .. (b + n - 1) : ~Valid(p)
           /\ \A c \in heapStart .. (HeapPages - 1) :
                c < b => \E p \in c .. (c + n - 1) : Valid(p)
           /\ mappings' = mappings \cup {[base |-> b, count |-> n]}
           /\ heapStart' = IF b = heapStart THEN b + n ELSE heapStart
           /\ wrapped' = (b + n > HeapPages)
<1>1. heapStart \in Nat /\ HeapPages \in Nat
  BY HardwareAssumption DEF HardwareInv, HardwareTypes
<1>2. Runs(n) \in SUBSET Nat /\ Runs(n) # {}
  BY <1>1 DEF Runs, MapHardwareMemory
<1>3. \E x \in Runs(n) : \A y \in Runs(n) : x <= y
  BY <1>2, LeastNumber
<1>4. PICK b : b = CHOOSE x \in Runs(n) : \A y \in Runs(n) : x <= y
  OBVIOUS
<1>5. b \in Runs(n) /\ \A y \in Runs(n) : b <= y
  BY <1>3, <1>4
<1>6. b \in Nat /\ heapStart <= b /\ b < HeapPages /\ \A p \in b .. (b + n - 1) : ~Valid(p)
  BY <1>1, <1>5 DEF Runs
<1>7. ASSUME NEW c \in heapStart .. (HeapPages - 1), c < b
      PROVE  \E p \in c .. (c + n - 1) : Valid(p)
  <2>1. c \notin Runs(n)
    BY <1>1, <1>5, <1>6, <1>7
  <2> QED BY <2>1 DEF Runs
<1>8. /\ mappings' = mappings \cup {[base |-> b, count |-> n]}
      /\ heapStart' = IF b = heapStart THEN b + n ELSE heapStart
      /\ wrapped' = (b + n > HeapPages)
  BY <1>4 DEF MapHardwareMemory
<1> QED BY <1>6, <1>7, <1>8

(* What is mapped stays so.                                                *)
LEMMA ValidStays == mappings \subseteq mappings' => \A p : Valid(p) => Valid(p)'
BY DEF Valid

LEMMA MappingKeeps ==
  ASSUME HardwareInv, NEW n \in Sizes, MapHardwareMemory(n)
  PROVE  HardwareInv'
<1>1. HardwareTypes /\ Ordered(descriptors) /\ DescriptorsTile /\ MappingsExact /\ WithinRange
  BY DEF HardwareInv
<1>2. UNCHANGED <<descriptors, usedDescriptors, buffers>> /\ wrapped = FALSE
  BY <1>1 DEF MapHardwareMemory, HardwareTypes
<1>3. PICK b \in Nat :
        /\ heapStart <= b /\ b < HeapPages /\ \A p \in b .. (b + n - 1) : ~Valid(p)
        /\ \A c \in heapStart .. (HeapPages - 1) : c < b => \E p \in c .. (c + n - 1) : Valid(p)
        /\ mappings' = mappings \cup {[base |-> b, count |-> n]}
        /\ heapStart' = IF b = heapStart THEN b + n ELSE heapStart
        /\ wrapped' = (b + n > HeapPages)
  BY MappingChooses
<1>4. n \in Nat \ {0} /\ HeapPages \in Nat /\ heapStart \in Nat /\ heapStart <= HeapPages
      /\ \A r \in mappings : r.base + r.count <= HeapPages
  BY <1>1, <1>2, HardwareAssumption DEF HardwareTypes, WithinRange
<1>5. PICK r : r = [base |-> b, count |-> n]
  OBVIOUS
<1>6. r.base = b /\ r.count = n /\ r \in [base : Nat, count : Nat \ {0}] /\ PagesOf(r) = b .. (b + n - 1)
  BY <1>4, <1>5 DEF PagesOf
<1>7. mappings' = mappings \cup {r}
  BY <1>3, <1>5
<1>8. HardwareTypes'
  <2>1. heapStart' \in Nat /\ wrapped' \in BOOLEAN
    BY <1>3, <1>4
  <2>2. mappings' \subseteq [base : Nat, count : Nat \ {0}]
    BY <1>1, <1>6, <1>7 DEF HardwareTypes
  <2> QED BY <1>1, <1>2, <2>1, <2>2 DEF HardwareTypes
<1>9. \A p : Valid(p) => Valid(p)'
  BY <1>7, ValidStays
<1>10. \A p \in PagesOf(r) : p \notin Fixed /\ \A t \in mappings : p \notin PagesOf(t)
  BY <1>3, <1>6 DEF Valid
<1>11. (\A t \in mappings : PagesOf(t) \cap Fixed = {})
       /\ (\A t, u \in mappings : t # u => PagesOf(t) \cap PagesOf(u) = {})
       /\ (heapStart < HeapPages => \A p \in 0 .. (heapStart - 1) : Valid(p))
  BY <1>1 DEF MappingsExact
<1>12. \A t \in mappings' : PagesOf(t) \cap Fixed = {}
  BY <1>7, <1>10, <1>11
<1>13. \A t, u \in mappings' : t # u => PagesOf(t) \cap PagesOf(u) = {}
  BY <1>7, <1>10, <1>11
<1>14. \A p \in PagesOf(r) : Valid(p)'
  BY <1>7 DEF Valid
<1>15. ASSUME NEW p \in 0 .. (heapStart' - 1), heapStart' < HeapPages PROVE Valid(p)'
  <2>1. p \in Nat /\ heapStart < HeapPages
    BY <1>3, <1>4
  <2>2. CASE p < heapStart
    <3>1. p \in 0 .. (heapStart - 1)
      BY <1>4, <2>1, <2>2
    <3> QED BY <1>9, <1>11, <2>1, <3>1
  <2>3. CASE ~(p < heapStart)
    <3>1. b = heapStart /\ p < b + n
      BY <1>3, <1>4, <1>15, <2>1, <2>3
    <3>2. p \in PagesOf(r)
      BY <1>4, <1>6, <2>1, <2>3, <3>1
    <3> QED BY <1>14, <3>2
  <2> QED BY <2>2, <2>3
<1>16. ASSUME wrapped', NEW t \in {m \in mappings' : m.base + m.count > HeapPages},
              NEW c \in 0 .. (HeapPages - t.count)
       PROVE  \E p \in c .. (c + t.count - 1) : p \in PagesOf(t) \/ Valid(p)'
  <2>1. t = r /\ t.count = n
    <3>1. t \notin mappings
      BY <1>1, <1>4, <1>16 DEF HardwareTypes
    <3> QED BY <1>6, <1>7, <1>16, <3>1
  <2>0. b + n > HeapPages
    BY <1>3, <1>16, Zenon
  <2>2. b + n > HeapPages /\ c \in Nat /\ c + n <= HeapPages
    BY <1>4, <1>16, <2>0, <2>1
  <2>3. c < b /\ c < HeapPages
    BY <1>3, <1>4, <2>2
  <2>4. CASE c < heapStart
    <3>1. heapStart < HeapPages /\ c \in 0 .. (heapStart - 1)
      BY <1>3, <1>4, <2>2, <2>4
    <3>2. Valid(c)'
      BY <1>9, <1>11, <3>1
    <3>3. c \in c .. (c + t.count - 1)
      BY <1>4, <2>1, <2>2
    <3> QED BY <3>2, <3>3
  <2>5. CASE ~(c < heapStart)
    <3>1. c \in heapStart .. (HeapPages - 1)
      BY <1>4, <2>2, <2>3, <2>5
    <3>2. PICK p \in c .. (c + n - 1) : Valid(p)
      BY <1>3, <2>3, <3>1
    <3> QED BY <1>9, <2>1, <3>2
  <2> QED BY <2>4, <2>5
<1>17. MappingsExact'
  BY <1>12, <1>13, <1>15, <1>16 DEF MappingsExact
<1>18. WithinRange'
  <2>1. ASSUME ~wrapped' PROVE heapStart' <= HeapPages /\ \A t \in mappings' : t.base + t.count <= HeapPages
    <3>1. ~(b + n > HeapPages)
      BY <1>3, <2>1, Zenon
    <3>2. b + n <= HeapPages
      BY <1>4, <3>1
    <3> QED BY <1>3, <1>4, <1>6, <1>7, <3>2
  <2> QED BY <2>1 DEF WithinRange
<1>19. DescriptorsTile' /\ Ordered(descriptors')
  <2>1. descriptors' = descriptors /\ buffers' = buffers /\ usedDescriptors' = usedDescriptors
    BY <1>2
  <2> QED BY <1>1, <2>1, Zenon DEF DescriptorsTile
<1> QED BY <1>8, <1>17, <1>18, <1>19 DEF HardwareInv

LEMMA UnmappingKeeps ==
  ASSUME HardwareInv, NEW r \in mappings, UnmapHardwareMemory(r)
  PROVE  HardwareInv'
<1>1. HardwareTypes /\ Ordered(descriptors) /\ DescriptorsTile /\ MappingsExact /\ WithinRange
  BY DEF HardwareInv
<1>2. /\ wrapped = FALSE /\ wrapped' = FALSE /\ mappings' = mappings \ {r}
      /\ descriptors' = descriptors /\ buffers' = buffers /\ usedDescriptors' = usedDescriptors
      /\ heapStart' = IF heapStart # HeapPages /\ heapStart > r.base THEN r.base ELSE heapStart
  BY <1>1 DEF UnmapHardwareMemory, Lowered, HardwareTypes
<1>3. /\ heapStart \in Nat /\ HeapPages \in Nat /\ heapStart <= HeapPages
      /\ \A t \in mappings : t.base + t.count <= HeapPages
      /\ r \in [base : Nat, count : Nat \ {0}]
  BY <1>1, <1>2, HardwareAssumption DEF HardwareTypes, WithinRange
<1>4. r.base \in Nat /\ \A p \in PagesOf(r) : p >= r.base
  BY <1>3 DEF PagesOf
<1>5. heapStart' \in Nat /\ heapStart' <= heapStart
      /\ (heapStart' < HeapPages => heapStart' <= r.base /\ heapStart < HeapPages)
  BY <1>2, <1>3, <1>4
<1>6. HardwareTypes'
  BY <1>1, <1>2, <1>5 DEF HardwareTypes
<1>7. (\A t \in mappings : PagesOf(t) \cap Fixed = {})
      /\ (\A t, u \in mappings : t # u => PagesOf(t) \cap PagesOf(u) = {})
      /\ (heapStart < HeapPages => \A p \in 0 .. (heapStart - 1) : Valid(p))
  BY <1>1 DEF MappingsExact
<1>8. ASSUME NEW p, p \in 0 .. (heapStart' - 1), heapStart' < HeapPages PROVE Valid(p)'
  <2>1. PICK h \in Nat : h = heapStart' /\ h <= heapStart /\ h <= r.base /\ heapStart < HeapPages
    BY <1>5, <1>8
  <2>2. p \in Nat /\ p < h /\ h <= heapStart /\ h <= r.base
    <3>1. p \in 0 .. (heapStart' - 1)
      BY <1>8
    <3>2. heapStart' = h /\ h \in Nat
      BY <2>1
    <3>3. p \in 0 .. (h - 1)
      BY <3>1, <3>2, Zenon
    <3>4. p \in Nat /\ p < h
      BY <3>3
    <3> QED BY <2>1, <3>4
  <2>3. p \in 0 .. (heapStart - 1) /\ heapStart < HeapPages
    BY <1>3, <2>1, <2>2
  <2>4. Valid(p)
    BY <1>7, <2>3
  <2>5. p \notin PagesOf(r)
    BY <1>4, <2>1, <2>2
  <2> QED BY <1>2, <2>4, <2>5 DEF Valid
<1>9. MappingsExact'
  <2>1. \A t \in mappings' : t \in mappings
    BY <1>2
  <2> QED BY <1>2, <1>7, <1>8, <2>1 DEF MappingsExact
<1>10. WithinRange'
  BY <1>2, <1>3, <1>5 DEF WithinRange
<1>11. DescriptorsTile' /\ Ordered(descriptors')
  BY <1>1, <1>2, Zenon DEF DescriptorsTile
<1> QED BY <1>6, <1>9, <1>10, <1>11 DEF HardwareInv

LEMMA HardwareStep == HardwareInv /\ HardwareNext => HardwareInv'
BY AllocationKeeps, MappingKeeps, UnmappingKeeps DEF HardwareNext

LEMMA HardwareIdle == HardwareInv /\ UNCHANGED hardwareVars => HardwareInv'
<1> SUFFICES ASSUME HardwareInv, UNCHANGED hardwareVars PROVE HardwareInv'
  OBVIOUS
<1>1. /\ descriptors' = descriptors /\ usedDescriptors' = usedDescriptors /\ buffers' = buffers
      /\ heapStart' = heapStart /\ mappings' = mappings /\ wrapped' = wrapped
  BY DEF hardwareVars
<1>2. HardwareTypes' /\ Ordered(descriptors')
  BY <1>1, Zenon DEF HardwareInv, HardwareTypes
<1>3. DescriptorsTile'
  BY <1>1, Zenon DEF HardwareInv, DescriptorsTile
<1>4. MappingsExact' /\ WithinRange'
  BY <1>1, Zenon DEF HardwareInv, MappingsExact, WithinRange, Valid
<1> QED BY <1>2, <1>3, <1>4 DEF HardwareInv

(* The hardware pool: memory of the boot is divided without losing a page  *)
(* or giving one out twice, and mappings never overlap.                    *)
THEOREM HardwareKept == HardwareSpec => []HardwarePoolSound
<1>1. HardwareInv /\ [HardwareNext]_hardwareVars => HardwareInv'
  BY HardwareStep, HardwareIdle
<1>2. HardwareInv => HardwarePoolSound
  BY DEF HardwareInv, HardwarePoolSound
<1> QED BY <1>1, <1>2, HardwareStart, PTL DEF HardwareSpec

-----------------------------------------------------------------------------
(* The sending of interrupts between processors.                           *)

(* How many elements of a sequence are in a set, when one more comes at    *)
(* the end, and when the first is taken away.                              *)
Occurring(s, G) == {i \in DOMAIN s : s[i] \in G}
Occurrences(s, G) == Cardinality(Occurring(s, G))

LEMMA OccurringFinite ==
  ASSUME NEW S, NEW s \in Seq(S), NEW G
  PROVE  IsFiniteSet(Occurring(s, G)) /\ Occurrences(s, G) \in Nat
<1>1. DOMAIN s = 1..Len(s) /\ Len(s) \in Nat
  BY LenProperties
<1>2. IsFiniteSet(1..Len(s))
  BY <1>1, FS_Interval
<1>3. Occurring(s, G) \in SUBSET (1..Len(s))
  BY <1>1 DEF Occurring
<1> QED BY <1>2, <1>3, FS_Subset, FS_CardinalityType DEF Occurrences

LEMMA OccurrencesAppend ==
  ASSUME NEW S, NEW s \in Seq(S), NEW x \in S, NEW G
  PROVE  Occurrences(Append(s, x), G) = Occurrences(s, G) + (IF x \in G THEN 1 ELSE 0)
<1>1. PICK n \in Nat : n = Len(s) /\ DOMAIN s = 1..n
  BY LenProperties
<1>2. PICK t \in Seq(S) : t = Append(s, x) /\ Len(t) = n + 1 /\ t[n + 1] = x /\ \A i \in 1..n : t[i] = s[i]
  <2>1. PICK t : t = Append(s, x)
    OBVIOUS
  <2>2. t \in Seq(S) /\ Len(t) = n + 1 /\ t[n + 1] = x /\ \A i \in 1..n : t[i] = s[i]
    BY <1>1, <2>1, AppendProperties
  <2> QED BY <2>1, <2>2
<1>3. DOMAIN t = 1..(n + 1) /\ t[n + 1] = x /\ \A i \in 1..n : t[i] = s[i]
  BY <1>2, LenProperties
<1>4. n + 1 \notin Occurring(s, G) /\ IsFiniteSet(Occurring(s, G)) /\ Occurrences(s, G) \in Nat
  <2>1. n + 1 \notin 1..n
    BY <1>1
  <2>2. n + 1 \notin Occurring(s, G)
    BY <1>1, <2>1 DEF Occurring
  <2> QED BY <2>2, OccurringFinite
<1>5. CASE x \in G
  <2>1. Occurring(t, G) = Occurring(s, G) \cup {n + 1}
    BY <1>1, <1>3, <1>5 DEF Occurring
  <2>2. PICK D : D = Occurring(s, G)
    OBVIOUS
  <2>3. Cardinality(D \cup {n + 1}) = Cardinality(D) + 1
    BY <1>4, <2>2, FS_AddElement
  <2> QED BY <1>2, <1>5, <2>1, <2>2, <2>3 DEF Occurrences
<1>6. CASE x \notin G
  <2>1. Occurring(t, G) = Occurring(s, G)
    BY <1>1, <1>3, <1>6 DEF Occurring
  <2> QED BY <1>2, <1>4, <1>6, <2>1 DEF Occurrences
<1> QED BY <1>5, <1>6

LEMMA OccurrencesTail ==
  ASSUME NEW S, NEW s \in Seq(S), s # <<>>, NEW G
  PROVE  Occurrences(s, G) = Occurrences(Tail(s), G) + (IF s[1] \in G THEN 1 ELSE 0)
<1>1. PICK n \in Nat : Len(s) = n + 1 /\ DOMAIN s = 1..(n + 1)
  <2>1. PICK l \in Nat : l = Len(s) /\ DOMAIN s = 1..l
    BY LenProperties
  <2>2. l # 0
    BY <2>1, EmptySeq
  <2>3. PICK n \in Nat : l = n + 1
    <3>1. l - 1 \in Nat /\ l = (l - 1) + 1
      BY <2>2
    <3> QED BY <3>1
  <2> QED BY <2>1, <2>3
<1>2. PICK t \in Seq(S) : t = Tail(s) /\ Len(t) = n /\ \A i \in 1..Len(t) : t[i] = s[i + 1]
  <2>1. PICK t : t = Tail(s)
    OBVIOUS
  <2>2. t \in Seq(S) /\ Len(t) = Len(s) - 1 /\ \A i \in 1..Len(t) : t[i] = s[i + 1]
    BY <2>1, HeadTailProperties
  <2>3. Len(t) = n
    BY <1>1, <2>2
  <2> QED BY <2>1, <2>2, <2>3
<1>3. DOMAIN t = 1..n /\ \A i \in 1..n : t[i] = s[i + 1]
  BY <1>2, LenProperties
<1>4. PICK D : D = Occurring(t, G)
  OBVIOUS
<1>5. PICK E : E = Occurring(s, G) \ {1}
  OBVIOUS
<1>6. IsFiniteSet(D) /\ Cardinality(D) \in Nat
  BY <1>2, <1>4, OccurringFinite DEF Occurrences
<1>7. Cardinality(E) = Cardinality(D)
  <2>1. PICK f : f = [i \in D |-> i + 1]
    OBVIOUS
  <2>2. f \in [D -> E]
    <3> SUFFICES ASSUME NEW i \in D PROVE i + 1 \in E
      BY <2>1
    <3>1. i \in 1..n /\ s[i + 1] \in G
      BY <1>3, <1>4 DEF Occurring
    <3> QED BY <1>1, <1>5, <3>1 DEF Occurring
  <2>3. \A j \in E : \E i \in D : f[i] = j
    <3> SUFFICES ASSUME NEW j \in E PROVE \E i \in D : f[i] = j
      OBVIOUS
    <3>1. j \in 1..(n + 1) /\ j # 1 /\ s[j] \in G
      BY <1>1, <1>5 DEF Occurring
    <3>2. PICK i \in 1..n : i + 1 = j
      <4>1. j - 1 \in 1..n /\ (j - 1) + 1 = j
        BY <3>1
      <4> QED BY <4>1
    <3>3. i \in D
      BY <1>3, <1>4, <3>1, <3>2 DEF Occurring
    <3> QED BY <2>1, <3>2, <3>3
  <2>4. \A i, j \in D : f[i] = f[j] => i = j
    <3>1. D \subseteq Nat
      BY <1>3, <1>4 DEF Occurring
    <3> QED BY <2>1, <3>1
  <2>5. ExistsBijection(D, E)
    BY <2>2, <2>3, <2>4 DEF ExistsBijection, Bijection, Injection, Surjection, IsInjective
  <2> QED BY <1>6, <2>5, FS_Bijection
<1>8. IsFiniteSet(Occurring(s, G))
  BY OccurringFinite
<1>9. CASE s[1] \in G
  <2>1. Occurring(s, G) = E \cup {1} /\ 1 \notin E
    BY <1>1, <1>5, <1>9 DEF Occurring
  <2>2. IsFiniteSet(E)
    BY <1>5, <1>8, FS_Subset
  <2> QED BY <1>2, <1>4, <1>6, <1>7, <1>9, <2>1, <2>2, FS_AddElement DEF Occurrences
<1>10. CASE s[1] \notin G
  <2>1. Occurring(s, G) = E
    BY <1>1, <1>5, <1>10 DEF Occurring
  <2> QED BY <1>2, <1>4, <1>6, <1>7, <1>10, <2>1 DEF Occurrences
<1> QED BY <1>9, <1>10

SentVectors == IpiVectors \cup {"broadcast"}
Ids == {Processors[p].id : p \in DOMAIN Processors}
Posts == [to : Ids, vector : SentVectors]
Asks == [to : SUBSET DOMAIN Processors, vector : SentVectors]
SenderTypes == [to : SUBSET DOMAIN Processors, vector : SentVectors, step : {"wait", "command"},
                saved : BOOLEAN]
IpiTypes == [enabled : BOOLEAN, senders : Seq(SenderTypes), destination : Ids \cup {"none"},
             pending : Seq(Posts), arrived : Seq(Posts), asked : Seq(Asks)]

(* A sender sends with interrupts disabled, and alone; between its two     *)
(* writes the destination is that of the processor whose turn it is.       *)
OneSends(i, compat) ==
  \/ i.senders = <<>> /\ i.enabled
  \/ \E s \in SenderTypes :
       /\ i.senders = <<s>> /\ ~i.enabled /\ s.saved
       /\ s.step = "command" => /\ compat /\ s.to # {} /\ i.pending = <<>>
                                /\ i.destination = Processors[Lowest(s.to)].id

(* What was asked for of a processor and a vector has arrived, or will.    *)
Toward(p, v) == {x \in Posts : x.to = Processors[p].id /\ x.vector = v}
Naming(S, p, v) == {x \in S : p \in x.to /\ x.vector = v}
IpisCounted(i) ==
  \A p \in DOMAIN Processors, v \in SentVectors :
    Occurrences(i.arrived, Toward(p, v)) + Occurrences(i.pending, Toward(p, v))
      + Occurrences(i.senders, Naming(SenderTypes, p, v))
        = Occurrences(i.asked, Naming(Asks, p, v))

IpiInv == ipi \in IpiTypes /\ OneSends(ipi, Compat) /\ IpisCounted(ipi)

LEMMA CountsArrive == ASSUME ipi \in IpiTypes, IpisCounted(ipi) PROVE IpisArrive
<1> SUFFICES ASSUME NEW p \in DOMAIN Processors, NEW v \in SentVectors
             PROVE  IpisFor(ipi.arrived, p, v) + IpisFor(ipi.pending, p, v) + IpisOf(ipi.senders, p, v)
                      = IpisOf(ipi.asked, p, v)
  BY DEF IpisArrive, SentVectors
<1>1. ASSUME NEW s \in Seq(Posts)
      PROVE  IpisFor(s, p, v) = Occurrences(s, Toward(p, v))
  <2>1. \A i \in DOMAIN s : s[i] \in Posts
    BY LenProperties, ElementOfSeq
  <2>2. {i \in DOMAIN s : s[i].to = Processors[p].id /\ s[i].vector = v} = Occurring(s, Toward(p, v))
    BY <2>1 DEF Occurring, Toward
  <2> QED BY <2>2 DEF IpisFor, Occurrences
<1>2. ASSUME NEW S, NEW s \in Seq(S)
      PROVE  IpisOf(s, p, v) = Occurrences(s, Naming(S, p, v))
  <2>1. \A i \in DOMAIN s : s[i] \in S
    BY LenProperties, ElementOfSeq
  <2>2. {i \in DOMAIN s : p \in s[i].to /\ s[i].vector = v} = Occurring(s, Naming(S, p, v))
    BY <2>1 DEF Occurring, Naming
  <2> QED BY <2>2 DEF IpisOf, Occurrences
<1>3. /\ ipi.arrived \in Seq(Posts) /\ ipi.pending \in Seq(Posts)
      /\ ipi.senders \in Seq(SenderTypes) /\ ipi.asked \in Seq(Asks)
  BY DEF IpiTypes
<1>4. /\ IpisFor(ipi.arrived, p, v) = Occurrences(ipi.arrived, Toward(p, v))
      /\ IpisFor(ipi.pending, p, v) = Occurrences(ipi.pending, Toward(p, v))
  BY <1>1, <1>3
<1>5. /\ IpisOf(ipi.senders, p, v) = Occurrences(ipi.senders, Naming(SenderTypes, p, v))
      /\ IpisOf(ipi.asked, p, v) = Occurrences(ipi.asked, Naming(Asks, p, v))
  BY <1>2, <1>3
<1> QED BY <1>4, <1>5 DEF IpisCounted

(* How a single sender counts.                                             *)
LEMMA OccurrencesOne ==
  ASSUME NEW x, NEW G
  PROVE  Occurrences(<<x>>, G) = (IF x \in G THEN 1 ELSE 0) /\ Occurrences(<<>>, G) = 0
<1>1. Occurring(<<x>>, G) = IF x \in G THEN {1} ELSE {}
  BY DEF Occurring
<1>2. Occurring(<<>>, G) = {}
  BY DEF Occurring
<1>3. Cardinality({}) = 0 /\ Cardinality({1}) = 1
  BY FS_EmptySet, FS_Singleton
<1> QED BY <1>1, <1>2, <1>3 DEF Occurrences

(* The processor whose turn it is.                                         *)
LEMMA LowestIn ==
  ASSUME NEW S \in SUBSET DOMAIN Processors, S # {}
  PROVE  Lowest(S) \in S
<1>1. S \in SUBSET Nat
  BY RoutingAssumption
<1>2. \E x \in S : \A y \in S : x <= y
  BY <1>1, LeastNumber
<1> QED BY <1>2 DEF Lowest

(* One sender, in terms of the fields of ipi.                              *)
IpiFields(i, enabled, senders, destination, posted, arrived, asked) ==
  /\ i.enabled = enabled /\ i.senders = senders /\ i.destination = destination
  /\ i.pending = posted /\ i.arrived = arrived /\ i.asked = asked

LEMMA FieldsType ==
  ASSUME NEW i \in IpiTypes
  PROVE  /\ i.enabled \in BOOLEAN /\ i.senders \in Seq(SenderTypes)
         /\ i.destination \in Ids \cup {"none"}
         /\ i.pending \in Seq(Posts) /\ i.arrived \in Seq(Posts) /\ i.asked \in Seq(Asks)
BY DEF IpiTypes

LEMMA IpiBegins ==
  ASSUME NEW to \in SUBSET DOMAIN Processors, NEW v \in SentVectors,
         IpiInv, ipi.senders = <<>>, BeginSend(to, v)
  PROVE  IpiInv'
<1>1. PICK i \in IpiTypes : i = ipi
  BY DEF IpiInv
<1>2. i.enabled /\ i.senders = <<>> /\ IpisCounted(i)
  BY <1>1 DEF IpiInv, OneSends
<1>3. PICK s : s = [to |-> to, vector |-> v, step |-> "wait", saved |-> i.enabled]
  OBVIOUS
<1>4. s \in SenderTypes /\ s.saved /\ s.step = "wait" /\ s.to = to /\ s.vector = v
  BY <1>2, <1>3 DEF SenderTypes
<1>5. PICK a : a = [to |-> to, vector |-> v]
  OBVIOUS
<1>6. a \in Asks /\ a.to = to /\ a.vector = v
  BY <1>5 DEF Asks
<1>7. PICK j : j = ipi'
  OBVIOUS
<1>8. j = [i EXCEPT !.enabled = FALSE, !.senders = <<s>>, !.asked = Append(i.asked, a)]
  <2>1. <<s>> \o <<>> = <<s>>
    BY <1>4
  <2> QED BY <1>1, <1>2, <1>3, <1>5, <1>7, <2>1 DEF BeginSend, InterruptsOff
<1>9. PICK b \in Seq(Asks) : b = Append(i.asked, a)
  <2>1. i.asked \in Seq(Asks)
    BY FieldsType
  <2> QED BY <1>6, <2>1, AppendProperties
<1>10. IpiFields(j, FALSE, <<s>>, i.destination, i.pending, i.arrived, b) /\ j \in IpiTypes
  <2>1. PICK r : r = <<s>>
    OBVIOUS
  <2>2. r \in Seq(SenderTypes)
    BY <1>4, <2>1
  <2>3. j = [i EXCEPT !.enabled = FALSE, !.senders = r, !.asked = b]
    BY <1>8, <1>9, <2>1
  <2>4. j \in IpiTypes
    BY <2>2, <2>3 DEF IpiTypes
  <2>5. IpiFields(j, FALSE, r, i.destination, i.pending, i.arrived, b)
    BY <2>3 DEF IpiFields, IpiTypes
  <2> QED BY <2>1, <2>4, <2>5
<1>11. OneSends(j, Compat')
  BY <1>4, <1>10 DEF IpiFields, OneSends
<1>12. IpisCounted(j)
  <2> SUFFICES ASSUME NEW p \in DOMAIN Processors, NEW u \in SentVectors
               PROVE  Occurrences(j.arrived, Toward(p, u)) + Occurrences(j.pending, Toward(p, u))
                        + Occurrences(j.senders, Naming(SenderTypes, p, u))
                          = Occurrences(j.asked, Naming(Asks, p, u))
    BY DEF IpisCounted
  <2>1. PICK c \in Nat, d \in Nat, e \in Nat :
          /\ c = Occurrences(i.arrived, Toward(p, u)) /\ d = Occurrences(i.pending, Toward(p, u))
          /\ e = Occurrences(i.asked, Naming(Asks, p, u))
    BY FieldsType, OccurringFinite
  <2>2. c + d = e
    <3>1. Occurrences(i.senders, Naming(SenderTypes, p, u)) = 0
      BY <1>2, OccurrencesOne
    <3> QED BY <1>2, <2>1, <3>1 DEF IpisCounted
  <2>3. Occurrences(j.senders, Naming(SenderTypes, p, u)) = IF p \in to /\ v = u THEN 1 ELSE 0
    <3>1. s \in Naming(SenderTypes, p, u) <=> p \in to /\ v = u
      BY <1>4 DEF Naming
    <3> QED BY <1>10, <3>1, OccurrencesOne DEF IpiFields
  <2>4. Occurrences(j.asked, Naming(Asks, p, u)) = e + (IF p \in to /\ v = u THEN 1 ELSE 0)
    <3>1. a \in Naming(Asks, p, u) <=> p \in to /\ v = u
      BY <1>6 DEF Naming
    <3>2. PICK q \in Seq(Asks), x \in Asks : q = i.asked /\ x = a
      BY <1>6, FieldsType
    <3>3. Occurrences(Append(q, x), Naming(Asks, p, u)) =
            Occurrences(q, Naming(Asks, p, u)) + (IF x \in Naming(Asks, p, u) THEN 1 ELSE 0)
      BY OccurrencesAppend
    <3> QED BY <1>9, <1>10, <2>1, <3>1, <3>2, <3>3 DEF IpiFields
  <2>5. Occurrences(j.arrived, Toward(p, u)) = c /\ Occurrences(j.pending, Toward(p, u)) = d
    BY <1>10, <2>1 DEF IpiFields
  <2> QED BY <2>2, <2>3, <2>4, <2>5
<1> QED BY <1>7, <1>10, <1>11, <1>12 DEF IpiInv

(* The sender that is sending, and the record with its next state.         *)
LEMMA SenderIs ==
  ASSUME IpiInv, ipi.senders # <<>>
  PROVE  \E s \in SenderTypes :
           /\ Sender = s /\ ipi.senders = <<s>> /\ ~ipi.enabled /\ s.saved
           /\ s.step = "command" => /\ Compat /\ s.to # {} /\ ipi.pending = <<>>
                                    /\ ipi.destination = Processors[Lowest(s.to)].id
BY DEF IpiInv, OneSends, Sender

LEMMA ReplaceOne ==
  ASSUME NEW s, NEW f PROVE [<<s>> EXCEPT ![1] = f] = <<f>>
OBVIOUS

LEMMA IpiDestines == ASSUME IpiInv, WriteDestination PROVE IpiInv'
<1>1. PICK i \in IpiTypes : i = ipi
  BY DEF IpiInv
<1>2. PICK s \in SenderTypes : i.senders = <<s>> /\ Sender = s /\ ~i.enabled /\ s.saved
  BY <1>1, SenderIs DEF WriteDestination, Sending
<1>3. Compat /\ Compat' /\ s.to # {} /\ i.pending = <<>> /\ IpisCounted(i)
  BY <1>1, <1>2 DEF WriteDestination, Sending, IpiInv, Compat
<1>4. PICK p \in DOMAIN Processors : p = Lowest(s.to) /\ p = Addressee
  <2>1. s.to \in SUBSET DOMAIN Processors
    BY DEF SenderTypes
  <2>2. Lowest(s.to) \in DOMAIN Processors /\ Addressee = Lowest(s.to)
    BY <1>2, <1>3, <2>1, LowestIn DEF Addressee
  <2> QED BY <2>2
<1>5. PICK r : r = [s EXCEPT !.step = "command"]
  OBVIOUS
<1>6. r \in SenderTypes /\ r.step = "command" /\ r.to = s.to /\ r.vector = s.vector /\ r.saved
  BY <1>2, <1>5 DEF SenderTypes
<1>7. PICK j : j = ipi'
  OBVIOUS
<1>8. j = [i EXCEPT !.destination = Processors[p].id, !.senders = <<r>>]
  <2>1. [i.senders EXCEPT ![1] = [@ EXCEPT !.step = "command"]] = <<r>>
    BY <1>2, <1>5
  <2> QED BY <1>1, <1>4, <1>7, <2>1 DEF WriteDestination, IpiTypes
<1>9. IpiFields(j, i.enabled, <<r>>, Processors[p].id, i.pending, i.arrived, i.asked) /\ j \in IpiTypes
  <2>1. PICK q : q = <<r>>
    OBVIOUS
  <2>2. q \in Seq(SenderTypes) /\ Processors[p].id \in Ids
    BY <1>6, <2>1 DEF Ids
  <2> QED BY <1>8, <2>1, <2>2 DEF IpiTypes, IpiFields
<1>10. OneSends(j, Compat')
  BY <1>2, <1>3, <1>4, <1>6, <1>9 DEF IpiFields, OneSends
<1>11. IpisCounted(j)
  <2> SUFFICES ASSUME NEW q \in DOMAIN Processors, NEW u \in SentVectors
               PROVE  Occurrences(j.arrived, Toward(q, u)) + Occurrences(j.pending, Toward(q, u))
                        + Occurrences(j.senders, Naming(SenderTypes, q, u))
                          = Occurrences(j.asked, Naming(Asks, q, u))
    BY DEF IpisCounted
  <2>1. r \in Naming(SenderTypes, q, u) <=> s \in Naming(SenderTypes, q, u)
    BY <1>6 DEF Naming
  <2>2. Occurrences(j.senders, Naming(SenderTypes, q, u)) = Occurrences(i.senders, Naming(SenderTypes, q, u))
    BY <1>2, <1>9, <2>1, OccurrencesOne DEF IpiFields
  <2> QED BY <1>3, <1>9, <2>2 DEF IpiFields, IpisCounted
<1> QED BY <1>7, <1>9, <1>10, <1>11 DEF IpiInv

(* A command counts where the sender's turn did; the ids tell the          *)
(* processors apart.                                                       *)
LEMMA IpiCommands == ASSUME IpiInv, WriteCommand PROVE IpiInv'
<1>1. PICK i \in IpiTypes : i = ipi
  BY DEF IpiInv
<1>2. PICK s \in SenderTypes :
        /\ i.senders = <<s>> /\ Sender = s /\ ~i.enabled /\ s.saved
        /\ s.step = "command" => i.pending = <<>> /\ i.destination = Processors[Lowest(s.to)].id
  BY <1>1, SenderIs DEF WriteCommand, Sending
<1>3. s.to # {} /\ IpisCounted(i)
  BY <1>1, <1>2 DEF WriteCommand, Sending, IpiInv
<1>4. PICK p \in DOMAIN Processors : p = Lowest(s.to) /\ p = Addressee /\ p \in s.to
  <2>1. s.to \in SUBSET DOMAIN Processors
    BY DEF SenderTypes
  <2>2. Lowest(s.to) \in DOMAIN Processors /\ Addressee = Lowest(s.to) /\ Lowest(s.to) \in s.to
    BY <1>2, <1>3, <2>1, LowestIn DEF Addressee
  <2> QED BY <2>2
<1>5. PICK x : x = [to |-> Processors[p].id, vector |-> s.vector]
  OBVIOUS
<1>6. x \in Posts /\ x.to = Processors[p].id /\ x.vector = s.vector
  BY <1>5 DEF Posts, Ids, SenderTypes
<1>7. PICK r : r = [s EXCEPT !.to = @ \ {p}, !.step = "wait"]
  OBVIOUS
<1>8. r \in SenderTypes /\ r.step = "wait" /\ r.to = s.to \ {p} /\ r.vector = s.vector /\ r.saved
  BY <1>2, <1>7 DEF SenderTypes
<1>9. i.pending \in Seq(Posts)
  BY FieldsType
<1>10. PICK n : n = Append(i.pending, x)
  OBVIOUS
<1>11. n \in Seq(Posts)
  BY <1>6, <1>9, <1>10, AppendProperties
<1>12. PICK j : j = ipi'
  OBVIOUS
<1>13. PICK h : h = [i EXCEPT !.senders = <<r>>]
  OBVIOUS
<1>14. Sent = h
  <2>1. [[i.senders EXCEPT ![1].to = @ \ {p}] EXCEPT ![1].step = "wait"] = <<r>>
    BY <1>2, <1>7 DEF SenderTypes
  <2> QED BY <1>1, <1>4, <1>13, <2>1 DEF Sent, IpiTypes
<1>15. j = [h EXCEPT !.pending = n]
  <2>1. CASE Compat /\ Sender.step = "command"
           /\ ipi' = [Sent EXCEPT !.pending = <<[to |-> ipi.destination, vector |-> Sender.vector]>>]
    <3>1. i.pending = <<>> /\ i.destination = Processors[p].id
      BY <1>2, <1>4, <2>1
    <3>2. n = <<x>>
      BY <1>6, <1>10, <3>1
    <3> QED BY <1>1, <1>2, <1>5, <1>12, <1>14, <2>1, <3>1, <3>2
  <2>2. CASE ~Compat
           /\ ipi' = [Sent EXCEPT !.pending =
                         Append(@, [to |-> Processors[Addressee].id, vector |-> Sender.vector])]
    <3>1. h.pending = i.pending
      BY <1>13 DEF IpiTypes
    <3>2. Sent \in IpiTypes
      <4>1. PICK q : q = <<r>>
        OBVIOUS
      <4>2. q \in Seq(SenderTypes)
        BY <1>8, <4>1
      <4> QED BY <1>13, <1>14, <4>1, <4>2 DEF IpiTypes
    <3>3. j = [Sent EXCEPT !.pending = Append(Sent.pending, x)]
      BY <1>2, <1>4, <1>5, <1>12, <2>2, <3>2 DEF IpiTypes
    <3> QED BY <1>10, <1>14, <3>1, <3>3
  <2> QED BY <2>1, <2>2 DEF WriteCommand
<1>16. IpiFields(j, i.enabled, <<r>>, i.destination, n, i.arrived, i.asked) /\ j \in IpiTypes
  <2>1. PICK q : q = <<r>> /\ q \in Seq(SenderTypes)
    <3>1. PICK q : q = <<r>>
      OBVIOUS
    <3>2. q \in Seq(SenderTypes)
      BY <1>8, <3>1
    <3> QED BY <3>1, <3>2
  <2>2. h = [i EXCEPT !.senders = q]
    BY <1>13, <2>1
  <2>3. IpiFields(h, i.enabled, q, i.destination, i.pending, i.arrived, i.asked) /\ h \in IpiTypes
    BY <2>1, <2>2 DEF IpiTypes, IpiFields
  <2>4. IpiFields(j, i.enabled, q, i.destination, n, i.arrived, i.asked) /\ j \in IpiTypes
    BY <1>11, <1>15, <2>3 DEF IpiTypes, IpiFields
  <2> QED BY <2>1, <2>4
<1>17. OneSends(j, Compat')
  BY <1>2, <1>8, <1>16 DEF IpiFields, OneSends
<1>18. IpisCounted(j)
  <2> SUFFICES ASSUME NEW q \in DOMAIN Processors, NEW u \in SentVectors
               PROVE  Occurrences(j.arrived, Toward(q, u)) + Occurrences(j.pending, Toward(q, u))
                        + Occurrences(j.senders, Naming(SenderTypes, q, u))
                          = Occurrences(j.asked, Naming(Asks, q, u))
    BY DEF IpisCounted
  <2>1. PICK c \in Nat, d \in Nat, e \in Nat :
          /\ c = Occurrences(i.arrived, Toward(q, u)) /\ d = Occurrences(i.pending, Toward(q, u))
          /\ e = Occurrences(i.asked, Naming(Asks, q, u))
    BY FieldsType, OccurringFinite
  <2>2. c + d + (IF s \in Naming(SenderTypes, q, u) THEN 1 ELSE 0) = e
    <3>1. Occurrences(i.senders, Naming(SenderTypes, q, u)) = IF s \in Naming(SenderTypes, q, u) THEN 1 ELSE 0
      BY <1>2, OccurrencesOne
    <3> QED BY <1>3, <2>1, <3>1 DEF IpisCounted
  <2>3. Occurrences(j.senders, Naming(SenderTypes, q, u)) = IF r \in Naming(SenderTypes, q, u) THEN 1 ELSE 0
    BY <1>16, OccurrencesOne DEF IpiFields
  <2>4. Occurrences(j.pending, Toward(q, u)) = d + (IF x \in Toward(q, u) THEN 1 ELSE 0)
    BY <1>6, <1>9, <1>10, <1>16, <2>1, OccurrencesAppend DEF IpiFields
  <2>5. x \in Toward(q, u) <=> q = p /\ u = s.vector
    <3>1. Processors[q].id = Processors[p].id => q = p
      BY RoutingAssumption
    <3> QED BY <1>6, <3>1 DEF Toward
  <2>6. s \in Naming(SenderTypes, q, u) <=> (q \in s.to /\ u = s.vector)
    BY DEF Naming
  <2>7. r \in Naming(SenderTypes, q, u) <=> (q \in s.to /\ q # p /\ u = s.vector)
    BY <1>8 DEF Naming
  <2>8. (IF s \in Naming(SenderTypes, q, u) THEN 1 ELSE 0)
          = (IF x \in Toward(q, u) THEN 1 ELSE 0) + (IF r \in Naming(SenderTypes, q, u) THEN 1 ELSE 0)
    <3>1. CASE x \in Toward(q, u)
      BY <1>4, <2>5, <2>6, <2>7, <3>1
    <3>2. CASE x \notin Toward(q, u)
      <4>1. s \in Naming(SenderTypes, q, u) <=> r \in Naming(SenderTypes, q, u)
        BY <2>5, <2>6, <2>7, <3>2
      <4> QED BY <3>2, <4>1
    <3> QED BY <3>1, <3>2
  <2>9. Occurrences(j.arrived, Toward(q, u)) = c /\ Occurrences(j.asked, Naming(Asks, q, u)) = e
    BY <1>16, <2>1 DEF IpiFields
  <2> QED BY <2>2, <2>3, <2>4, <2>8, <2>9
<1> QED BY <1>12, <1>16, <1>17, <1>18 DEF IpiInv

LEMMA IpiDelivered == ASSUME IpiInv, DeliverIpi PROVE IpiInv'
<1>1. PICK i \in IpiTypes : i = ipi
  BY DEF IpiInv
<1>2. i.pending \in Seq(Posts) /\ i.pending # <<>> /\ i.arrived \in Seq(Posts) /\ IpisCounted(i)
  BY <1>1, FieldsType DEF DeliverIpi, IpiInv
<1>3. PICK x : x = i.pending[1]
  OBVIOUS
<1>4. x \in Posts
  <2>1. 1 \in 1..Len(i.pending)
    BY <1>2, EmptySeq, LenProperties
  <2> QED BY <1>2, <1>3, <2>1, ElementOfSeq
<1>5. PICK t : t = Tail(i.pending)
  OBVIOUS
<1>6. t \in Seq(Posts)
  BY <1>2, <1>5, HeadTailProperties
<1>7. PICK n : n = Append(i.arrived, x)
  OBVIOUS
<1>8. n \in Seq(Posts)
  BY <1>2, <1>4, <1>7, AppendProperties
<1>9. PICK j : j = ipi'
  OBVIOUS
<1>10. j = [i EXCEPT !.pending = t, !.arrived = n]
  BY <1>1, <1>3, <1>5, <1>7, <1>9 DEF DeliverIpi, IpiTypes
<1>11. IpiFields(j, i.enabled, i.senders, i.destination, t, n, i.asked) /\ j \in IpiTypes
  BY <1>6, <1>8, <1>10 DEF IpiFields, IpiTypes
<1>12. OneSends(j, Compat')
  <2>1. OneSends(i, Compat) /\ Compat' = Compat
    BY <1>1 DEF IpiInv, DeliverIpi, Compat
  <2> QED BY <1>2, <1>11, <2>1 DEF OneSends, IpiFields
<1>13. IpisCounted(j)
  <2> SUFFICES ASSUME NEW q \in DOMAIN Processors, NEW u \in SentVectors
               PROVE  Occurrences(j.arrived, Toward(q, u)) + Occurrences(j.pending, Toward(q, u))
                        + Occurrences(j.senders, Naming(SenderTypes, q, u))
                          = Occurrences(j.asked, Naming(Asks, q, u))
    BY DEF IpisCounted
  <2>1. PICK c \in Nat, d \in Nat, e \in Nat, f \in Nat :
          /\ c = Occurrences(i.arrived, Toward(q, u)) /\ d = Occurrences(t, Toward(q, u))
          /\ e = Occurrences(i.asked, Naming(Asks, q, u))
          /\ f = Occurrences(i.senders, Naming(SenderTypes, q, u))
    BY <1>6, FieldsType, OccurringFinite
  <2>2. PICK k \in {0, 1} : k = IF x \in Toward(q, u) THEN 1 ELSE 0
    OBVIOUS
  <2>3. Occurrences(i.pending, Toward(q, u)) = d + k
    BY <1>2, <1>3, <1>5, <2>1, <2>2, OccurrencesTail
  <2>4. Occurrences(n, Toward(q, u)) = c + k
    BY <1>2, <1>4, <1>7, <2>1, <2>2, OccurrencesAppend
  <2>5. c + (d + k) + f = e
    BY <1>2, <2>1, <2>3 DEF IpisCounted
  <2>6. (c + k) + d + f = e
    BY <2>1, <2>2, <2>5
  <2> QED BY <1>11, <2>1, <2>4, <2>6 DEF IpiFields
<1> QED BY <1>9, <1>11, <1>12, <1>13 DEF IpiInv

LEMMA IpiEnds == ASSUME IpiInv, EndSend PROVE IpiInv'
<1>1. PICK i \in IpiTypes : i = ipi
  BY DEF IpiInv
<1>2. PICK s \in SenderTypes : i.senders = <<s>> /\ Sender = s /\ s.saved
  BY <1>1, SenderIs DEF EndSend
<1>3. s.to = {} /\ IpisCounted(i)
  BY <1>1, <1>2 DEF EndSend, IpiInv
<1>4. PICK j : j = ipi'
  OBVIOUS
<1>5. j = [i EXCEPT !.senders = <<>>, !.enabled = s.saved]
  <2>1. Tail(<<s>>) = <<>>
    BY <1>2
  <2> QED BY <1>1, <1>2, <1>4, <2>1 DEF EndSend, IpiTypes
<1>6. IpiFields(j, TRUE, <<>>, i.destination, i.pending, i.arrived, i.asked) /\ j \in IpiTypes
  <2>1. s.saved = TRUE
    BY <1>2 DEF SenderTypes
  <2>2. PICK q : q = <<>> /\ q \in Seq(SenderTypes)
    <3>1. PICK q : q = <<>>
      OBVIOUS
    <3>2. q \in Seq(SenderTypes)
      BY <3>1, EmptySeq
    <3> QED BY <3>1, <3>2
  <2>3. j = [i EXCEPT !.senders = q, !.enabled = TRUE]
    BY <1>5, <2>1, <2>2
  <2>4. IpiFields(j, TRUE, q, i.destination, i.pending, i.arrived, i.asked) /\ j \in IpiTypes
    BY <2>2, <2>3 DEF IpiFields, IpiTypes
  <2> QED BY <2>2, <2>4
<1>7. OneSends(j, Compat')
  BY <1>6 DEF IpiFields, OneSends
<1>8. IpisCounted(j)
  <2> SUFFICES ASSUME NEW q \in DOMAIN Processors, NEW u \in SentVectors
               PROVE  Occurrences(j.arrived, Toward(q, u)) + Occurrences(j.pending, Toward(q, u))
                        + Occurrences(j.senders, Naming(SenderTypes, q, u))
                          = Occurrences(j.asked, Naming(Asks, q, u))
    BY DEF IpisCounted
  <2>1. s \notin Naming(SenderTypes, q, u)
    BY <1>3 DEF Naming
  <2>2. Occurrences(j.senders, Naming(SenderTypes, q, u)) = Occurrences(i.senders, Naming(SenderTypes, q, u))
    <3>1. Occurrences(i.senders, Naming(SenderTypes, q, u)) = 0
      BY <1>2, <2>1, OccurrencesOne
    <3>2. Occurrences(j.senders, Naming(SenderTypes, q, u)) = 0
      BY <1>6, OccurrencesOne DEF IpiFields
    <3> QED BY <3>1, <3>2
  <2> QED BY <1>3, <1>6, <2>2 DEF IpiFields, IpisCounted
<1> QED BY <1>4, <1>6, <1>7, <1>8 DEF IpiInv

LEMMA IpiStart == ASSUME RoutingInit PROVE IpiInv
<1>1. PICK i : i = ipi
  OBVIOUS
<1>2. i = [enabled |-> TRUE, senders |-> <<>>, destination |-> "none", pending |-> <<>>,
           arrived |-> <<>>, asked |-> <<>>]
  BY <1>1 DEF RoutingInit
<1>3. i \in IpiTypes
  BY <1>2 DEF IpiTypes
<1>4. OneSends(i, Compat)
  <2>1. i.senders = <<>> /\ i.enabled
    BY <1>2
  <2> QED BY <2>1 DEF OneSends
<1>5. IpisCounted(i)
  <2>1. i.arrived = <<>> /\ i.pending = <<>> /\ i.senders = <<>> /\ i.asked = <<>>
    BY <1>2
  <2>2. \A G : Occurrences(<<>>, G) = 0
    BY OccurrencesOne
  <2> QED BY <2>1, <2>2 DEF IpisCounted
<1> QED BY <1>1, <1>3, <1>4, <1>5 DEF IpiInv

(* The sending of interrupts, through every action.                        *)
LEMMA IpiStep == ASSUME IpiInv, [RoutingNext]_routingVars PROVE IpiInv'
<1>1. CASE UNCHANGED <<board, ipi>>
  BY <1>1 DEF IpiInv, Compat
<1>2. ASSUME NEW self \in BOOLEAN, SendBroadcastIpi(self) PROVE IpiInv'
  <2>1. Started(self) \in SUBSET DOMAIN Processors /\ "broadcast" \in SentVectors
    BY DEF Started, SentVectors
  <2> QED BY <1>2, <2>1, IpiBegins DEF SendBroadcastIpi
<1>3. ASSUME InterruptSends PROVE IpiInv'
  <2>1. PICK p \in DOMAIN Processors, v \in IpiVectors : BeginSend({p}, v)
    BY <1>3 DEF InterruptSends
  <2>2. {p} \in SUBSET DOMAIN Processors /\ v \in SentVectors
    BY DEF SentVectors
  <2>3. ipi.senders = <<>>
    BY <1>3 DEF InterruptSends, IpiInv, OneSends
  <2> QED BY <2>1, <2>2, <2>3, IpiBegins
<1>4. CASE \/ \E mapped \in BOOLEAN : InitializeIOApic(mapped)
           \/ \E a \in Allocations : AllocateSystemInterrupt(a)
           \/ WriteRedirectionEntry \/ UNCHANGED routingVars
  <2>1. UNCHANGED <<board, ipi>>
    BY <1>4 DEF InitializeIOApic, AllocateSystemInterrupt, WriteRedirectionEntry, routingVars
  <2> QED BY <1>1, <2>1
<1> QED BY <1>2, <1>3, <1>4, IpiDestines, IpiCommands, IpiDelivered, IpiEnds DEF RoutingNext

-----------------------------------------------------------------------------
(* The lines of the interrupt controllers.  The interrupt a line is for    *)
(* tells it from every other.                                              *)
Gsi(l) == Madt[l[1]].base + l[2]

LEMMA LineIs ==
  ASSUME board \in DOMAIN Machines, NEW l \in Lines
  PROVE  /\ l[1] \in Controllers /\ l[1] \in Nat /\ l = <<l[1], l[2]>>
         /\ Madt[l[1]].base \in Nat /\ Madt[l[1]].lines \in Nat
         /\ l[2] \in 0..Madt[l[1]].lines - 1
<1>1. PICK c \in Controllers : l \in {c} \X (0..Madt[c].lines - 1)
  BY DEF Lines
<1>2. l[1] = c /\ l[2] \in 0..Madt[c].lines - 1 /\ l = <<l[1], l[2]>>
  BY <1>1
<1>3. c \in {i \in DOMAIN Madt : Madt[i].kind = "ioapic"}
  BY <1>1 DEF Controllers, Of
<1>4. c \in Nat /\ Madt[c].base \in Nat /\ Madt[c].lines \in Nat
  BY <1>3, MadtAssumption DEF Madt
<1> QED BY <1>1, <1>2, <1>4

LEMMA LinesApart ==
  ASSUME board \in DOMAIN Machines, NEW l \in Lines, NEW k \in Lines, Gsi(l) = Gsi(k)
  PROVE  l = k
<1>1. PICK c : c = l[1]
  OBVIOUS
<1>2. PICK d : d = k[1]
  OBVIOUS
<1>3. c \in Controllers /\ d \in Controllers /\ l = <<c, l[2]>> /\ k = <<d, k[2]>>
  BY <1>1, <1>2, LineIs
<1>4. PICK b \in Nat, e \in Nat, f \in Nat, g \in Nat :
        b = Madt[c].base /\ e = Madt[c].lines /\ f = Madt[d].base /\ g = Madt[d].lines
  BY <1>1, <1>2, LineIs
<1>5. PICK n \in 0..e - 1 : n = l[2]
  BY <1>1, <1>4, LineIs
<1>6. PICK m \in 0..g - 1 : m = k[2]
  BY <1>2, <1>4, LineIs
<1>7. b + n = f + m
  BY <1>1, <1>2, <1>4, <1>5, <1>6 DEF Gsi
<1>8. c = d
  <2>1. c # d => b + e <= f \/ f + g <= b
    <3>1. /\ c \in {i \in DOMAIN Madt : Madt[i].kind = "ioapic"}
          /\ d \in {i \in DOMAIN Madt : Madt[i].kind = "ioapic"}
      BY <1>3 DEF Controllers, Of
    <3> QED BY <1>4, <3>1, MadtAssumption DEF Madt
  <2>2. ~(b + e <= f) /\ ~(f + g <= b)
    BY <1>7
  <2> QED BY <2>1, <2>2
<1>9. n = m
  <2>1. b = f
    BY <1>4, <1>8
  <2> QED BY <1>7, <2>1
<1> QED BY <1>3, <1>5, <1>6, <1>8, <1>9

LEMMA LineFound ==
  ASSUME board \in DOMAIN Machines, routing.controllers = Controllers,
         NEW gsi, Covering(gsi) # {}
  PROVE  LineOf(gsi) \in Lines /\ Gsi(LineOf(gsi)) = gsi
<1>1. Covering(gsi) \in SUBSET Nat
  BY MadtAssumption DEF Covering, Controllers, Of, Madt
<1>2. PICK c : c = Lowest(Covering(gsi)) /\ c \in Covering(gsi)
  <2>1. \E x \in Covering(gsi) : \A y \in Covering(gsi) : x <= y
    BY <1>1, LeastNumber
  <2> QED BY <2>1 DEF Lowest
<1>3. c \in Controllers /\ gsi \in Madt[c].base..(Madt[c].base + Madt[c].lines - 1)
  BY <1>2 DEF Covering
<1>4. Madt[c].base \in Nat /\ Madt[c].lines \in Nat
  <2>1. c \in {i \in DOMAIN Madt : Madt[i].kind = "ioapic"}
    BY <1>3 DEF Controllers, Of
  <2> QED BY <2>1, MadtAssumption DEF Madt
<1>5. PICK b \in Nat, n \in Nat : b = Madt[c].base /\ n = Madt[c].lines
  BY <1>4
<1>6. gsi - b \in 0..n - 1 /\ b + (gsi - b) = gsi
  BY <1>3, <1>5
<1>7. PICK k : k = <<c, gsi - b>>
  OBVIOUS
<1>8. k \in {c} \X (0..Madt[c].lines - 1) /\ k[1] = c /\ k[2] = gsi - b
  BY <1>5, <1>6, <1>7
<1>9. LineOf(gsi) = k
  BY <1>2, <1>5, <1>7 DEF LineOf
<1>10. k \in Lines
  BY <1>3, <1>8 DEF Lines
<1>11. Gsi(k) = gsi
  BY <1>5, <1>6, <1>8 DEF Gsi
<1> QED BY <1>9, <1>10, <1>11

LEMMA LineBack ==
  ASSUME board \in DOMAIN Machines, routing.controllers = Controllers, NEW l \in Lines
  PROVE  Covering(Gsi(l)) # {} /\ LineOf(Gsi(l)) = l
<1>1. PICK b \in Nat, n \in Nat : b = Madt[l[1]].base /\ n = Madt[l[1]].lines
  BY LineIs
<1>2. PICK m \in 0..n - 1 : m = l[2]
  BY <1>1, LineIs
<1>3. Gsi(l) = b + m /\ b + m \in b..(b + n - 1)
  BY <1>1, <1>2 DEF Gsi
<1>4. l[1] \in Covering(Gsi(l))
  BY <1>1, <1>3, LineIs DEF Covering
<1> QED BY <1>4, LineFound, LinesApart

-----------------------------------------------------------------------------
(* The writing of an entry.                                                *)
GivenVectors == {a.vector : a \in Allocations}
GivenLevels == {a.level : a \in Allocations}
GivenIrqs == {a.irq : a \in Allocations}
RouteOf(irq) == Route(IrqOverrides, irq)

(* A request, as it is written: it goes to the line the firmware names, as *)
(* the firmware says.                                                      *)
Lows == [mask : {FALSE}, vector : GivenVectors, flags : {RouteOf(irq).flags : irq \in GivenIrqs}]
Given ==
  {w \in [step : 1..3, line : Lines, level : GivenLevels, irq : GivenIrqs, low : Lows] :
     Gsi(w.line) = RouteOf(w.irq).gsi /\ w.low.flags = RouteOf(w.irq).flags}
EntryTypes == [low : Lows \cup {Masked},
            destination : {OwnDestination} \cup {Madt[c].id : c \in Controllers}]
MadtPositions == DOMAIN Madt
RoutingTypes == [state : {"off", "ready", "panic"}, controllers : SUBSET MadtPositions,
                 overrides : SUBSET MadtPositions, vectors : [GivenVectors -> GivenLevels \cup {"free"}],
                 write : Given \cup {NoWrite}]

(* The newest of the requests in G, if there is one, is w.                 *)
Newest(g, G, w) == \E i \in NewestOf(Occurring(g, G)) : g[i] = w
OnLine(l) == {w \in Given : w.line = l}
OfVector(v) == {w \in Given : w.low.vector = v}

(* An entry no request is writing holds all of the newest for its line; of *)
(* one being written, only the steps already made are known.               *)
Holding(e, g, l) ==
  \/ Occurring(g, OnLine(l)) = {} /\ e.low = Masked
  \/ \E w \in Given : Newest(g, OnLine(l), w) /\ e.low = w.low /\ e.destination = OwnDestination
BeingWritten(w, l) == w # NoWrite /\ w.line = l /\ w.step > 1
Partly(e, w) == e.low = Masked /\ (w.step = 3 => e.destination = OwnDestination)
EntriesHold(es, g, w) ==
  \A l \in Lines : IF BeingWritten(w, l) THEN Partly(es[l], w) ELSE Holding(es[l], g, l)
Noted(vs, g) ==
  \A v \in GivenVectors :
    \/ Occurring(g, OfVector(v)) = {} /\ vs[v] = "free"
    \/ \E w \in Given : Newest(g, OfVector(v), w) /\ vs[v] = w.level

Unready == routing.state # "ready" /\ routing.write = NoWrite /\ entries = <<>> /\ given = <<>>
Readied ==
  /\ routing.state = "ready" /\ routing.controllers = Controllers /\ routing.overrides = IrqOverrides
  /\ entries \in [Lines -> EntryTypes] /\ EntriesHold(entries, given, routing.write)
EntriesInv ==
  /\ board \in DOMAIN Machines /\ routing \in RoutingTypes /\ given \in Seq(Given)
  /\ Noted(routing.vectors, given)
  /\ Unready \/ Readied

(* The board does not change, nor what depends on it.                      *)
LEMMA BoardKept ==
  ASSUME board' = board
  PROVE  /\ Lines' = Lines /\ Given' = Given /\ EntryTypes' = EntryTypes /\ MadtPositions' = MadtPositions
         /\ Controllers' = Controllers /\ IrqOverrides' = IrqOverrides /\ Masked' = Masked
         /\ OwnDestination' = OwnDestination /\ RoutingTypes' = RoutingTypes
BY DEF Lines, Given, EntryTypes, MadtPositions, Controllers, IrqOverrides, Masked, OwnDestination, Lows,
       RouteOf, Route, Gsi, Of, Seen, Madt, Compat, RoutingTypes, Lowest

(* The next state, in terms of values.                                     *)
LEMMA EntriesNext ==
  ASSUME board' = board, board \in DOMAIN Machines,
         NEW r \in RoutingTypes, NEW es, NEW g \in Seq(Given),
         routing' = r, entries' = es, given' = g,
         Noted(r.vectors, g),
         \/ r.state # "ready" /\ r.write = NoWrite /\ es = <<>> /\ g = <<>>
         \/ /\ r.state = "ready" /\ r.controllers = Controllers /\ r.overrides = IrqOverrides
            /\ es \in [Lines -> EntryTypes] /\ EntriesHold(es, g, r.write)
  PROVE  EntriesInv'
<1>1. Noted(routing.vectors, given)'
  <2>1. \A v \in GivenVectors : OfVector(v) = OfVector(v)'
    BY BoardKept DEF OfVector
  <2> QED BY <2>1, BoardKept DEF Noted
<1>2. ASSUME EntriesHold(es, g, r.write) PROVE EntriesHold(entries, given, routing.write)'
  <2> SUFFICES ASSUME NEW l \in Lines
               PROVE  IF BeingWritten(r.write, l) THEN Partly(es[l], r.write)' ELSE Holding(es[l], g, l)'
    BY BoardKept DEF EntriesHold, BeingWritten, NoWrite
  <2>1. OnLine(l) = OnLine(l)' /\ OwnDestination' = OwnDestination /\ Given' = Given
    BY BoardKept DEF OnLine
  <2>2. Partly(es[l], r.write) => Partly(es[l], r.write)'
    BY <2>1 DEF Partly, Masked
  <2>3. Holding(es[l], g, l) => Holding(es[l], g, l)'
    BY <2>1 DEF Holding, Masked
  <2> QED BY <1>2, <2>2, <2>3 DEF EntriesHold
<1>3. CASE r.state # "ready" /\ r.write = NoWrite /\ es = <<>> /\ g = <<>>
  <2>1. Unready'
    BY <1>3 DEF Unready, NoWrite
  <2> QED BY <1>1, <2>1, BoardKept DEF EntriesInv
<1>4. CASE r.state = "ready" /\ r.controllers = Controllers /\ r.overrides = IrqOverrides
            /\ es \in [Lines -> EntryTypes] /\ EntriesHold(es, g, r.write)
  <2>1. Readied'
    BY <1>2, <1>4, BoardKept DEF Readied
  <2> QED BY <1>1, <2>1, BoardKept DEF EntriesInv
<1> QED BY <1>3, <1>4

SameNewest(g, h, G) ==
  Occurring(h, G) = Occurring(g, G) /\ \A x : Newest(g, G, x) => Newest(h, G, x)

(* One more request becomes the newest of those it is like.                *)
LEMMA NewestAppend ==
  ASSUME NEW S, NEW g \in Seq(S), NEW w \in S, NEW h, h = Append(g, w), NEW G
  PROVE  /\ h \in Seq(S)
         /\ w \in G => Newest(h, G, w)
         /\ w \notin G => SameNewest(g, h, G)
<1>1. PICK n \in Nat : n = Len(g) /\ DOMAIN g = 1..n
  BY LenProperties
<1>2. h \in Seq(S) /\ Len(h) = n + 1 /\ h[n + 1] = w /\ \A i \in 1..n : h[i] = g[i]
  BY <1>1, AppendProperties
<1>3. DOMAIN h = 1..(n + 1)
  BY <1>2, LenProperties
<1>4. ASSUME w \in G PROVE Newest(h, G, w)
  <2>1. n + 1 \in Occurring(h, G)
    BY <1>2, <1>3, <1>4 DEF Occurring
  <2>2. \A j \in Occurring(h, G) : j <= n + 1
    BY <1>3 DEF Occurring
  <2>3. n + 1 \in NewestOf(Occurring(h, G))
    BY <2>1, <2>2 DEF NewestOf
  <2> QED BY <1>2, <2>3 DEF Newest
<1>5. ASSUME w \notin G
      PROVE  SameNewest(g, h, G)
  <2>1. Occurring(h, G) = Occurring(g, G)
    BY <1>1, <1>2, <1>3, <1>5 DEF Occurring
  <2>2. \A i \in Occurring(g, G) : h[i] = g[i]
    BY <1>1, <1>2 DEF Occurring
  <2>3. NewestOf(Occurring(g, G)) \subseteq Occurring(g, G)
    BY DEF NewestOf
  <2> QED BY <2>1, <2>2, <2>3 DEF Newest, SameNewest
<1> QED BY <1>2, <1>4, <1>5

LEMMA RoutingFields ==
  ASSUME NEW r \in RoutingTypes
  PROVE  /\ r.state \in {"off", "ready", "panic"} /\ r.controllers \in SUBSET MadtPositions
         /\ r.overrides \in SUBSET MadtPositions /\ r.vectors \in [GivenVectors -> GivenLevels \cup {"free"}]
         /\ r.write \in Given \cup {NoWrite}
BY DEF RoutingTypes

LEMMA NoneOccur == ASSUME NEW G PROVE Occurring(<<>>, G) = {}
BY DEF Occurring

LEMMA EntriesInitialized ==
  ASSUME EntriesInv, NEW mapped \in BOOLEAN, InitializeIOApic(mapped) PROVE EntriesInv'
<1>1. PICK r \in RoutingTypes : r = routing
  BY DEF EntriesInv
<1>2. r.state = "off" /\ r.write = NoWrite /\ entries = <<>> /\ given = <<>> /\ Noted(r.vectors, <<>>)
  BY <1>1 DEF EntriesInv, Unready, Readied, InitializeIOApic
<1>3. board' = board /\ board \in DOMAIN Machines /\ given' = <<>> /\ <<>> \in Seq(Given)
  BY <1>2 DEF EntriesInv, InitializeIOApic
<1>4. CASE routing' = [routing EXCEPT !.state = "panic"] /\ entries' = entries
  <2>1. PICK q : q = [r EXCEPT !.state = "panic"]
    OBVIOUS
  <2>2. q \in RoutingTypes /\ q.state = "panic" /\ q.write = r.write /\ q.vectors = r.vectors
    BY <2>1 DEF RoutingTypes
  <2>3. q.state # "ready"
    BY <2>2
  <2> QED BY <1>1, <1>2, <1>3, <1>4, <2>1, <2>2, <2>3, EntriesNext
<1>5. CASE /\ routing' = [routing EXCEPT !.state = "ready", !.controllers = Controllers,
                                          !.overrides = IrqOverrides]
           /\ entries' = [l \in Lines |-> [low |-> Masked, destination |-> Madt[l[1]].id]]
  <2>1. PICK q : q = [r EXCEPT !.state = "ready", !.controllers = Controllers,
                               !.overrides = IrqOverrides]
    OBVIOUS
  <2>2. Controllers \in SUBSET MadtPositions /\ IrqOverrides \in SUBSET MadtPositions
    BY DEF Controllers, IrqOverrides, Of, MadtPositions
  <2>3. /\ q \in RoutingTypes /\ q.state = "ready" /\ q.write = r.write /\ q.vectors = r.vectors
        /\ q.controllers = Controllers /\ q.overrides = IrqOverrides
    <3>1. PICK C \in SUBSET MadtPositions, O \in SUBSET MadtPositions : C = Controllers /\ O = IrqOverrides
      BY <2>2
    <3>2. q = [r EXCEPT !.state = "ready", !.controllers = C, !.overrides = O]
      BY <2>1, <3>1
    <3>3. /\ q \in RoutingTypes /\ q.state = "ready" /\ q.write = r.write /\ q.vectors = r.vectors
          /\ q.controllers = C /\ q.overrides = O
      BY <3>2 DEF RoutingTypes
    <3> QED BY <3>1, <3>3
  <2>4. PICK es : es = [l \in Lines |-> [low |-> Masked, destination |-> Madt[l[1]].id]]
    OBVIOUS
  <2>5. es \in [Lines -> EntryTypes] /\ \A l \in Lines : es[l].low = Masked
    <3>1. ASSUME NEW l \in Lines PROVE l[1] \in Controllers
      BY <1>3, <3>1, LineIs
    <3>2. ASSUME NEW l \in Lines PROVE [low |-> Masked, destination |-> Madt[l[1]].id] \in EntryTypes
      BY <3>1, <3>2 DEF EntryTypes
    <3> QED BY <2>4, <3>2
  <2>6. EntriesHold(es, <<>>, NoWrite)
    BY <2>5, NoneOccur DEF EntriesHold, BeingWritten, Holding
  <2> QED BY <1>1, <1>2, <1>3, <1>5, <2>1, <2>3, <2>4, <2>5, <2>6, EntriesNext
<1> QED BY <1>4, <1>5 DEF InitializeIOApic

LEMMA EntriesAllocated ==
  ASSUME EntriesInv, NEW a \in Allocations, AllocateSystemInterrupt(a) PROVE EntriesInv'
<1>1. PICK r \in RoutingTypes : r = routing
  BY DEF EntriesInv
<1>2. PICK e : e = RouteOf(a.irq)
  OBVIOUS
<1>3. /\ r.state = "ready" /\ r.write = NoWrite /\ Covering(e.gsi) # {}
      /\ r.controllers = Controllers /\ r.overrides = IrqOverrides
      /\ Resolved(a.irq) = e
  BY <1>1, <1>2 DEF EntriesInv, Unready, Readied, AllocateSystemInterrupt, Resolved, RouteOf
<1>4. board \in DOMAIN Machines /\ board' = board /\ entries' = entries /\ given' = given
  BY DEF EntriesInv, AllocateSystemInterrupt
<1>5. PICK l \in Lines : l = LineOf(e.gsi) /\ Gsi(l) = e.gsi
  BY <1>1, <1>3, <1>4, LineFound
<1>6. PICK low : low = [mask |-> FALSE, vector |-> a.vector, flags |-> e.flags]
  OBVIOUS
<1>7. low \in Lows /\ low.flags = e.flags
  BY <1>2, <1>6 DEF Lows, GivenVectors, GivenIrqs
<1>8. PICK w : w = [step |-> 1, line |-> l, level |-> a.level, irq |-> a.irq, low |-> low]
  OBVIOUS
<1>9. w \in Given /\ w.step = 1
  <2>1. w \in [step : 1..3, line : Lines, level : GivenLevels, irq : GivenIrqs, low : Lows]
    BY <1>7, <1>8 DEF GivenLevels, GivenIrqs
  <2> QED BY <1>2, <1>5, <1>7, <1>8, <2>1 DEF Given
<1>10. PICK q : q = [r EXCEPT !.write = w]
  OBVIOUS
<1>11. /\ q \in RoutingTypes /\ q.state = r.state /\ q.controllers = r.controllers
       /\ q.overrides = r.overrides /\ q.vectors = r.vectors /\ q.write = w
  BY <1>9, <1>10 DEF RoutingTypes
<1>12. routing' = q
  BY <1>1, <1>3, <1>5, <1>6, <1>8, <1>10 DEF AllocateSystemInterrupt
<1>13. entries \in [Lines -> EntryTypes] /\ EntriesHold(entries, given, NoWrite) /\ given \in Seq(Given)
       /\ Noted(r.vectors, given)
  BY <1>1, <1>3 DEF EntriesInv, Unready, Readied
<1>14. EntriesHold(entries, given, w)
  <2>1. ~(1 > 1)
    OBVIOUS
  <2> QED BY <1>9, <1>13, <2>1 DEF EntriesHold, BeingWritten
<1> QED BY <1>3, <1>4, <1>11, <1>12, <1>13, <1>14, EntriesNext

(* A step of writing an entry changes this entry.                          *)
LEMMA EntryWritten ==
  ASSUME NEW es \in [Lines -> EntryTypes], NEW k \in Lines, NEW e \in EntryTypes,
         NEW f, f = [es EXCEPT ![k] = e], NEW g, NEW h, NEW w \in Given, w.line = k, NEW v,
         EntriesHold(es, g, w), \A l \in Lines : l # k => ~BeingWritten(v, l),
         \A l \in Lines \ {k} : Holding(es[l], g, l) => Holding(es[l], h, l),
         IF BeingWritten(v, k) THEN Partly(e, v) ELSE Holding(e, h, k)
  PROVE  f \in [Lines -> EntryTypes] /\ EntriesHold(f, h, v)
<1>1. f \in [Lines -> EntryTypes] /\ f[k] = e /\ \A l \in Lines \ {k} : f[l] = es[l]
  OBVIOUS
<1> SUFFICES ASSUME NEW l \in Lines
             PROVE  IF BeingWritten(v, l) THEN Partly(f[l], v) ELSE Holding(f[l], h, l)
  BY <1>1 DEF EntriesHold
<1>2. CASE l = k
  BY <1>1, <1>2
<1>3. CASE l # k
  <2>1. ~BeingWritten(w, l) /\ ~BeingWritten(v, l)
    BY <1>3 DEF BeingWritten
  <2>2. Holding(es[l], g, l)
    BY <2>1 DEF EntriesHold
  <2> QED BY <1>1, <1>3, <2>1, <2>2
<1> QED BY <1>2, <1>3

LEMMA EntriesStep ==
  ASSUME EntriesInv, WriteRedirectionEntry PROVE EntriesInv'
<1>1. PICK r \in RoutingTypes : r = routing
  BY DEF EntriesInv
<1>2. PICK w \in Given : w = r.write /\ w # NoWrite
  BY <1>1, RoutingFields DEF WriteRedirectionEntry
<1>3. PICK k \in Lines : k = w.line
  BY DEF Given
<1>4. PICK es \in [Lines -> EntryTypes], g \in Seq(Given) :
        /\ es = entries /\ g = given /\ EntriesHold(es, g, w) /\ Noted(r.vectors, g)
        /\ r.state = "ready" /\ r.controllers = Controllers /\ r.overrides = IrqOverrides
  BY <1>1, <1>2 DEF EntriesInv, Unready, Readied
<1>5. board' = board /\ board \in DOMAIN Machines
  BY DEF EntriesInv, WriteRedirectionEntry
<1>6. PICK e \in EntryTypes : e = es[k]
  OBVIOUS
<1>7. w.step \in 1..3 /\ w.low \in Lows /\ w.level \in GivenLevels /\ w.low.vector \in GivenVectors
  BY DEF Given, Lows
<1>8. WriteOrder[1] = "mask" /\ WriteOrder[2] = "high" /\ WriteOrder[3] = "low" /\ Len(WriteOrder) = 3
  BY DEF WriteOrder
<1>9. ASSUME NEW n \in EntryTypes, entries' = [es EXCEPT ![k] = n], w.step \in {1, 2},
             NEW v \in Given, v = [w EXCEPT !.step = @ + 1], Partly(n, v)
      PROVE  EntriesInv'
  <2>1. v.line = k /\ v.step = w.step + 1 /\ v.step > 1
    BY <1>3, <1>9 DEF Given
  <2>2. routing' = [r EXCEPT !.write = v] /\ given' = g
    <3>1. w.step # Len(WriteOrder)
      BY <1>8, <1>9
    <3>2. routing' = [routing EXCEPT !.write.step = @ + 1] /\ given' = given
      BY <1>1, <1>2, <3>1 DEF WriteRedirectionEntry
    <3> QED BY <1>1, <1>2, <1>4, <1>9, <3>2 DEF RoutingTypes
  <2>3. PICK q : q = [r EXCEPT !.write = v]
    OBVIOUS
  <2>4. /\ q \in RoutingTypes /\ q.state = r.state /\ q.controllers = r.controllers
        /\ q.overrides = r.overrides /\ q.vectors = r.vectors /\ q.write = v
    BY <2>3 DEF RoutingTypes
  <2>5. \A l \in Lines : l # k => ~BeingWritten(v, l)
    BY <2>1 DEF BeingWritten
  <2>6. IF BeingWritten(v, k) THEN Partly(n, v) ELSE Holding(n, g, k)
    <3>1. v # NoWrite
      <4>1. NoWrite.step = 0
        BY DEF NoWrite
      <4> QED BY <1>7, <2>1, <4>1
    <3> QED BY <1>9, <2>1, <3>1 DEF BeingWritten
  <2>7. PICK f : f = [es EXCEPT ![k] = n]
    OBVIOUS
  <2>8. f \in [Lines -> EntryTypes] /\ EntriesHold(f, g, v)
    BY <1>3, <1>4, <2>5, <2>6, <2>7, EntryWritten
  <2>9. entries' = f /\ routing' = q
    BY <1>9, <2>2, <2>3, <2>7
  <2> QED BY <1>4, <1>5, <2>2, <2>4, <2>8, <2>9, EntriesNext
<1>10. ASSUME w.step \in {1, 2}
       PROVE  [w EXCEPT !.step = @ + 1] \in Given /\ [w EXCEPT !.step = @ + 1].step = w.step + 1
  <2>1. PICK v : v = [w EXCEPT !.step = @ + 1]
    OBVIOUS
  <2>2. w \in [step : 1..3, line : Lines, level : GivenLevels, irq : GivenIrqs, low : Lows]
    BY DEF Given
  <2>3. /\ v \in [step : 1..3, line : Lines, level : GivenLevels, irq : GivenIrqs, low : Lows]
        /\ v.line = w.line /\ v.irq = w.irq /\ v.low = w.low /\ v.step = w.step + 1
    BY <1>10, <2>1, <2>2
  <2> QED BY <2>1, <2>3 DEF Given
<1>11. PICK M : M = Masked
  OBVIOUS
<1>12. M \in {Masked}
  BY <1>11
<1>13. CASE w.step = 1
  <2>1. PICK v : v = [w EXCEPT !.step = @ + 1]
    OBVIOUS
  <2>. v \in Given /\ v.step = 2
    <3>1. v \in Given /\ v.step = w.step + 1
      BY <1>10, <1>13, <2>1
    <3> QED BY <1>13, <3>1
  <2>2. PICK n : n = [e EXCEPT !.low = M]
    OBVIOUS
  <2>3. n \in EntryTypes /\ n.low = M
    BY <1>12, <2>2 DEF EntryTypes
  <2>4. entries' = [es EXCEPT ![k] = n]
    BY <1>1, <1>2, <1>3, <1>4, <1>6, <1>8, <1>11, <1>13, <2>2 DEF WriteRedirectionEntry
  <2>5. Partly(n, v)
    BY <1>11, <2>1, <2>3 DEF Partly
  <2> QED BY <1>9, <1>13, <2>1, <2>3, <2>4, <2>5
<1>14. CASE w.step = 2
  <2>1. PICK v : v = [w EXCEPT !.step = @ + 1]
    OBVIOUS
  <2>. v \in Given /\ v.step = 3
    <3>1. v \in Given /\ v.step = w.step + 1
      BY <1>10, <1>14, <2>1
    <3> QED BY <1>14, <3>1
  <2>2. PICK D : D = OwnDestination
    OBVIOUS
  <2>3. PICK n : n = [e EXCEPT !.destination = D]
    OBVIOUS
  <2>4. n \in EntryTypes /\ n.low = e.low /\ n.destination = D
    BY <2>2, <2>3 DEF EntryTypes
  <2>5. entries' = [es EXCEPT ![k] = n]
    BY <1>1, <1>2, <1>3, <1>4, <1>6, <1>8, <1>14, <2>2, <2>3 DEF WriteRedirectionEntry
  <2>6. e.low = Masked
    <3>1. BeingWritten(w, k)
      BY <1>2, <1>3, <1>14 DEF BeingWritten
    <3> QED BY <1>4, <1>6, <3>1 DEF EntriesHold, Partly
  <2>7. Partly(n, v)
    BY <2>2, <2>4, <2>6 DEF Partly
  <2> QED BY <1>9, <1>14, <2>1, <2>4, <2>5, <2>7
<1>15. CASE w.step = 3
  <2>1. PICK x \in Lows, u \in GivenVectors, b \in GivenLevels : x = w.low /\ u = x.vector /\ b = w.level
    BY <1>7
  <2>2. PICK n : n = [e EXCEPT !.low = x]
    OBVIOUS
  <2>3. n \in EntryTypes /\ n.low = x /\ n.destination = e.destination
    BY <2>2 DEF EntryTypes
  <2>4. entries' = [es EXCEPT ![k] = n]
    BY <1>1, <1>2, <1>3, <1>4, <1>6, <1>8, <1>15, <2>1, <2>2 DEF WriteRedirectionEntry
  <2>5. PICK h : h = Append(g, w)
    OBVIOUS
  <2>6. given' = h /\ routing' = [r EXCEPT !.write = NoWrite, !.vectors[u] = b]
    BY <1>1, <1>2, <1>4, <1>8, <1>15, <2>1, <2>5 DEF WriteRedirectionEntry
  <2>7. PICK vs : vs = [r.vectors EXCEPT ![u] = b]
    OBVIOUS
  <2>8. /\ vs \in [GivenVectors -> GivenLevels \cup {"free"}] /\ vs[u] = b
        /\ \A v \in GivenVectors \ {u} : vs[v] = r.vectors[v]
    BY <2>7, RoutingFields
  <2>9. PICK q : q = [r EXCEPT !.write = NoWrite, !.vectors = vs]
    OBVIOUS
  <2>10. /\ q \in RoutingTypes /\ q.state = r.state /\ q.controllers = r.controllers
         /\ q.overrides = r.overrides /\ q.vectors = vs /\ q.write = NoWrite
    <3>1. PICK W : W = NoWrite
      OBVIOUS
    <3>2. q = [r EXCEPT !.write = W, !.vectors = vs] /\ W \in {NoWrite}
      BY <2>9, <3>1
    <3>3. /\ q \in RoutingTypes /\ q.state = r.state /\ q.controllers = r.controllers
          /\ q.overrides = r.overrides /\ q.vectors = vs /\ q.write = W
      BY <2>8, <3>2 DEF RoutingTypes
    <3> QED BY <3>1, <3>3
  <2>11. routing' = q
    BY <2>6, <2>7, <2>9 DEF RoutingTypes
  <2>12. h \in Seq(Given)
    BY <2>5, NewestAppend
  <2>13. e.destination = OwnDestination
    <3>1. BeingWritten(w, k)
      BY <1>2, <1>3, <1>15 DEF BeingWritten
    <3> QED BY <1>4, <1>6, <1>15, <3>1 DEF EntriesHold, Partly
  <2>14. Holding(n, h, k)
    <3>1. w \in OnLine(k)
      BY <1>3 DEF OnLine
    <3>2. Newest(h, OnLine(k), w)
      BY <2>5, <3>1, NewestAppend
    <3> QED BY <2>1, <2>3, <2>13, <3>2 DEF Holding
  <2>15. \A l \in Lines \ {k} : Holding(es[l], g, l) => Holding(es[l], h, l)
    <3> SUFFICES ASSUME NEW l \in Lines \ {k}, Holding(es[l], g, l) PROVE Holding(es[l], h, l)
      OBVIOUS
    <3>1. w \notin OnLine(l)
      BY <1>3 DEF OnLine
    <3>2. PICK G : G = OnLine(l)
      OBVIOUS
    <3>3. w \notin G
      BY <3>1, <3>2
    <3>4. SameNewest(g, h, G)
      BY <2>5, <3>3, NewestAppend
    <3> QED BY <3>2, <3>4 DEF Holding, SameNewest
  <2>16. Noted(vs, h)
    <3> SUFFICES ASSUME NEW v \in GivenVectors
                 PROVE  \/ Occurring(h, OfVector(v)) = {} /\ vs[v] = "free"
                        \/ \E y \in Given : Newest(h, OfVector(v), y) /\ vs[v] = y.level
      BY DEF Noted
    <3>1. CASE v = u
      <4>1. w \in OfVector(u)
        BY <2>1 DEF OfVector
      <4>2. Newest(h, OfVector(u), w)
        BY <2>5, <4>1, NewestAppend
      <4> QED BY <2>1, <2>8, <3>1, <4>2
    <3>2. CASE v # u
      <4>1. w \notin OfVector(v)
        BY <2>1, <3>2 DEF OfVector
      <4>2. PICK G : G = OfVector(v)
        OBVIOUS
      <4>3. w \notin G
        BY <4>1, <4>2
      <4>4. SameNewest(g, h, G)
        BY <2>5, <4>3, NewestAppend
      <4>5. vs[v] = r.vectors[v]
        BY <2>8, <3>2
      <4> QED BY <1>4, <4>2, <4>4, <4>5 DEF Noted, SameNewest
    <3> QED BY <3>1, <3>2
  <2>17. \A l \in Lines : ~BeingWritten(NoWrite, l)
    BY DEF BeingWritten
  <2>18. PICK f : f = [es EXCEPT ![k] = n]
    OBVIOUS
  <2>19. f \in [Lines -> EntryTypes] /\ EntriesHold(f, h, NoWrite)
    BY <1>3, <1>4, <2>3, <2>14, <2>15, <2>17, <2>18, EntryWritten
  <2>20. entries' = f
    BY <2>4, <2>18
  <2> QED BY <1>4, <1>5, <2>6, <2>10, <2>11, <2>12, <2>16, <2>19, <2>20, EntriesNext
<1> QED BY <1>7, <1>13, <1>14, <1>15

LEMMA EntriesStart == ASSUME RoutingInit PROVE EntriesInv
<1>1. PICK vs : vs = [v \in GivenVectors |-> "free"]
  OBVIOUS
<1>2. vs \in [GivenVectors -> GivenLevels \cup {"free"}] /\ \A v \in GivenVectors : vs[v] = "free"
  BY <1>1
<1>3. PICK r : r = routing
  OBVIOUS
<1>4. r = [state |-> "off", controllers |-> {}, overrides |-> {}, vectors |-> vs, write |-> NoWrite]
  BY <1>1, <1>3 DEF RoutingInit, GivenVectors
<1>5. r \in RoutingTypes /\ r.state # "ready" /\ r.write = NoWrite /\ r.vectors = vs
  BY <1>2, <1>4 DEF RoutingTypes
<1>6. board \in DOMAIN Machines /\ entries = <<>> /\ given = <<>> /\ <<>> \in Seq(Given)
  BY DEF RoutingInit
<1>7. Noted(vs, <<>>)
  BY <1>2, NoneOccur DEF Noted
<1> QED BY <1>3, <1>5, <1>6, <1>7 DEF EntriesInv, Unready

LEMMA EntriesIdle == ASSUME EntriesInv, UNCHANGED <<board, routing, entries, given>> PROVE EntriesInv'
<1>1. PICK r \in RoutingTypes, g \in Seq(Given) : r = routing /\ g = given
  BY DEF EntriesInv
<1>2. board' = board /\ routing' = r /\ entries' = entries /\ given' = g
  BY <1>1
<1>3. /\ board \in DOMAIN Machines /\ Noted(r.vectors, g)
      /\ \/ r.state # "ready" /\ r.write = NoWrite /\ entries = <<>> /\ g = <<>>
         \/ /\ r.state = "ready" /\ r.controllers = Controllers /\ r.overrides = IrqOverrides
            /\ entries \in [Lines -> EntryTypes] /\ EntriesHold(entries, g, r.write)
  BY <1>1 DEF EntriesInv, Unready, Readied
<1> QED BY <1>2, <1>3, EntriesNext

LEMMA EntriesKept == ASSUME EntriesInv, [RoutingNext]_routingVars PROVE EntriesInv'
<1>1. CASE \/ \E self \in BOOLEAN : SendBroadcastIpi(self)
           \/ InterruptSends \/ WriteDestination \/ WriteCommand \/ DeliverIpi \/ EndSend
           \/ UNCHANGED routingVars
  <2>1. UNCHANGED <<board, routing, entries, given>>
    BY <1>1 DEF SendBroadcastIpi, InterruptSends, BeginSend, WriteDestination, WriteCommand,
                DeliverIpi, EndSend, routingVars
  <2> QED BY <2>1, EntriesIdle
<1> QED BY <1>1, EntriesInitialized, EntriesAllocated, EntriesStep DEF RoutingNext

(* The newest of some requests is one of them, and the only one.           *)
LEMMA NewestIs ==
  ASSUME NEW g \in Seq(Given), NEW G, NEW w, Newest(g, G, w)
  PROVE  /\ \E i \in Occurring(g, G) : g[i] = w
         /\ \A i \in NewestOf(Occurring(g, G)) : g[i] = w
<1>1. PICK i \in NewestOf(Occurring(g, G)) : g[i] = w
  BY DEF Newest
<1>2. i \in Occurring(g, G)
  BY DEF NewestOf
<1>3. Occurring(g, G) \subseteq Nat
  BY LenProperties DEF Occurring
<1>4. ASSUME NEW j \in NewestOf(Occurring(g, G)) PROVE j = i
  BY <1>3 DEF NewestOf
<1> QED BY <1>1, <1>2, <1>4

LEMMA EntriesWhole == ASSUME EntriesInv PROVE RoutesWhole
<1>1. PICK g \in Seq(Given), r \in RoutingTypes : g = given /\ r = routing
  BY DEF EntriesInv
<1>2. \A i \in DOMAIN g : g[i] \in Given
  BY LenProperties, ElementOfSeq
<1>3. ASSUME NEW l \in DOMAIN entries PROVE Readied /\ l \in Lines /\ board \in DOMAIN Machines
  <2>1. entries # <<>>
    BY <1>3
  <2> QED BY <1>3, <2>1 DEF EntriesInv, Unready, Readied
<1>4. ASSUME NEW l \in DOMAIN entries, ~entries[l].low.mask
      PROVE  entries[l].destination = OwnDestination /\ \E i \in DOMAIN given : given[i].low = entries[l].low
  <2>1. PICK e : e = entries[l]
    OBVIOUS
  <2>2. e.low # Masked
    BY <1>4, <2>1 DEF Masked
  <2>3. Holding(e, g, l)
    BY <1>1, <1>3, <2>1, <2>2 DEF Readied, EntriesHold, Partly
  <2>4. PICK w \in Given : Newest(g, OnLine(l), w) /\ e.low = w.low /\ e.destination = OwnDestination
    BY <2>2, <2>3 DEF Holding
  <2>5. PICK i \in Occurring(g, OnLine(l)) : g[i] = w
    BY <2>4, NewestIs
  <2> QED BY <1>1, <2>1, <2>4, <2>5 DEF Occurring
<1>5. ASSUME routing.write = NoWrite, AllSeen, NEW l \in DOMAIN entries
      PROVE  LET gsi == Madt[l[1]].base + l[2]
                 uses == {i \in DOMAIN given : TrueRoute(given[i].irq).gsi = gsi}
             IN  /\ entries[l].low.mask <=> uses = {}
                 /\ \A i \in NewestOf(uses) :
                       /\ TranslateGsiToVector(gsi) = given[i].low.vector
                       /\ entries[l].low.flags = TrueRoute(given[i].irq).flags
  <2>1. Readied /\ l \in Lines /\ board \in DOMAIN Machines
    BY <1>3
  <2>2. PICK e : e = entries[l]
    OBVIOUS
  <2>3. Holding(e, g, l)
    BY <1>1, <1>5, <2>1, <2>2 DEF Readied, EntriesHold, BeingWritten
  <2>4. \A irq : TrueRoute(irq) = RouteOf(irq)
    <3>1. Of("override") = IrqOverrides
      BY <1>5 DEF AllSeen, IrqOverrides
    <3> QED BY <3>1 DEF TrueRoute, RouteOf
  <2>5. PICK gsi : gsi = Gsi(l) /\ gsi = Madt[l[1]].base + l[2]
    BY DEF Gsi
  <2>6. PICK uses : uses = {i \in DOMAIN given : TrueRoute(given[i].irq).gsi = gsi}
    OBVIOUS
  <2>7. \A k \in Lines : Gsi(k) = gsi => k = l
    BY <2>1, <2>5, LinesApart
  <2>8. uses = Occurring(g, OnLine(l))
    <3>1. ASSUME NEW i \in DOMAIN g PROVE TrueRoute(g[i].irq).gsi = gsi <=> g[i] \in OnLine(l)
      <4>1. PICK w \in Given : w = g[i]
        BY <1>2
      <4>2. w.line \in Lines /\ Gsi(w.line) = RouteOf(w.irq).gsi
        BY DEF Given
      <4>3. w.line = l <=> RouteOf(w.irq).gsi = gsi
        BY <2>5, <2>7, <4>2
      <4> QED BY <2>4, <4>1, <4>3 DEF OnLine
    <3> QED BY <1>1, <2>6, <3>1 DEF Occurring
  <2>9. TranslateGsiToVector(gsi) = e.low.vector
    <3>1. routing.controllers = Controllers
      BY <2>1 DEF Readied
    <3>2. Covering(gsi) # {} /\ LineOf(gsi) = l
      BY <2>1, <2>5, <3>1, LineBack
    <3> QED BY <2>2, <3>2 DEF TranslateGsiToVector
  <2>10. CASE uses = {} /\ e.low = Masked
    <3>1. e.low.mask
      BY <2>10 DEF Masked
    <3>2. NewestOf(uses) = {}
      BY <2>10 DEF NewestOf
    <3> QED BY <2>2, <2>5, <2>6, <2>10, <3>1, <3>2
  <2>11. CASE \E w \in Given : Newest(g, OnLine(l), w) /\ e.low = w.low
    <3>1. PICK w \in Given : Newest(g, OnLine(l), w) /\ e.low = w.low
      BY <2>11
    <3>2. uses # {} /\ \A i \in NewestOf(uses) : g[i] = w
      BY <2>8, <3>1, NewestIs
    <3>3. ~e.low.mask /\ e.low.flags = RouteOf(w.irq).flags
      BY <3>1 DEF Given, Lows
    <3> QED BY <1>1, <2>2, <2>4, <2>5, <2>6, <2>9, <3>1, <3>2, <3>3
  <2> QED BY <2>3, <2>8, <2>10, <2>11 DEF Holding
<1>6. ASSUME NEW v \in DOMAIN routing.vectors
      PROVE  LET uses == {i \in DOMAIN given : given[i].low.vector = v}
             IN  /\ routing.vectors[v] = "free" <=> uses = {}
                 /\ \A i \in NewestOf(uses) : routing.vectors[v] = given[i].level
  <2>1. v \in GivenVectors /\ Noted(r.vectors, g)
    BY <1>1, <1>6, RoutingFields DEF EntriesInv
  <2>2. PICK uses : uses = {i \in DOMAIN given : given[i].low.vector = v}
    OBVIOUS
  <2>3. uses = Occurring(g, OfVector(v))
    BY <1>1, <1>2, <2>2 DEF Occurring, OfVector
  <2>4. CASE Occurring(g, OfVector(v)) = {} /\ r.vectors[v] = "free"
    <3>1. NewestOf(uses) = {}
      BY <2>3, <2>4 DEF NewestOf
    <3> QED BY <1>1, <2>2, <2>3, <2>4, <3>1
  <2>5. CASE \E w \in Given : Newest(g, OfVector(v), w) /\ r.vectors[v] = w.level
    <3>1. PICK w \in Given : Newest(g, OfVector(v), w) /\ r.vectors[v] = w.level
      BY <2>5
    <3>2. uses # {} /\ \A i \in NewestOf(uses) : g[i] = w
      BY <2>3, <3>1, NewestIs
    <3>3. w.level # "free"
      BY RoutingAssumption DEF Given, GivenLevels
    <3> QED BY <1>1, <2>2, <3>1, <3>2, <3>3
  <2> QED BY <2>1, <2>4, <2>5 DEF Noted
<1> QED BY <1>4, <1>5, <1>6 DEF RoutesWhole

LEMMA RoutesSound == IpiInv /\ EntriesInv => RoutingSound
BY CountsArrive, EntriesWhole DEF IpiInv, RoutingSound

(* An interrupt is delivered to the destination and with the vector of one *)
(* request, and every interprocessor interrupt arrives once, where it was  *)
(* sent.                                                                   *)
THEOREM Routes == RoutingSpec => []RoutingSound
<1>1. RoutingInit => IpiInv /\ EntriesInv
  BY IpiStart, EntriesStart
<1>2. IpiInv /\ EntriesInv /\ [RoutingNext]_routingVars => (IpiInv /\ EntriesInv)'
  BY IpiStep, EntriesKept
<1> QED BY <1>1, <1>2, RoutesSound, PTL DEF RoutingSpec

-----------------------------------------------------------------------------
(* The ACPI tables.  The inductive invariant says of the map of the range  *)
(* that each table kept has its pages and nothing else has any, of the     *)
(* tables kept that they are the ones the firmware provides, each name     *)
(* once and never one that is wrong, and of each state of the start which  *)
(* tables it has found and has yet to find.                                *)

CacheRecord == [table : TableRecord, at : VaPages]
WindowMaps == [VaPages -> Nat \cup {Unmapped}]

PagesFrom(b, n) == b .. (b + n - 1)
IsRun(w, b, n) == b \in VaPages /\ \A p \in PagesFrom(b, n) : p \in VaPages /\ w[p] = Unmapped

LEMMA RunOf ==
  ASSUME NEW w, NEW n
  PROVE  /\ FirstRun(w, n) = NoTable => FreeRuns(w, n) = {}
         /\ FirstRun(w, n) # NoTable => IsRun(w, FirstRun(w, n), n)
         /\ \A b : b \in FreeRuns(w, n) <=> IsRun(w, b, n)
<1>1. \A b : b \in FreeRuns(w, n) <=> IsRun(w, b, n)
  BY DEF FreeRuns, IsRun, PagesFrom
<1>2. PICK S : S = FreeRuns(w, n)
  OBVIOUS
<1>3. S \subseteq VaPages /\ VaPages \subseteq Nat /\ 0 \notin VaPages
  BY <1>2, AcpiAssumption DEF FreeRuns
<1>4. ASSUME S # {} PROVE FirstRun(w, n) \in S
  <2>1. \E b \in S : \A c \in S : b <= c
    BY <1>3, <1>4, LeastNumber
  <2>2. FirstRun(w, n) = CHOOSE b \in S : \A c \in S : b <= c
    BY <1>2, <1>4 DEF FirstRun
  <2> QED BY <2>1, <2>2
<1>5. S = {} => FirstRun(w, n) = NoTable
  BY <1>2 DEF FirstRun
<1>6. FirstRun(w, n) \in S => FirstRun(w, n) # NoTable
  BY <1>3 DEF NoTable
<1> QED BY <1>1, <1>2, <1>4, <1>5, <1>6

LEMMA WholeQuotient ==
  ASSUME NEW n \in Nat, NEW m \in Nat \ {0}
  PROVE  n \div m \in Nat
<1>1. PICK q \in Int, r \in 0 .. m - 1 : n = m * q + r /\ n \div m = q
  BY QuotientRest
<1>2. CASE q < 0
  <2>1. PICK z \in Nat : z = -q - 1
    BY <1>2
  <2>2. m * q = -(m * z) - m /\ m * z \in Nat
    BY <2>1
  <2>3. PICK v \in Nat, u \in Int : v = m * z /\ u = m * q
    BY <2>2
  <2> QED BY <1>1, <2>2, <2>3
<1> QED BY <1>1, <1>2

LEMMA PageNumbers ==
  ASSUME NEW t \in TableRecord
  PROVE  PageOf(t) \in Nat /\ PagesNeeded(t) \in Nat
<1>1. PICK m \in Nat \ {0} : m = PageUnits
  BY AcpiAssumption
<1>2. PICK a \in Nat, l \in Nat : a = t.addr /\ l = t.len
  BY DEF TableRecord
<1>3. PICK r \in 0 .. m - 1 : a % m = r
  OBVIOUS
<1>4. PICK s \in Nat : s = r + l + m - 1
  BY <1>1
<1>5. a \div m \in Nat /\ s \div m \in Nat
  BY WholeQuotient
<1>6. PageOf(t) = a \div m /\ PagesNeeded(t) = s \div m
  BY <1>1, <1>2, <1>3, <1>4 DEF PageOf, PagesNeeded
<1> QED BY <1>5, <1>6

(* What mapping a run, and taking it away, make of each page.              *)
LEMMA PageMapped ==
  ASSUME NEW w \in WindowMaps, NEW b, NEW n \in Nat, NEW page \in Nat, IsRun(w, b, n)
  PROVE  /\ MapPages(w, b, page, n) \in WindowMaps
         /\ \A p \in PagesFrom(b, n) : MapPages(w, b, page, n)[p] = page + (p - b)
                                       /\ MapPages(w, b, page, n)[p] \in Nat
         /\ \A p \in VaPages : p \notin PagesFrom(b, n) => MapPages(w, b, page, n)[p] = w[p]
         /\ UnmapPages(MapPages(w, b, page, n), b, n) = w
<1>1. PICK v : v = MapPages(w, b, page, n)
  OBVIOUS
<1>2. b \in Nat /\ \A p \in PagesFrom(b, n) : p \in VaPages /\ w[p] = Unmapped
  BY AcpiAssumption DEF IsRun
<1>3. ASSUME NEW p \in PagesFrom(b, n) PROVE v[p] = page + (p - b) /\ v[p] \in Nat
  <2>1. p \in Nat /\ p >= b
    BY <1>2, <1>3 DEF PagesFrom
  <2>2. v[p] = page + (p - b)
    BY <1>1, <1>2, <1>3 DEF MapPages, PagesFrom
  <2> QED BY <1>2, <2>1, <2>2
<1>4. \A p \in VaPages : p \notin PagesFrom(b, n) => v[p] = w[p]
  BY <1>1 DEF MapPages, PagesFrom
<1>5. DOMAIN w = VaPages /\ \A p \in VaPages : w[p] \in Nat \cup {Unmapped}
  BY DEF WindowMaps
<1>6. v = [p \in VaPages |-> v[p]]
  BY <1>1, Zenon DEF MapPages
<1>7. v \in WindowMaps
  BY <1>3, <1>4, <1>5, <1>6 DEF WindowMaps
<1>8. UnmapPages(v, b, n) = w
  <2>1. PICK u : u = UnmapPages(v, b, n)
    OBVIOUS
  <2>2. u = [p \in VaPages |-> IF p \in PagesFrom(b, n) THEN Unmapped ELSE v[p]]
    BY <2>1 DEF UnmapPages, PagesFrom
  <2>3. \A p \in VaPages : u[p] = w[p]
    BY <1>2, <1>4, <2>2
  <2>4. w = [p \in VaPages |-> w[p]]
    BY DEF WindowMaps
  <2> QED BY <2>1, <2>2, <2>3, <2>4
<1> QED BY <1>1, <1>3, <1>4, <1>7, <1>8

(* The tables in H have their pages in a map, apart from each other and    *)
(* from the other pages O that are in use.                                 *)
AreaOf(m) == PagesFrom(m.at, PagesNeeded(m.table))
InPlace(w, m) == \A p \in AreaOf(m) : p \in VaPages /\ w[p] = PageOf(m.table) + (p - m.at) /\ w[p] # Unmapped
Apart(m, o) == \A p \in AreaOf(m) : p \notin AreaOf(o)
Laid(w, H, O) ==
  /\ \A m \in H : InPlace(w, m)
  /\ \A m, o \in H : m # o => Apart(m, o)
  /\ \A m \in H : \A p \in AreaOf(m) : p \notin O
  /\ \A p \in O : p \in VaPages /\ w[p] # Unmapped
NoMore(w, H, O) ==
  \A p \in VaPages : w[p] # Unmapped => p \in O \/ \E m \in H : p \in AreaOf(m)

LEMMA MoreMapped ==
  ASSUME NEW w \in WindowMaps, NEW b, NEW n \in Nat, NEW page \in Nat, IsRun(w, b, n),
         NEW H, NEW O, Laid(w, H, O)
  PROVE  /\ Laid(MapPages(w, b, page, n), H, O)
         /\ \A m \in H : \A p \in AreaOf(m) : p \notin PagesFrom(b, n)
         /\ \A p \in O : p \notin PagesFrom(b, n)
<1>1. PICK v : v = MapPages(w, b, page, n)
  OBVIOUS
<1>2. \A p \in VaPages : p \notin PagesFrom(b, n) => v[p] = w[p]
  BY <1>1, PageMapped
<1>3. \A p \in PagesFrom(b, n) : w[p] = Unmapped
  BY DEF IsRun
<1>4. \A m \in H : \A p \in AreaOf(m) : p \notin PagesFrom(b, n)
  BY <1>3 DEF Laid, InPlace
<1>5. \A p \in O : p \notin PagesFrom(b, n)
  BY <1>3 DEF Laid
<1>6. \A m \in H : InPlace(v, m)
  BY <1>2, <1>4 DEF Laid, InPlace
<1>7. \A p \in O : p \in VaPages /\ v[p] # Unmapped
  BY <1>2, <1>5 DEF Laid
<1> QED BY <1>1, <1>4, <1>5, <1>6, <1>7 DEF Laid

LEMMA OtherMapped ==
  ASSUME NEW w \in WindowMaps, NEW b, NEW n \in Nat, NEW page \in Nat, IsRun(w, b, n),
         NEW H, NEW O, Laid(w, H, O), NEW U, \A p : p \in U <=> p \in O \/ p \in PagesFrom(b, n)
  PROVE  /\ Laid(MapPages(w, b, page, n), H, U)
         /\ NoMore(w, H, O) => NoMore(MapPages(w, b, page, n), H, U)
<1>1. PICK v : v = MapPages(w, b, page, n)
  OBVIOUS
<1>2. /\ Laid(v, H, O) /\ \A m \in H : \A p \in AreaOf(m) : p \notin PagesFrom(b, n)
  BY <1>1, MoreMapped
<1>3. /\ \A p \in VaPages : p \notin PagesFrom(b, n) => v[p] = w[p]
      /\ \A p \in PagesFrom(b, n) : p \in VaPages /\ v[p] \in Nat
  BY <1>1, PageMapped DEF IsRun
<1>4. Unmapped \notin Nat
  BY DEF Unmapped
<1>5. Laid(v, H, U)
  BY <1>2, <1>3, <1>4 DEF Laid
<1>6. NoMore(w, H, O) => NoMore(v, H, U)
  BY <1>3 DEF NoMore
<1> QED BY <1>1, <1>5, <1>6

LEMMA TableMapped ==
  ASSUME NEW w \in WindowMaps, NEW b, NEW t \in TableRecord, IsRun(w, b, PagesNeeded(t)),
         NEW H, NEW O, Laid(w, H, O), NEW e, e.table = t, e.at = b, NEW G, G = H \cup {e}
  PROVE  /\ Laid(MapPages(w, b, PageOf(t), PagesNeeded(t)), G, O)
         /\ NoMore(w, H, O) => NoMore(MapPages(w, b, PageOf(t), PagesNeeded(t)), G, O)
<1>1. PICK n \in Nat, page \in Nat : n = PagesNeeded(t) /\ page = PageOf(t)
  BY PageNumbers
<1>2. PICK v : v = MapPages(w, b, page, n)
  OBVIOUS
<1>3. IsRun(w, b, n)
  BY <1>1
<1>4. /\ Laid(v, H, O) /\ \A m \in H : \A p \in AreaOf(m) : p \notin PagesFrom(b, n)
      /\ \A p \in O : p \notin PagesFrom(b, n)
  BY <1>2, <1>3, MoreMapped
<1>5. /\ \A p \in VaPages : p \notin PagesFrom(b, n) => v[p] = w[p]
      /\ \A p \in PagesFrom(b, n) : p \in VaPages /\ v[p] = page + (p - b) /\ v[p] \in Nat
  BY <1>2, <1>3, PageMapped DEF IsRun
<1>6. AreaOf(e) = PagesFrom(b, n)
  BY <1>1 DEF AreaOf
<1>7. Unmapped \notin Nat
  BY DEF Unmapped
<1>8. InPlace(v, e)
  BY <1>1, <1>5, <1>6, <1>7 DEF InPlace
<1>9. \A m \in G : m \in H \/ m = e
  OBVIOUS
<1>10. \A m \in G : InPlace(v, m)
  BY <1>4, <1>8, <1>9 DEF Laid
<1>11. \A m, o \in G : m # o => Apart(m, o)
  <2> SUFFICES ASSUME NEW m \in G, NEW o \in G, m # o PROVE Apart(m, o)
    OBVIOUS
  <2>1. CASE m \in H /\ o \in H
    BY <1>4, <2>1 DEF Laid
  <2>2. CASE m \in H /\ o = e
    BY <1>4, <1>6, <2>2 DEF Apart
  <2>3. CASE m = e /\ o \in H
    BY <1>4, <1>6, <2>3 DEF Apart
  <2> QED BY <1>9, <2>1, <2>2, <2>3
<1>12. \A m \in G : \A p \in AreaOf(m) : p \notin O
  BY <1>4, <1>6, <1>9 DEF Laid
<1>13. Laid(v, G, O)
  BY <1>4, <1>10, <1>11, <1>12 DEF Laid
<1>14. NoMore(w, H, O) => NoMore(v, G, O)
  BY <1>5, <1>6 DEF NoMore
<1> QED BY <1>1, <1>2, <1>13, <1>14

(* What caching a table does to the tables held.                           *)
HeldIn(c, u) == {c[i] : i \in DOMAIN c} \cup u
SameName(H, c) == \A m \in H : \A o \in DOMAIN c : m.table.sig = c[o].table.sig => m = c[o]
Room(c, u) == c \in Seq(CacheRecord) /\ Len(c) <= MaxCached /\ u \in SUBSET CacheRecord
              /\ (u # {} => Len(c) = MaxCached)

LEMMA CacheEffect ==
  ASSUME Room(cached, uncached), SameName(Held, cached), NEW t \in TableRecord, NEW b \in VaPages,
         CacheTable(t, b), Cached(t.sig) = {}
  PROVE  /\ Room(cached', uncached')
         /\ HeldIn(cached', uncached') = Held \cup {[table |-> t, at |-> b]}
         /\ SameName(HeldIn(cached', uncached'), cached')
         /\ \A i \in DOMAIN cached : i \in DOMAIN cached' /\ cached'[i] = cached[i]
         /\ Len(cached) < MaxCached => \E i \in DOMAIN cached' : cached'[i].table.sig = t.sig
<1>1. PICK e \in CacheRecord : e = [table |-> t, at |-> b]
  <2>1. [table |-> t, at |-> b] \in CacheRecord
    BY DEF CacheRecord
  <2> QED BY <2>1
<1>2. e.table = t /\ e.at = b
  BY <1>1
<1>3. PICK n \in Nat, x \in Nat : n = Len(cached) /\ DOMAIN cached = 1 .. n /\ x = MaxCached /\ n <= x
  BY LenProperties, AcpiAssumption DEF Room
<1>4. cached \in Seq(CacheRecord) /\ uncached \in SUBSET CacheRecord /\ (uncached # {} => n = x)
  BY <1>3 DEF Room
<1>5. \A i \in DOMAIN cached : cached[i].table.sig # e.table.sig
  BY <1>2 DEF Cached
<1>6. \A m \in Held : m \in CacheRecord /\ (m \in uncached \/ \E i \in DOMAIN cached : m = cached[i])
  <2>1. \A i \in DOMAIN cached : cached[i] \in CacheRecord
    BY <1>3, <1>4, ElementOfSeq
  <2> QED BY <1>4, <2>1 DEF Held
<1>7. CASE n < x
  <2>1. PICK c : c = Append(cached, e)
    OBVIOUS
  <2>2. cached' = c /\ uncached' = uncached
    BY <1>1, <1>3, <1>7, <2>1 DEF CacheTable
  <2>3. c \in Seq(CacheRecord) /\ Len(c) = n + 1 /\ c[n + 1] = e /\ \A i \in 1 .. n : c[i] = cached[i]
    BY <1>3, <1>4, <2>1, AppendProperties
  <2>4. DOMAIN c = 1 .. n + 1
    BY <2>3, LenProperties
  <2>5. uncached = {}
    BY <1>4, <1>7
  <2>6. Room(c, uncached)
    <3>1. Len(c) <= x
      BY <1>7, <2>3
    <3> QED BY <1>3, <1>4, <2>3, <2>5, <3>1 DEF Room
  <2>7. \A i \in DOMAIN cached : i \in DOMAIN c /\ c[i] = cached[i]
    BY <1>3, <2>3, <2>4
  <2>8. n + 1 \in DOMAIN c /\ \A i \in DOMAIN c : i \in DOMAIN cached \/ i = n + 1
    BY <1>3, <2>4
  <2>9. HeldIn(c, uncached) = Held \cup {e}
    <3>1. \A m : m \in HeldIn(c, uncached) <=> m \in Held \cup {e}
      BY <2>3, <2>7, <2>8 DEF HeldIn, Held
    <3> QED BY <3>1
  <2>10. SameName(HeldIn(c, uncached), c)
    <3> SUFFICES ASSUME NEW m \in Held \cup {e}, NEW o \in DOMAIN c, m.table.sig = c[o].table.sig
                 PROVE  m = c[o]
      BY <2>9 DEF SameName
    <3>1. CASE m \in Held /\ o \in DOMAIN cached
      BY <2>7, <3>1 DEF SameName
    <3>2. CASE m = e /\ o \in DOMAIN cached
      BY <1>5, <2>7, <3>2
    <3>3. CASE m \in Held /\ o = n + 1
      <4>1. c[o] = e
        BY <2>3, <3>3
      <4>2. PICK i \in DOMAIN cached : m = cached[i]
        BY <1>6, <2>5, <3>3
      <4> QED BY <1>5, <4>1, <4>2
    <3>4. CASE m = e /\ o = n + 1
      BY <2>3, <3>4
    <3> QED BY <2>8, <3>1, <3>2, <3>3, <3>4
  <2>11. c[n + 1].table.sig = t.sig
    BY <1>2, <2>3
  <2> QED BY <1>1, <2>2, <2>6, <2>7, <2>8, <2>9, <2>10, <2>11
<1>8. CASE ~(n < x)
  <2>1. PICK u : u = uncached \cup {e}
    OBVIOUS
  <2>2. cached' = cached /\ uncached' = u
    BY <1>1, <1>3, <1>8, <2>1 DEF CacheTable
  <2>3. Room(cached, u)
    BY <1>3, <1>4, <1>8, <2>1 DEF Room
  <2>4. HeldIn(cached, u) = Held \cup {e}
    BY <2>1 DEF HeldIn, Held
  <2>5. SameName(HeldIn(cached, u), cached)
    BY <1>5, <2>4 DEF SameName
  <2> QED BY <1>1, <1>3, <1>8, <2>2, <2>3, <2>4, <2>5
<1> QED BY <1>3, <1>7, <1>8

(* One table goes by each name.                                            *)
LEMMA FirmwareIs ==
  ASSUME firmware \in DOMAIN Firmwares
  PROVE  LET f == Firmwares[firmware]
         IN  /\ f.rsdp \in Nat /\ f.root \in TableRecord
             /\ f.root.good => f.root.sig \in RootSignatures
             /\ f.tables \in Seq(TableRecord) /\ f.madt \in Seq(MadtEntry)
             /\ f.pointed \subseteq TableRecord
             /\ \A t, u \in f.pointed : t.sig = u.sig => t = u
BY FirmwareAssumption

LEMMA ProvidedOne ==
  ASSUME firmware \in DOMAIN Firmwares, NEW sig
  PROVE  /\ \A t \in Provided(sig) : t \in TableRecord /\ t.sig = sig
         /\ \A t, u \in Provided(sig) : t = u
         /\ sig \in RootSignatures => Provided(sig) = {}
<1>1. PICK ts \in Seq(TableRecord) : ts = Firmwares[firmware].tables
  <2>1. Firmwares[firmware].tables \in Seq(TableRecord)
    BY FirmwareIs
  <2> QED BY <2>1
<1>2. \A t \in Listed(sig) : \E i \in DOMAIN ts : t = ts[i] /\ ts[i].sig = sig /\ \A k \in 1 .. i - 1 : ts[k].sig # sig
  BY <1>1 DEF Listed
<1>3. DOMAIN ts = 1 .. Len(ts) /\ Len(ts) \in Nat
  BY LenProperties
<1>4. \A t, u \in Listed(sig) : t = u
  <2> SUFFICES ASSUME NEW t \in Listed(sig), NEW u \in Listed(sig) PROVE t = u
    OBVIOUS
  <2>1. PICK i \in DOMAIN ts : t = ts[i] /\ ts[i].sig = sig /\ \A k \in 1 .. i - 1 : ts[k].sig # sig
    BY <1>2
  <2>2. PICK j \in DOMAIN ts : u = ts[j] /\ ts[j].sig = sig /\ \A k \in 1 .. j - 1 : ts[k].sig # sig
    BY <1>2
  <2>3. i \in Nat /\ j \in Nat /\ 1 <= i /\ 1 <= j
    BY <1>3
  <2>4. ~(i < j)
    <3>1. i < j => i \in 1 .. j - 1
      BY <2>3
    <3> QED BY <2>1, <2>2, <3>1
  <2>5. ~(j < i)
    <3>1. j < i => j \in 1 .. i - 1
      BY <2>3
    <3> QED BY <2>1, <2>2, <3>1
  <2>6. i = j
    BY <2>3, <2>4, <2>5
  <2> QED BY <2>1, <2>2, <2>6
<1>5. \A t \in Listed(sig) : t \in TableRecord /\ t.sig = sig
  BY <1>2, <1>3, ElementOfSeq
<1>6. /\ \A t \in Pointed(sig) : t \in TableRecord /\ t.sig = sig
      /\ \A t, u \in Pointed(sig) : t = u
  BY FirmwareIs DEF Pointed
<1>7. /\ Provided(sig) = {} \/ Provided(sig) = Pointed(sig) \/ Provided(sig) = Listed(sig)
      /\ sig \in RootSignatures => Provided(sig) = {}
  <2>1. CASE sig \in RootSignatures
    <3>1. sig \notin PointedSignatures
      BY <2>1 DEF RootSignatures, PointedSignatures
    <3> QED BY <2>1, <3>1 DEF Provided
  <2>2. CASE sig \notin RootSignatures /\ sig \in PointedSignatures
    BY <2>2 DEF Provided
  <2>3. CASE sig \notin RootSignatures /\ sig \notin PointedSignatures
    BY <2>3 DEF Provided
  <2> QED BY <2>1, <2>2, <2>3
<1>8. CASE Provided(sig) = {}
  BY <1>8
<1>9. CASE Provided(sig) = Pointed(sig)
  BY <1>6, <1>7, <1>9
<1>10. CASE Provided(sig) = Listed(sig)
  BY <1>4, <1>5, <1>7, <1>10
<1> QED BY <1>7, <1>8, <1>9, <1>10

LEMMA KnownOne ==
  ASSUME firmware \in DOMAIN Firmwares, Firmwares[firmware].root.sig \in RootSignatures, NEW sig
  PROVE  \A t, u \in Known(sig) : t = u
<1>1. CASE Firmwares[firmware].root.sig = sig
  BY <1>1, ProvidedOne DEF Known
<1>2. CASE Firmwares[firmware].root.sig # sig
  BY <1>2, ProvidedOne DEF Known
<1> QED BY <1>1, <1>2

(* The places of the processors are different, and in the memory.          *)
LEMMA RoundedUp ==
  ASSUME NEW c \in Nat, NEW k \in Nat \ {0}
  PROVE  c <= ((c + k - 1) \div k) * k
<1>1. PICK s \in Nat : s = c + k - 1
  OBVIOUS
<1>2. PICK q \in Int, r \in 0 .. k - 1 : s = k * q + r /\ s \div k = q
  BY QuotientRest
<1>3. PICK x \in Int : x = k * q
  OBVIOUS
<1>4. q * k = x
  BY <1>3
<1>5. c <= x
  BY <1>1, <1>2, <1>3
<1> QED BY <1>1, <1>2, <1>4, <1>5

LEMMA PlacesApart ==
  ASSUME NEW P, IsFiniteSet(P), P \subseteq Nat, NEW i \in P
  PROVE  /\ Cardinality({j \in P : j < i}) \in 0 .. Cardinality(P) - 1
         /\ \A k \in P : i < k => Cardinality({j \in P : j < i}) < Cardinality({j \in P : j < k})
<1>1. ASSUME NEW Q, NEW R, IsFiniteSet(R), Q \subseteq R, i \in R, i \notin Q
      PROVE  Cardinality(Q) \in Nat /\ Cardinality(R) \in Nat /\ Cardinality(Q) < Cardinality(R)
  <2>1. IsFiniteSet(Q) /\ Cardinality(Q) <= Cardinality(R) /\ (Cardinality(Q) = Cardinality(R) => Q = R)
    BY <1>1, FS_Subset
  <2>2. Cardinality(Q) \in Nat /\ Cardinality(R) \in Nat
    BY <1>1, <2>1, FS_CardinalityType
  <2> QED BY <1>1, <2>1, <2>2
<1>2. PICK B : B = {j \in P : j < i}
  OBVIOUS
<1>3. B \subseteq P /\ i \notin B
  BY <1>2
<1>4. Cardinality(B) \in Nat /\ Cardinality(P) \in Nat /\ Cardinality(B) < Cardinality(P)
  BY <1>1, <1>3
<1>5. ASSUME NEW k \in P, i < k PROVE Cardinality(B) < Cardinality({j \in P : j < k})
  <2>1. PICK R : R = {j \in P : j < k}
    OBVIOUS
  <2>2. R \subseteq P
    BY <2>1
  <2>3. IsFiniteSet(R)
    BY <2>2, FS_Subset
  <2>4. B \subseteq R /\ i \in R
    <3>1. \A j \in P : j < i => j < k
      BY <1>5
    <3> QED BY <1>2, <1>5, <2>1, <3>1
  <2> QED BY <1>1, <1>3, <2>1, <2>3, <2>4
<1> QED BY <1>2, <1>4, <1>5

LEMMA EnabledFinite ==
  ASSUME firmware \in DOMAIN Firmwares, NEW kinds
  PROVE  IsFiniteSet(Enabled(kinds)) /\ Enabled(kinds) \subseteq Nat
<1>1. PICK es \in Seq(MadtEntry) : es = Firmwares[firmware].madt
  <2>1. Firmwares[firmware].madt \in Seq(MadtEntry)
    BY FirmwareIs
  <2> QED BY <2>1
<1>2. DOMAIN es = 1 .. Len(es) /\ Len(es) \in Nat
  BY LenProperties
<1>3. Enabled(kinds) \subseteq 1 .. Len(es)
  BY <1>1, <1>2 DEF Enabled
<1>4. IsFiniteSet(1 .. Len(es)) /\ 1 .. Len(es) \subseteq Nat
  BY <1>2, FS_Interval
<1> QED BY <1>3, <1>4, FS_Subset

LEMMA InfoPagesType ==
  ASSUME firmware \in DOMAIN Firmwares
  PROVE  /\ InfoPages \in Nat /\ CountProcessors \in Nat
         /\ CountProcessors <= InfoPages * CpusPerPage
<1>1. CountProcessors \in Nat
  BY EnabledFinite, FS_CardinalityType DEF CountProcessors
<1>2. PICK c \in Nat, k \in Nat \ {0} : c = CountProcessors /\ k = CpusPerPage
  BY <1>1, AcpiAssumption
<1>3. c <= ((c + k - 1) \div k) * k
  BY RoundedUp
<1>4. PICK s \in Nat : s = c + k - 1
  BY <1>2
<1>5. PICK q \in Nat : q = s \div k
  BY WholeQuotient
<1>6. InfoPages = q /\ CountProcessors <= InfoPages * CpusPerPage
  BY <1>2, <1>3, <1>4, <1>5 DEF InfoPages
<1> QED BY <1>1, <1>6

IdentitiesKept == identities = <<>> \/ (identities = StoreProcessors /\ cpuInfo # NoTable)

LEMMA KeptIdentities ==
  ASSUME firmware \in DOMAIN Firmwares, IdentitiesKept
  PROVE  ProcessorsStored
<1>1. CASE identities = <<>>
  <2>1. DOMAIN identities = {}
    BY <1>1
  <2> QED BY <1>1, <2>1 DEF ProcessorsStored
<1>2. CASE identities = StoreProcessors /\ cpuInfo # NoTable
  <2>1. PICK P : P = Enabled({"apic", "x2apic"})
    OBVIOUS
  <2>2. IsFiniteSet(P) /\ P \subseteq Nat /\ Cardinality(P) = CountProcessors
    BY <2>1, EnabledFinite DEF CountProcessors
  <2>3. DOMAIN identities = P /\ \A i \in P : identities[i].number = Cardinality({j \in P : j < i})
    BY <1>2, <2>1 DEF StoreProcessors
  <2>4. PICK c \in Nat, x \in Int : c = CountProcessors /\ x = InfoPages * CpusPerPage /\ c <= x
    BY InfoPagesType, AcpiAssumption
  <2>5. \A i \in P : identities[i].number \in 0 .. x - 1
    <3> SUFFICES ASSUME NEW i \in P PROVE identities[i].number \in 0 .. x - 1
      OBVIOUS
    <3>1. Cardinality({j \in P : j < i}) \in 0 .. c - 1
      BY <2>2, <2>4, PlacesApart
    <3>2. PICK n : n = identities[i].number
      OBVIOUS
    <3>3. n \in 0 .. c - 1
      BY <2>3, <3>1, <3>2
    <3> QED BY <2>4, <3>2, <3>3
  <2>6. \A i, j \in P : identities[i].number = identities[j].number => i = j
    <3> SUFFICES ASSUME NEW i \in P, NEW j \in P, identities[i].number = identities[j].number
                 PROVE  i = j
      OBVIOUS
    <3>1. PICK a : a = Cardinality({k \in P : k < i})
      OBVIOUS
    <3>2. PICK b : b = Cardinality({k \in P : k < j})
      OBVIOUS
    <3>3. a = b
      BY <2>3, <3>1, <3>2
    <3>4. i < j => a < b
      BY <2>2, <3>1, <3>2, PlacesApart
    <3>5. j < i => b < a
      BY <2>2, <3>1, <3>2, PlacesApart
    <3>6. i \in Nat /\ j \in Nat
      BY <2>2
    <3>7. a \in Nat
      <4>1. a \in 0 .. Cardinality(P) - 1
        BY <2>2, <3>1, PlacesApart
      <4> QED BY <4>1
    <3> QED BY <3>3, <3>4, <3>5, <3>6, <3>7
  <2>7. P = {i \in DOMAIN Firmwares[firmware].madt : i \in Enabled({"apic"}) \/ i \in Enabled({"x2apic"})}
    BY <2>1 DEF Enabled
  <2> QED BY <1>2, <2>3, <2>4, <2>5, <2>6, <2>7 DEF ProcessorsStored
<1> QED BY <1>1, <1>2 DEF IdentitiesKept

-----------------------------------------------------------------------------
(* What a query comes to: a table is kept at a run of pages as long as it  *)
(* is, or nothing is, and then for a reason.                               *)
Keeps(t, b) ==
  /\ IsRun(vaMap, b, PagesNeeded(t)) /\ located' = b /\ CacheTable(t, b)
  /\ vaMap' = MapPages(vaMap, b, PageOf(t), PagesNeeded(t))
Wrong(t) == Checked(t) /\ (~t.good \/ LongTable(t))
Admitted(t) == Checked(t) => t.good \/ LongTable(t)

LEMMA KeepEffect ==
  ASSUME vaMap \in WindowMaps, NEW t \in TableRecord, FirstRun(vaMap, 2) # NoTable, KeepTable(t)
  PROVE  \/ NothingKept /\ Crowded(t)
         \/ \E b \in VaPages : Keeps(t, b)
<1>1. PICK n \in Nat, page \in Nat : n = PagesNeeded(t) /\ page = PageOf(t)
  BY PageNumbers
<1>2. PICK b \in VaPages : b = FirstRun(vaMap, 2) /\ IsRun(vaMap, b, 2)
  <2>1. IsRun(vaMap, FirstRun(vaMap, 2), 2)
    BY RunOf
  <2> QED BY <2>1 DEF IsRun
<1>3. Remapped(MapPages(vaMap, b, page, 2), b) = vaMap
  BY <1>2, PageMapped DEF Remapped
<1>4. PICK c : c = FirstRun(vaMap, n)
  OBVIOUS
<1>5. CASE n = 2
  <2>1. vaMap' = MapPages(vaMap, b, page, 2) /\ located' = b /\ CacheTable(t, b)
    BY <1>1, <1>2, <1>5 DEF KeepTable
  <2>2. Keeps(t, b)
    BY <1>1, <1>2, <1>5, <2>1 DEF Keeps
  <2> QED BY <2>2
<1>6. CASE n # 2 /\ c = NoTable
  <2>1. vaMap' = vaMap /\ located' = NoTable /\ UNCHANGED <<cached, uncached>>
    BY <1>1, <1>2, <1>3, <1>4, <1>6 DEF KeepTable
  <2>2. FreeRuns(vaMap, n) = {}
    BY <1>4, <1>6, RunOf
  <2>3. Crowded(t)
    BY <1>1, <2>2 DEF Crowded
  <2> QED BY <2>1, <2>3 DEF NothingKept
<1>7. CASE n # 2 /\ c # NoTable
  <2>1. vaMap' = MapPages(vaMap, c, page, n) /\ located' = c /\ CacheTable(t, c)
    BY <1>1, <1>2, <1>3, <1>4, <1>7 DEF KeepTable
  <2>2. IsRun(vaMap, c, n)
    BY <1>4, <1>7, RunOf
  <2>3. Keeps(t, c) /\ c \in VaPages
    BY <1>1, <2>1, <2>2 DEF Keeps, IsRun
  <2> QED BY <2>3
<1> QED BY <1>5, <1>6, <1>7

LEMMA SumsPass ==
  ASSUME vaMap \in WindowMaps, NEW t \in TableRecord, NEW sum \in BOOLEAN, FirstRun(vaMap, 2) # NoTable
  PROVE  /\ Checked(t) /\ ~SumGood(t, sum) => Wrong(t)
         /\ ~(Checked(t) /\ ~SumGood(t, sum)) => Admitted(t)
         /\ Faults(t) => Checked(t) /\ LongTable(t)
<1>1. PICK n \in Nat : n = PagesNeeded(t)
  BY PageNumbers
<1>2. PICK b \in Nat : b = FirstRun(vaMap, 2)
  <2>1. IsRun(vaMap, FirstRun(vaMap, 2), 2)
    BY RunOf
  <2> QED BY <2>1, AcpiAssumption DEF IsRun
<1>3. PagesBehind(t) = (b + 2) .. (b + n - 1)
  BY <1>1, <1>2 DEF PagesBehind
<1>4. PagesBehind(t) # {} => n > 2
  <2>1. \A p \in (b + 2) .. (b + n - 1) : n > 2
    BY <1>1, <1>2
  <2> QED BY <1>3, <2>1
<1>5. LongTable(t) <=> n > 2
  BY <1>1 DEF LongTable
<1>6. t.good \in BOOLEAN
  BY DEF TableRecord
<1>7. Faults(t) => Checked(t) /\ PagesBehind(t) # {}
  BY DEF Faults
<1>8. SumGood(t, sum) => t.good \/ PagesBehind(t) # {}
  BY DEF SumGood
<1>9. ~SumGood(t, sum) => ~t.good \/ PagesBehind(t) # {}
  BY DEF SumGood
<1> QED BY <1>4, <1>5, <1>7, <1>8, <1>9 DEF Wrong, Admitted

(* Of Query: found in the cache, kept now, or not found.                   *)
FoundAt(i, sig) == i \in DOMAIN cached /\ cached[i].table.sig = sig /\ located' = cached[i].at
                   /\ UNCHANGED <<vaMap, cached, uncached>>

LEMMA QueryEffect ==
  ASSUME vaMap \in WindowMaps, firmware \in DOMAIN Firmwares, Room(cached, uncached), NEW sig,
         NEW sum \in BOOLEAN, GetAcpiTable(sig, sum)
  PROVE  \/ \E i : FoundAt(i, sig)
         \/ /\ Cached(sig) = {} /\ NothingKept
            /\ \A t \in Provided(sig) : Wrong(t) \/ Crowded(t)
         \/ /\ Cached(sig) = {}
            /\ \E t \in Provided(sig) : Admitted(t) /\ \E b \in VaPages : Keeps(t, b)
<1>1. CASE Cached(sig) # {}
  <2>1. Hit(sig)
    BY <1>1 DEF GetAcpiTable
  <2>2. PICK S : S = Cached(sig)
    OBVIOUS
  <2>3. DOMAIN cached = 1 .. Len(cached) /\ Len(cached) \in Nat
    BY LenProperties DEF Room
  <2>4. S \in SUBSET Nat /\ S # {}
    BY <1>1, <2>2, <2>3 DEF Cached
  <2>5. \E i \in S : \A j \in S : i <= j
    BY <2>4, LeastNumber
  <2>6. PICK i \in S : i = CHOOSE k \in S : \A j \in S : k <= j
    BY <2>5
  <2>7. FoundAt(i, sig)
    BY <2>1, <2>2, <2>6 DEF Hit, FoundAt, Cached
  <2> QED BY <2>7
<1>2. CASE Cached(sig) = {}
  <2>1. QueryAcpiTables(sig, sum)
    BY <1>2 DEF GetAcpiTable
  <2>2. CASE Provided(sig) = {} /\ NothingKept
    BY <1>2, <2>2
  <2>3. CASE FirstRun(vaMap, 2) = NoTable /\ NothingKept
    <3>1. FreeRuns(vaMap, 2) = {}
      BY <2>3, RunOf
    <3>2. \A t \in Provided(sig) : Crowded(t)
      BY <3>1 DEF Crowded
    <3> QED BY <1>2, <2>3, <3>2
  <2>4. CASE /\ FirstRun(vaMap, 2) # NoTable
             /\ \E t \in Provided(sig) :
                   IF Checked(t) /\ ~SumGood(t, sum) THEN NothingKept ELSE KeepTable(t)
    <3>1. PICK t \in Provided(sig) :
             IF Checked(t) /\ ~SumGood(t, sum) THEN NothingKept ELSE KeepTable(t)
      BY <2>4
    <3>2. t \in TableRecord /\ \A u \in Provided(sig) : u = t
      BY <3>1, ProvidedOne
    <3>3. CASE Checked(t) /\ ~SumGood(t, sum)
      <4>1. NothingKept
        BY <3>1, <3>3
      <4>2. Wrong(t)
        BY <2>4, <3>2, <3>3, SumsPass
      <4> QED BY <1>2, <3>2, <4>1, <4>2
    <3>4. CASE ~(Checked(t) /\ ~SumGood(t, sum))
      <4>1. KeepTable(t)
        BY <3>1, <3>4
      <4>2. Admitted(t)
        BY <2>4, <3>2, <3>4, SumsPass
      <4>3. (NothingKept /\ Crowded(t)) \/ \E b \in VaPages : Keeps(t, b)
        BY <2>4, <3>2, <4>1, KeepEffect
      <4> QED BY <1>2, <3>1, <3>2, <4>2, <4>3
    <3> QED BY <3>3, <3>4
  <2> QED BY <2>1, <2>2, <2>3, <2>4 DEF QueryAcpiTables
<1> QED BY <1>1, <1>2

-----------------------------------------------------------------------------
(* The part of the invariant about what is mapped and kept.                *)
OtherPages == InfoAt \cup RsdpAt
Rightful(m) == m.table \in Known(m.table.sig) /\ Admitted(m.table)
TablesTypes ==
  /\ firmware \in DOMAIN Firmwares /\ vaMap \in WindowMaps /\ Room(cached, uncached)
  /\ rsdp \in VaPages \cup {NoTable} /\ cpuInfo \in VaPages \cup {NoTable}
TablesKept ==
  /\ TablesTypes
  /\ SameName(Held, cached) /\ \A m \in Held : Rightful(m)
  /\ Laid(vaMap, Held, OtherPages) /\ \A p \in InfoAt : p \notin RsdpAt
  /\ acpiState # "faulted" => NoMore(vaMap, Held, OtherPages)

LEMMA HeldIs == Held = HeldIn(cached, uncached) /\ Held' = HeldIn(cached', uncached')
BY DEF Held, HeldIn

LEMMA NothingMoved ==
  ASSUME TablesKept, UNCHANGED <<firmware, vaMap, rsdp, cached, uncached, cpuInfo>>,
         acpiState' = "faulted" \/ acpiState # "faulted"
  PROVE  TablesKept'
<1>1. /\ firmware' = firmware /\ vaMap' = vaMap /\ rsdp' = rsdp /\ cached' = cached
      /\ uncached' = uncached /\ cpuInfo' = cpuInfo
  OBVIOUS
<1>2. Held' = Held /\ InfoAt' = InfoAt /\ RsdpAt' = RsdpAt /\ OtherPages' = OtherPages
  BY <1>1 DEF Held, InfoAt, RsdpAt, OtherPages, InfoPages, CountProcessors, Enabled
<1>3. \A m : Rightful(m)' <=> Rightful(m)
  BY <1>1 DEF Rightful, Known, Provided, Listed, Pointed, Admitted, Checked, LongTable
<1>4. TablesTypes'
  BY <1>1 DEF TablesKept, TablesTypes
<1> QED BY <1>1, <1>2, <1>3, <1>4 DEF TablesKept

LEMMA KnownStays ==
  ASSUME firmware' = firmware
  PROVE  /\ \A m : Rightful(m)' <=> Rightful(m)
         /\ \A sig : Known(sig)' = Known(sig)
         /\ InfoPages' = InfoPages /\ StoreProcessors' = StoreProcessors
<1>1. \A sig : Known(sig)' = Known(sig)
  BY DEF Known, Provided, Listed, Pointed
<1>2. \A m : Rightful(m)' <=> Rightful(m)
  BY <1>1 DEF Rightful, Admitted, Checked, LongTable
<1>3. InfoPages' = InfoPages /\ StoreProcessors' = StoreProcessors
  BY DEF InfoPages, CountProcessors, Enabled, StoreProcessors
<1> QED BY <1>1, <1>2, <1>3

LEMMA TableKept ==
  ASSUME TablesKept, UNCHANGED <<firmware, rsdp, cpuInfo>>, acpiState # "faulted",
         NEW t \in TableRecord, t \in Known(t.sig), Admitted(t), Cached(t.sig) = {},
         NEW b \in VaPages, Keeps(t, b)
  PROVE  /\ TablesKept' /\ located' = b
         /\ [table |-> t, at |-> b] \in Held'
         /\ \A i \in DOMAIN cached : i \in DOMAIN cached' /\ cached'[i] = cached[i]
         /\ Len(cached) < MaxCached => \E i \in DOMAIN cached' : cached'[i].table.sig = t.sig
<1>1. /\ firmware' = firmware /\ rsdp' = rsdp /\ cpuInfo' = cpuInfo
      /\ IsRun(vaMap, b, PagesNeeded(t)) /\ CacheTable(t, b) /\ located' = b
      /\ vaMap' = MapPages(vaMap, b, PageOf(t), PagesNeeded(t))
  BY DEF Keeps
<1>2. /\ TablesTypes /\ Room(cached, uncached) /\ SameName(Held, cached) /\ Laid(vaMap, Held, OtherPages)
      /\ NoMore(vaMap, Held, OtherPages) /\ vaMap \in WindowMaps
      /\ (\A m \in Held : Rightful(m)) /\ \A p \in InfoAt : p \notin RsdpAt
  BY DEF TablesKept, TablesTypes
<1>3. PICK e : e = [table |-> t, at |-> b]
  OBVIOUS
<1>4. e.table = t /\ e.at = b
  BY <1>3
<1>5. /\ Room(cached', uncached') /\ Held' = Held \cup {e} /\ SameName(Held', cached')
      /\ \A i \in DOMAIN cached : i \in DOMAIN cached' /\ cached'[i] = cached[i]
      /\ Len(cached) < MaxCached => \E i \in DOMAIN cached' : cached'[i].table.sig = t.sig
  BY <1>1, <1>2, <1>3, HeldIs, CacheEffect
<1>6. PICK w : w = MapPages(vaMap, b, PageOf(t), PagesNeeded(t))
  OBVIOUS
<1>7. Laid(w, Held', OtherPages) /\ NoMore(w, Held', OtherPages)
  BY <1>1, <1>2, <1>4, <1>5, <1>6, TableMapped
<1>8. InfoAt' = InfoAt /\ RsdpAt' = RsdpAt /\ OtherPages' = OtherPages
  BY <1>1, KnownStays DEF InfoAt, RsdpAt, OtherPages
<1>9. w \in WindowMaps
  BY <1>1, <1>2, <1>6, PageMapped, PageNumbers
<1>10. TablesTypes'
  BY <1>1, <1>2, <1>5, <1>6, <1>9 DEF TablesTypes
<1>11. \A m \in Held' : Rightful(m)'
  <2>1. Rightful(e)
    BY <1>4 DEF Rightful
  <2>2. \A m \in Held' : Rightful(m)
    BY <1>2, <1>5, <2>1
  <2> QED BY <1>1, <2>2, KnownStays
<1>12. Laid(vaMap', Held', OtherPages') /\ NoMore(vaMap', Held', OtherPages')
  BY <1>1, <1>6, <1>7, <1>8
<1>13. \A p \in InfoAt' : p \notin RsdpAt'
  BY <1>2, <1>8
<1>14. TablesKept'
  BY <1>5, <1>10, <1>11, <1>12, <1>13 DEF TablesKept
<1> QED BY <1>1, <1>3, <1>5, <1>14

(* Pages that a step maps and no table has yet.                            *)
LEMMA PagesTaken ==
  ASSUME TablesKept, UNCHANGED <<firmware, cached, uncached>>, acpiState # "faulted",
         NEW b, NEW n \in Nat, NEW page \in Nat, IsRun(vaMap, b, n), vaMap' = MapPages(vaMap, b, page, n),
         rsdp' \in VaPages \cup {NoTable}, cpuInfo' \in VaPages \cup {NoTable},
         \/ acpiState' = "faulted" /\ UNCHANGED <<rsdp, cpuInfo>>
         \/ rsdp = NoTable /\ cpuInfo = NoTable /\ UNCHANGED cpuInfo /\ rsdp' = b /\ n = 1
         \/ cpuInfo = NoTable /\ UNCHANGED rsdp /\ cpuInfo' = b /\ n = InfoPages
  PROVE  TablesKept'
<1>1. firmware' = firmware /\ cached' = cached /\ uncached' = uncached
  OBVIOUS
<1>2. /\ TablesTypes /\ Room(cached, uncached) /\ SameName(Held, cached) /\ Laid(vaMap, Held, OtherPages)
      /\ NoMore(vaMap, Held, OtherPages) /\ vaMap \in WindowMaps
      /\ (\A m \in Held : Rightful(m)) /\ \A p \in InfoAt : p \notin RsdpAt
  BY DEF TablesKept, TablesTypes
<1>3. PICK w : w = MapPages(vaMap, b, page, n)
  OBVIOUS
<1>4. w \in WindowMaps
  BY <1>2, <1>3, PageMapped
<1>5. Held' = Held
  BY <1>1, HeldIs
<1>6. TablesTypes'
  BY <1>1, <1>2, <1>3, <1>4 DEF TablesTypes
<1>7. SameName(Held', cached') /\ \A m \in Held' : Rightful(m)'
  BY <1>1, <1>2, <1>5, KnownStays
<1>8. /\ Laid(w, Held, OtherPages) /\ \A p \in OtherPages : p \notin PagesFrom(b, n)
  BY <1>2, <1>3, MoreMapped
<1>9. CASE acpiState' = "faulted" /\ UNCHANGED <<rsdp, cpuInfo>>
  <2>1. InfoAt' = InfoAt /\ RsdpAt' = RsdpAt /\ OtherPages' = OtherPages
    BY <1>1, <1>9, KnownStays DEF InfoAt, RsdpAt, OtherPages
  <2>2. Laid(vaMap', Held', OtherPages')
    BY <1>3, <1>5, <1>8, <2>1
  <2> QED BY <1>2, <1>6, <1>7, <1>9, <2>1, <2>2 DEF TablesKept
<1>10. ASSUME \A p : p \in OtherPages' <=> p \in OtherPages \/ p \in PagesFrom(b, n),
              \A p \in InfoAt' : p \notin RsdpAt'
       PROVE  TablesKept'
  <2>1. PICK U : U = OtherPages'
    OBVIOUS
  <2>2. \A p : p \in U <=> p \in OtherPages \/ p \in PagesFrom(b, n)
    BY <1>10, <2>1
  <2>3. Laid(w, Held, U) /\ NoMore(w, Held, U)
    BY <1>2, <1>3, <2>2, OtherMapped
  <2>4. Laid(vaMap', Held', OtherPages') /\ NoMore(vaMap', Held', OtherPages')
    BY <1>3, <1>5, <2>1, <2>3
  <2> QED BY <1>6, <1>7, <1>10, <2>4 DEF TablesKept
<1>11. b # NoTable /\ b \in Nat
  BY AcpiAssumption DEF IsRun, NoTable
<1>12. CASE rsdp = NoTable /\ cpuInfo = NoTable /\ UNCHANGED cpuInfo /\ rsdp' = b /\ n = 1
  <2>1. InfoAt' = {} /\ InfoAt = {} /\ RsdpAt = {} /\ RsdpAt' = {b}
    BY <1>11, <1>12 DEF InfoAt, RsdpAt
  <2>2. \A p : p \in PagesFrom(b, n) <=> p = b
    BY <1>11, <1>12 DEF PagesFrom
  <2>3. \A p : p \in OtherPages' <=> p \in OtherPages \/ p \in PagesFrom(b, n)
    BY <2>1, <2>2 DEF OtherPages
  <2> QED BY <1>10, <2>1, <2>3
<1>13. CASE cpuInfo = NoTable /\ UNCHANGED rsdp /\ cpuInfo' = b /\ n = InfoPages
  <2>1. InfoAt' = PagesFrom(b, n) /\ InfoAt = {} /\ RsdpAt' = RsdpAt
    BY <1>1, <1>11, <1>13, KnownStays DEF InfoAt, RsdpAt, PagesFrom
  <2>2. \A p \in InfoAt' : p \notin RsdpAt'
    BY <1>8, <2>1 DEF OtherPages
  <2>3. \A p : p \in OtherPages' <=> p \in OtherPages \/ p \in PagesFrom(b, n)
    BY <2>1 DEF OtherPages
  <2> QED BY <1>10, <2>2, <2>3
<1> QED BY <1>9, <1>12, <1>13

-----------------------------------------------------------------------------
(* The part about the states of the start, and the invariant.              *)
Finds(sig) == \E i \in DOMAIN cached : cached[i].table.sig = sig
RootFound == Firmwares[firmware].root.sig \in RootSignatures /\ Finds(Firmwares[firmware].root.sig)

PhaseKept ==
  /\ acpiState \in {"off", "failed", "faulted", "rsdp", "starting", "ready", "asking", "counting",
                    "storing"}
  /\ acpiState \in {"off", "failed", "faulted", "rsdp", "ready"} => toFind = <<>>
  /\ acpiState \in {"off", "rsdp"} => cached = <<>> /\ uncached = {} /\ cpuInfo = NoTable
  /\ acpiState = "off" => rsdp = NoTable
  /\ acpiState \in {"starting", "ready", "asking", "counting", "storing"} => RootFound
  /\ acpiState \in {"ready", "asking", "counting", "storing"} => Finds("FADT")
  /\ acpiState = "starting" => \/ toFind = <<"FADT", "FADT">> /\ Len(cached) = 1
                               \/ toFind = <<"FADT">> /\ Finds("FADT")
  /\ acpiState = "asking" =>
       sought \in Signatures /\ (toFind = <<sought>> \/ toFind = <<"FADT", sought>>)
  /\ acpiState = "counting" =>
       sought = "MADT" /\ (toFind = <<"MADT">> \/ toFind = <<>>) /\ cpuInfo = NoTable
  /\ acpiState = "storing" => sought = "MADT" /\ toFind = <<"MADT">> /\ cpuInfo # NoTable

AcpiInv == TablesKept /\ PhaseKept /\ FaultReasoned /\ AnswerReasoned /\ IdentitiesKept

LEMMA ShortLists ==
  ASSUME NEW x, NEW y
  PROVE  /\ <<x>> # <<>> /\ Head(<<x>>) = x /\ Tail(<<x>>) = <<>> /\ Len(<<x>>) = 1
         /\ <<x, y>> # <<>> /\ Head(<<x, y>>) = x /\ Tail(<<x, y>>) = <<y>> /\ Len(<<x, y>>) = 2
OBVIOUS

(* What is left to find in each state, and what is found next.             *)
LEMMA NextToFind ==
  ASSUME PhaseKept, toFind # <<>>
  PROVE  LET sig == Head(toFind)
         IN  \/ acpiState = "starting" /\ sig = "FADT" /\ Len(toFind) = 2 /\ Tail(toFind) = <<"FADT">>
                  /\ Len(cached) = 1
             \/ acpiState = "starting" /\ sig = "FADT" /\ Len(toFind) = 1 /\ Tail(toFind) = <<>>
                  /\ Finds("FADT")
             \/ acpiState = "asking" /\ sig = sought /\ sought \in Signatures /\ Len(toFind) = 1
                  /\ Tail(toFind) = <<>> /\ Finds("FADT")
             \/ acpiState = "asking" /\ sig = "FADT" /\ sought \in Signatures /\ Len(toFind) = 2
                  /\ Tail(toFind) = <<sought>> /\ Finds("FADT")
             \/ acpiState = "counting" /\ sig = "MADT" /\ sought = "MADT" /\ Len(toFind) = 1
                  /\ Tail(toFind) = <<>> /\ Finds("FADT") /\ cpuInfo = NoTable
             \/ acpiState = "storing" /\ sig = "MADT" /\ sought = "MADT" /\ Len(toFind) = 1
                  /\ Tail(toFind) = <<>> /\ Finds("FADT") /\ cpuInfo # NoTable
<1>1. acpiState \in {"starting", "asking", "counting", "storing"}
  BY DEF PhaseKept
<1>2. CASE acpiState = "starting"
  <2>1. CASE toFind = <<"FADT", "FADT">> /\ Len(cached) = 1
    BY <1>2, <2>1, ShortLists
  <2>2. CASE toFind = <<"FADT">> /\ Finds("FADT")
    BY <1>2, <2>2, ShortLists
  <2> QED BY <1>2, <2>1, <2>2 DEF PhaseKept
<1>3. CASE acpiState = "asking"
  <2>1. sought \in Signatures /\ Finds("FADT")
    BY <1>3 DEF PhaseKept
  <2>2. CASE toFind = <<sought>>
    BY <1>3, <2>1, <2>2, ShortLists
  <2>3. CASE toFind = <<"FADT", sought>>
    BY <1>3, <2>1, <2>3, ShortLists
  <2> QED BY <1>3, <2>2, <2>3 DEF PhaseKept
<1>4. CASE acpiState = "counting"
  <2>1. sought = "MADT" /\ Finds("FADT") /\ toFind = <<"MADT">> /\ cpuInfo = NoTable
    BY <1>4 DEF PhaseKept
  <2> QED BY <1>4, <2>1, ShortLists
<1>5. CASE acpiState = "storing"
  <2>1. sought = "MADT" /\ Finds("FADT") /\ toFind = <<"MADT">> /\ cpuInfo # NoTable
    BY <1>5 DEF PhaseKept
  <2> QED BY <1>5, <2>1, ShortLists
<1> QED BY <1>1, <1>2, <1>3, <1>4, <1>5

(* The two outcomes of a query.                                            *)
Answered(sig) ==
  /\ \E m \in Held' : m.at = located' /\ m.table \in Known(sig) /\ Admitted(m.table)
  /\ \A s : Finds(s) => Finds(s)'
  /\ Len(cached) < MaxCached \/ Finds(sig) => Finds(sig)'
Unanswered(sig) ==
  /\ ~Finds(sig) /\ vaMap' = vaMap /\ cached' = cached
  /\ \A t \in Provided(sig) : Wrong(t) \/ Crowded(t)

LEMMA CachedFinds == \A sig : Cached(sig) = {} <=> ~Finds(sig)
BY DEF Cached, Finds

LEMMA QueryComes ==
  ASSUME AcpiInv, NEW sum \in BOOLEAN, Query(sum)
  PROVE  /\ TablesKept' /\ toFind # <<>> /\ UNCHANGED <<firmware, rsdp, cpuInfo>>
         /\ \/ located' # NoTable /\ Proceed /\ Answered(Head(toFind))
            \/ located' = NoTable /\ Lacking /\ Unanswered(Head(toFind))
<1>1. TablesKept /\ PhaseKept /\ TablesTypes /\ Room(cached, uncached) /\ vaMap \in WindowMaps
      /\ firmware \in DOMAIN Firmwares /\ \A m \in Held : Rightful(m)
  BY DEF AcpiInv, TablesKept, TablesTypes
<1>2. PICK sig : sig = Head(toFind)
  OBVIOUS
<1>3. /\ toFind # <<>> /\ GetAcpiTable(sig, sum) /\ UNCHANGED <<firmware, rsdp, cpuInfo>>
      /\ IF located' = NoTable THEN Lacking ELSE Proceed
  BY <1>2 DEF Query
<1>4. acpiState # "faulted"
  BY <1>1, <1>3 DEF PhaseKept
<1>5. NoTable \notin VaPages
  BY AcpiAssumption DEF NoTable
<1>6. CASE \E i : FoundAt(i, sig)
  <2>1. PICK i : FoundAt(i, sig)
    BY <1>6
  <2>2. i \in DOMAIN cached /\ cached[i].table.sig = sig /\ located' = cached[i].at
        /\ vaMap' = vaMap /\ cached' = cached /\ uncached' = uncached
    BY <2>1 DEF FoundAt
  <2>3. TablesKept'
    BY <1>1, <1>3, <1>4, <2>2, NothingMoved
  <2>4. PICK m : m = cached[i]
    OBVIOUS
  <2>5. m \in Held /\ m \in Held'
    BY <2>2, <2>4 DEF Held
  <2>6. m.at \in VaPages
    <3>1. m \in CacheRecord
      BY <1>1, <2>2, <2>4, ElementOfSeq, LenProperties DEF Room
    <3> QED BY <3>1 DEF CacheRecord
  <2>7. m.at = located' /\ m.table \in Known(sig) /\ Admitted(m.table)
    BY <1>1, <2>2, <2>4, <2>5 DEF Rightful
  <2>8. (\A s : Finds(s) => Finds(s)') /\ Finds(sig)'
    BY <2>2 DEF Finds
  <2>9. located' # NoTable
    BY <1>5, <2>6, <2>7
  <2>10. Answered(sig)
    BY <2>5, <2>7, <2>8 DEF Answered
  <2>11. Proceed
    BY <1>3, <2>9
  <2> QED BY <1>2, <1>3, <2>3, <2>9, <2>10, <2>11
<1>7. CASE /\ Cached(sig) = {} /\ NothingKept
           /\ \A t \in Provided(sig) : Wrong(t) \/ Crowded(t)
  <2>1. located' = NoTable /\ vaMap' = vaMap /\ cached' = cached /\ uncached' = uncached
    BY <1>7 DEF NothingKept
  <2>2. TablesKept'
    BY <1>1, <1>3, <1>4, <2>1, NothingMoved
  <2> QED BY <1>2, <1>3, <1>7, <2>1, <2>2, CachedFinds DEF Unanswered
<1>8. CASE /\ Cached(sig) = {}
           /\ \E t \in Provided(sig) : Admitted(t) /\ \E b \in VaPages : Keeps(t, b)
  <2>1. PICK t \in Provided(sig) : Admitted(t) /\ \E b \in VaPages : Keeps(t, b)
    BY <1>8
  <2>2. PICK b \in VaPages : Keeps(t, b)
    BY <2>1
  <2>3. t \in TableRecord /\ t.sig = sig /\ t \in Known(sig)
    BY <1>1, <2>1, ProvidedOne DEF Known
  <2>4. /\ TablesKept' /\ located' = b
        /\ [table |-> t, at |-> b] \in Held'
        /\ \A i \in DOMAIN cached : i \in DOMAIN cached' /\ cached'[i] = cached[i]
        /\ Len(cached) < MaxCached => \E i \in DOMAIN cached' : cached'[i].table.sig = t.sig
    BY <1>1, <1>3, <1>4, <1>8, <2>1, <2>2, <2>3, TableKept
  <2>5. \E m \in Held' : m.at = located' /\ m.table \in Known(sig) /\ Admitted(m.table)
    <3>1. PICK m : m = [table |-> t, at |-> b]
      OBVIOUS
    <3>2. m.table = t /\ m.at = b
      BY <3>1
    <3> QED BY <2>1, <2>3, <2>4, <3>1, <3>2
  <2>6. \A s : Finds(s) => Finds(s)'
    BY <2>4 DEF Finds
  <2>7. Len(cached) < MaxCached => Finds(sig)'
    BY <2>3, <2>4 DEF Finds
  <2>8. located' # NoTable
    BY <1>5, <2>4
  <2>9. Answered(sig)
    <3>1. ~Finds(sig)
      BY <1>8, CachedFinds
    <3> QED BY <2>5, <2>6, <2>7, <3>1 DEF Answered
  <2>10. Proceed
    BY <1>3, <2>8
  <2> QED BY <1>2, <1>3, <2>4, <2>8, <2>9, <2>10
<1> QED BY <1>1, <1>3, <1>6, <1>7, <1>8, QueryEffect

LEMMA QueryKeeps ==
  ASSUME AcpiInv, NEW sum \in BOOLEAN, Query(sum)
  PROVE  AcpiInv'
<1>1. /\ TablesKept' /\ toFind # <<>> /\ firmware' = firmware /\ rsdp' = rsdp /\ cpuInfo' = cpuInfo
      /\ \/ located' # NoTable /\ Proceed /\ Answered(Head(toFind))
         \/ located' = NoTable /\ Lacking /\ Unanswered(Head(toFind))
  BY QueryComes
<1>2. PICK sig : sig = Head(toFind)
  OBVIOUS
<1>3. TablesKept /\ PhaseKept /\ IdentitiesKept
  BY DEF AcpiInv
<1>4. PICK root : root = Firmwares[firmware].root.sig
  OBVIOUS
<1>5. firmware \in DOMAIN Firmwares /\ root \in RootSignatures /\ Finds(root) /\ acpiState # "faulted"
  BY <1>1, <1>3, <1>4 DEF TablesKept, TablesTypes, PhaseKept, RootFound
<1>6. CASE located' # NoTable /\ Proceed /\ Answered(sig)
  <2>1. /\ acpiState' = IF Len(toFind) = 1 /\ acpiState # "counting" THEN "ready" ELSE acpiState
        /\ toFind' = Tail(toFind)
        /\ sought' = IF acpiState = "starting" THEN "FADT" ELSE sought
        /\ identities' = IF acpiState = "storing" THEN StoreProcessors ELSE identities
    BY <1>6 DEF Proceed
  <2>2. RootFound'
    BY <1>1, <1>4, <1>5, <1>6 DEF Answered, RootFound
  <2>3. PhaseKept' /\ (acpiState' = "ready" => sought' = sig) /\ (acpiState = "storing" => cpuInfo # NoTable)
    <3>1. CASE acpiState = "starting" /\ sig = "FADT" /\ Len(toFind) = 2 /\ Tail(toFind) = <<"FADT">>
               /\ Len(cached) = 1
      <4>1. acpiState' = "starting" /\ toFind' = <<"FADT">>
        BY <2>1, <3>1
      <4>2. Len(cached) < MaxCached
        BY <3>1, AcpiAssumption
      <4>3. Finds("FADT")'
        BY <1>6, <3>1, <4>2 DEF Answered
      <4> QED BY <2>2, <3>1, <4>1, <4>3 DEF PhaseKept
    <3>2. ASSUME Finds("FADT"), Len(toFind) = 1, Tail(toFind) = <<>>, acpiState # "counting",
                 acpiState \in {"starting", "asking", "storing"}
          PROVE  PhaseKept' /\ acpiState' = "ready"
      <4>1. acpiState' = "ready" /\ toFind' = <<>> /\ Finds("FADT")'
        BY <1>6, <2>1, <3>2 DEF Answered
      <4> QED BY <2>2, <4>1 DEF PhaseKept
    <3>3. CASE acpiState = "starting" /\ sig = "FADT" /\ Len(toFind) = 1 /\ Tail(toFind) = <<>>
               /\ Finds("FADT")
      BY <2>1, <3>2, <3>3
    <3>4. CASE acpiState = "asking" /\ sig = sought /\ sought \in Signatures /\ Len(toFind) = 1
               /\ Tail(toFind) = <<>> /\ Finds("FADT")
      BY <2>1, <3>2, <3>4
    <3>5. CASE acpiState = "asking" /\ sig = "FADT" /\ sought \in Signatures /\ Len(toFind) = 2
               /\ Tail(toFind) = <<sought>> /\ Finds("FADT")
      <4>1. acpiState' = "asking" /\ sought' = sought /\ toFind' = <<sought>> /\ Finds("FADT")'
        BY <1>6, <2>1, <3>5 DEF Answered
      <4> QED BY <2>2, <3>5, <4>1 DEF PhaseKept
    <3>6. CASE acpiState = "counting" /\ sig = "MADT" /\ sought = "MADT" /\ Len(toFind) = 1
               /\ Tail(toFind) = <<>> /\ Finds("FADT") /\ cpuInfo = NoTable
      <4>1. acpiState' = "counting" /\ sought' = "MADT" /\ toFind' = <<>> /\ Finds("FADT")'
             /\ cpuInfo' = NoTable
        BY <1>1, <1>6, <2>1, <3>6 DEF Answered
      <4> QED BY <2>2, <3>6, <4>1 DEF PhaseKept
    <3>7. CASE acpiState = "storing" /\ sig = "MADT" /\ sought = "MADT" /\ Len(toFind) = 1
               /\ Tail(toFind) = <<>> /\ Finds("FADT") /\ cpuInfo # NoTable
      BY <2>1, <3>2, <3>7
    <3> QED BY <1>1, <1>2, <1>3, <3>1, <3>3, <3>4, <3>5, <3>6, <3>7, NextToFind
  <2>4. acpiState' # "faulted"
    BY <1>5, <2>1
  <2>5. AnswerReasoned'
    <3> SUFFICES ASSUME acpiState' = "ready" PROVE AnswerReasoned'
      BY DEF AnswerReasoned
    <3>1. PICK m \in Held' : m.at = located' /\ m.table \in Known(sig) /\ Admitted(m.table)
      BY <1>6 DEF Answered
    <3>2. sought' = sig /\ Known(sought)' = Known(sig)
      <4>1. sought' = sig
        BY <2>3
      <4> QED BY <1>1, <4>1 DEF Known, Provided, Listed, Pointed
    <3>3. \A t \in Known(sig) : t = m.table
      BY <1>4, <1>5, <3>1, KnownOne
    <3>4. \A t \in Known(sig) : Checked(t) => t.good \/ LongTable(t)
      BY <3>1, <3>3 DEF Admitted
    <3>5. \A t : Checked(t)' = Checked(t) /\ LongTable(t)' = LongTable(t)
      BY DEF Checked, LongTable
    <3> QED BY <1>6, <3>1, <3>2, <3>4, <3>5 DEF AnswerReasoned
  <2>6. IdentitiesKept'
    <3>1. StoreProcessors' = StoreProcessors
      BY <1>1, KnownStays
    <3> QED BY <1>1, <1>3, <2>1, <2>3, <3>1 DEF IdentitiesKept
  <2> QED BY <1>1, <2>3, <2>4, <2>5, <2>6 DEF AcpiInv, FaultReasoned
<1>7. CASE located' = NoTable /\ Lacking /\ Unanswered(sig)
  <2>1. /\ acpiState' = IF acpiState = "asking" THEN "ready" ELSE "failed"
        /\ toFind' = <<>> /\ sought' = sought /\ identities' = identities
    BY <1>7 DEF Lacking
  <2>2. /\ ~Finds(sig) /\ vaMap' = vaMap /\ cached' = cached
        /\ \A t \in Provided(sig) : Wrong(t) \/ Crowded(t)
    BY <1>7 DEF Unanswered
  <2>3. RootFound' /\ (Finds("FADT") => Finds("FADT")')
    BY <1>1, <1>4, <1>5, <2>2 DEF RootFound, Finds
  <2>4. acpiState = "asking" => Finds("FADT")
    BY <1>3 DEF PhaseKept
  <2>5. PhaseKept'
    <3>1. CASE acpiState = "asking"
      <4>1. acpiState' = "ready" /\ Finds("FADT")'
        BY <2>1, <2>3, <2>4, <3>1
      <4> QED BY <2>1, <2>3, <4>1 DEF PhaseKept
    <3>2. CASE acpiState # "asking"
      <4>1. acpiState' = "failed"
        BY <2>1, <3>2
      <4> QED BY <2>1, <4>1 DEF PhaseKept
    <3> QED BY <3>1, <3>2
  <2>6. AnswerReasoned'
    <3> SUFFICES ASSUME acpiState' = "ready" PROVE AnswerReasoned'
      BY DEF AnswerReasoned
    <3>1. acpiState = "asking"
      BY <2>1
    <3>2. sig = sought
      <4>1. Finds("FADT")
        BY <2>4, <3>1
      <4>2. sig # "FADT"
        BY <2>2, <4>1
      <4> QED BY <1>1, <1>2, <1>3, <3>1, <4>2, NextToFind
    <3>3. Known(sought)' = Provided(sig)
      <4>1. root # sought
        BY <1>5, <2>2, <3>2
      <4>2. Known(sought) = Provided(sought)
        BY <1>4, <4>1 DEF Known
      <4>3. Known(sought)' = Known(sought)
        BY <1>1, <2>1 DEF Known, Provided, Listed, Pointed
      <4> QED BY <3>2, <4>2, <4>3
    <3>4. \A t : /\ Checked(t)' = Checked(t) /\ LongTable(t)' = LongTable(t)
                 /\ Crowded(t)' = Crowded(t)
      BY <2>2 DEF Checked, LongTable, Crowded
    <3> QED BY <1>7, <2>2, <3>3, <3>4 DEF AnswerReasoned, Wrong
  <2>7. IdentitiesKept'
    <3>1. StoreProcessors' = StoreProcessors
      BY <1>1, KnownStays
    <3> QED BY <1>1, <1>3, <2>1, <3>1 DEF IdentitiesKept
  <2>8. acpiState' # "faulted"
    BY <2>1
  <2> QED BY <1>1, <2>5, <2>6, <2>7, <2>8 DEF AcpiInv, FaultReasoned
<1> QED BY <1>1, <1>2, <1>6, <1>7

LEMMA PageQuotient ==
  ASSUME NEW a \in Nat
  PROVE  a \div PageUnits \in Nat
<1>1. PICK m \in Nat \ {0} : m = PageUnits
  BY AcpiAssumption
<1>2. a \div m \in Nat
  BY WholeQuotient
<1> QED BY <1>1, <1>2

LEMMA RunFound ==
  ASSUME NEW n, FirstRun(vaMap, n) # NoTable
  PROVE  IsRun(vaMap, FirstRun(vaMap, n), n) /\ FirstRun(vaMap, n) \in VaPages
<1>1. IsRun(vaMap, FirstRun(vaMap, n), n)
  BY RunOf
<1> QED BY <1>1 DEF IsRun

LEMMA AcpiStart == AcpiInit => AcpiInv
<1> SUFFICES ASSUME AcpiInit PROVE AcpiInv
  OBVIOUS
<1>1. /\ firmware \in DOMAIN Firmwares
      /\ vaMap = [p \in VaPages |-> Unmapped] /\ rsdp = NoTable
      /\ cached = <<>> /\ uncached = {} /\ located = NoTable /\ sought = ""
      /\ acpiState = "off" /\ toFind = <<>> /\ cpuInfo = NoTable /\ identities = <<>>
  BY DEF AcpiInit
<1>2. DOMAIN cached = {} /\ Len(cached) = 0 /\ cached \in Seq(CacheRecord)
  <2>1. cached = <<>>
    BY <1>1
  <2>2. cached \in Seq(CacheRecord)
    BY <2>1, EmptySeq
  <2>3. DOMAIN cached = {} /\ Len(cached) = 0
    BY <2>1
  <2> QED BY <2>2, <2>3
<1>3. Held = {} /\ InfoAt = {} /\ RsdpAt = {} /\ OtherPages = {}
  BY <1>1, <1>2 DEF Held, InfoAt, RsdpAt, OtherPages
<1>4. TablesTypes
  <2>1. vaMap \in WindowMaps
    BY <1>1 DEF WindowMaps
  <2>2. Room(cached, uncached)
    <3>1. uncached = {} /\ MaxCached \in Nat
      BY <1>1, AcpiAssumption
    <3> QED BY <1>2, <3>1 DEF Room
  <2> QED BY <1>1, <2>1, <2>2 DEF TablesTypes
<1>5. Laid(vaMap, Held, OtherPages) /\ NoMore(vaMap, Held, OtherPages)
  BY <1>1, <1>3 DEF Laid, NoMore
<1>6. SameName(Held, cached)
  BY <1>3 DEF SameName
<1>7. TablesKept
  BY <1>3, <1>4, <1>5, <1>6 DEF TablesKept
<1>8. PhaseKept
  BY <1>1 DEF PhaseKept
<1> QED BY <1>1, <1>7, <1>8 DEF AcpiInv, FaultReasoned, AnswerReasoned, IdentitiesKept

LEMMA RsdpKeeps == AcpiInv /\ MapRsdp => AcpiInv'
<1> SUFFICES ASSUME AcpiInv, MapRsdp PROVE AcpiInv'
  OBVIOUS
<1>1. PICK a \in Nat : a = Firmwares[firmware].rsdp
  <2>1. firmware \in DOMAIN Firmwares
    BY DEF AcpiInv, TablesKept, TablesTypes
  <2> QED BY <2>1, FirmwareIs
<1>2. TablesKept /\ TablesTypes /\ PhaseKept /\ IdentitiesKept /\ acpiState = "off" /\ rsdp = NoTable
      /\ cpuInfo = NoTable /\ cached = <<>> /\ uncached = {} /\ toFind = <<>>
  BY DEF AcpiInv, TablesKept, PhaseKept, MapRsdp
<1>3. /\ firmware' = firmware /\ cached' = cached /\ uncached' = uncached /\ toFind' = toFind
      /\ cpuInfo' = cpuInfo /\ identities' = identities
  BY DEF MapRsdp
<1>4. IdentitiesKept'
  BY <1>2, <1>3 DEF IdentitiesKept
<1>5. CASE acpiState' = "failed" /\ UNCHANGED <<vaMap, rsdp>>
  <2>1. TablesKept'
    BY <1>2, <1>3, <1>5, NothingMoved
  <2>2. PhaseKept'
    BY <1>2, <1>3, <1>5 DEF PhaseKept
  <2> QED BY <1>4, <1>5, <2>1, <2>2 DEF AcpiInv, FaultReasoned, AnswerReasoned
<1>6. CASE /\ FirstRun(vaMap, 1) # NoTable /\ acpiState' = "rsdp" /\ rsdp' = FirstRun(vaMap, 1)
           /\ vaMap' = MapPages(vaMap, FirstRun(vaMap, 1), a \div PageUnits, 1)
  <2>1. PICK b \in VaPages : b = FirstRun(vaMap, 1) /\ IsRun(vaMap, b, 1)
    BY <1>6, RunFound
  <2>2. PICK q \in Nat : q = a \div PageUnits
    BY PageQuotient
  <2>3. vaMap' = MapPages(vaMap, b, q, 1) /\ rsdp' = b
    BY <1>6, <2>1, <2>2
  <2>4. TablesKept'
    BY <1>2, <1>3, <2>1, <2>3, PagesTaken
  <2>5. PhaseKept'
    BY <1>2, <1>3, <1>6 DEF PhaseKept
  <2> QED BY <1>4, <1>6, <2>4, <2>5 DEF AcpiInv, FaultReasoned, AnswerReasoned
<1> QED BY <1>1, <1>5, <1>6 DEF MapRsdp

LEMMA RootKeeps == AcpiInv /\ InitializeAcpi => AcpiInv'
<1> SUFFICES ASSUME AcpiInv, InitializeAcpi PROVE AcpiInv'
  OBVIOUS
<1>1. TablesKept /\ TablesTypes /\ PhaseKept /\ IdentitiesKept /\ acpiState = "rsdp"
      /\ cached = <<>> /\ uncached = {} /\ cpuInfo = NoTable /\ toFind = <<>>
      /\ vaMap \in WindowMaps /\ firmware \in DOMAIN Firmwares
  BY DEF AcpiInv, TablesKept, TablesTypes, PhaseKept, InitializeAcpi
<1>2. PICK root \in TableRecord : root = Firmwares[firmware].root
  BY <1>1, FirmwareIs
<1>3. /\ firmware' = firmware /\ rsdp' = rsdp /\ sought' = sought /\ cpuInfo' = cpuInfo
      /\ identities' = identities
      /\ IF FirstRun(vaMap, 2) = NoTable \/ ~root.good THEN NothingKept ELSE KeepTable(root)
      /\ IF located' = NoTable THEN acpiState' = "failed" /\ UNCHANGED toFind
         ELSE acpiState' = "starting" /\ toFind' = <<"FADT", "FADT">>
  BY <1>2 DEF InitializeAcpi
<1>4. IdentitiesKept'
  BY <1>1, <1>3 DEF IdentitiesKept
<1>5. CASE NothingKept
  <2>1. located' = NoTable /\ vaMap' = vaMap /\ cached' = cached /\ uncached' = uncached
    BY <1>5 DEF NothingKept
  <2>2. acpiState' = "failed" /\ toFind' = <<>>
    BY <1>1, <1>3, <2>1
  <2>3. TablesKept'
    BY <1>1, <1>3, <2>1, NothingMoved
  <2>4. PhaseKept'
    BY <2>2 DEF PhaseKept
  <2> QED BY <1>4, <2>2, <2>3, <2>4 DEF AcpiInv, FaultReasoned, AnswerReasoned
<1>6. CASE root.good /\ \E b \in VaPages : Keeps(root, b)
  <2>1. PICK b \in VaPages : Keeps(root, b)
    BY <1>6
  <2>2. DOMAIN cached = {} /\ Len(cached) = 0
    BY <1>1, EmptySeq
  <2>3. Cached(root.sig) = {} /\ Len(cached) < MaxCached
    BY <2>2, AcpiAssumption DEF Cached
  <2>4. root.sig \in RootSignatures
    BY <1>1, <1>2, <1>6, FirmwareIs
  <2>5. root \in Known(root.sig) /\ Admitted(root)
    BY <1>2, <1>6 DEF Known, Admitted
  <2>6. TablesKept' /\ located' = b /\ \E i \in DOMAIN cached' : cached'[i].table.sig = root.sig
    BY <1>1, <1>3, <2>1, <2>3, <2>5, TableKept
  <2>7. b # NoTable
    BY AcpiAssumption DEF NoTable
  <2>8. acpiState' = "starting" /\ toFind' = <<"FADT", "FADT">>
    BY <1>3, <2>6, <2>7
  <2>9. Len(cached') = 1
    <3>1. PICK e \in CacheRecord : e = [table |-> root, at |-> b]
      <4>1. [table |-> root, at |-> b] \in CacheRecord
        BY DEF CacheRecord
      <4> QED BY <4>1
    <3>2. cached' = Append(cached, e)
      BY <2>1, <2>3, <3>1 DEF Keeps, CacheTable
    <3>3. cached \in Seq(CacheRecord)
      BY <1>1, EmptySeq
    <3> QED BY <2>2, <3>2, <3>3, AppendProperties
  <2>10. RootFound'
    BY <1>2, <1>3, <2>4, <2>6 DEF RootFound, Finds
  <2>11. PhaseKept'
    BY <2>8, <2>9, <2>10 DEF PhaseKept
  <2> QED BY <1>4, <2>6, <2>8, <2>11 DEF AcpiInv, FaultReasoned, AnswerReasoned
<1>7. CASE FirstRun(vaMap, 2) # NoTable /\ root.good
  <2>1. KeepTable(root)
    BY <1>3, <1>7
  <2>2. NothingKept \/ \E b \in VaPages : Keeps(root, b)
    BY <1>1, <1>7, <2>1, KeepEffect
  <2> QED BY <1>5, <1>6, <1>7, <2>2
<1> QED BY <1>3, <1>5, <1>7

LEMMA AskKeeps ==
  ASSUME AcpiInv, InitializeAcpiSystemInformation \/ \E sig \in Signatures : AskTable(sig)
  PROVE  AcpiInv'
<1>1. TablesKept /\ PhaseKept /\ IdentitiesKept /\ acpiState = "ready" /\ RootFound /\ Finds("FADT")
  BY DEF AcpiInv, PhaseKept, AskTable, InitializeAcpiSystemInformation
<1>2. /\ firmware' = firmware /\ vaMap' = vaMap /\ rsdp' = rsdp /\ cached' = cached
      /\ uncached' = uncached /\ cpuInfo' = cpuInfo /\ identities' = identities
  BY DEF AskTable, InitializeAcpiSystemInformation
<1>3. TablesKept'
  BY <1>1, <1>2, NothingMoved
<1>4. IdentitiesKept'
  <2>1. StoreProcessors' = StoreProcessors
    BY <1>2, KnownStays
  <2> QED BY <1>1, <1>2, <2>1 DEF IdentitiesKept
<1>5. RootFound' /\ Finds("FADT")'
  BY <1>1, <1>2 DEF RootFound, Finds
<1>6. CASE InitializeAcpiSystemInformation
  <2>1. acpiState' = "counting" /\ sought' = "MADT" /\ toFind' = <<"MADT">> /\ cpuInfo' = NoTable
    BY <1>6 DEF InitializeAcpiSystemInformation
  <2>2. PhaseKept'
    BY <1>5, <2>1 DEF PhaseKept
  <2> QED BY <1>3, <1>4, <2>1, <2>2 DEF AcpiInv, FaultReasoned, AnswerReasoned
<1>7. CASE \E sig \in Signatures : AskTable(sig)
  <2>1. PICK sig \in Signatures : AskTable(sig)
    BY <1>7
  <2>2. /\ acpiState' = "asking" /\ sought' = sig
        /\ toFind' = <<"FADT", sig>> \/ toFind' = <<sig>>
    BY <2>1 DEF AskTable
  <2>3. PhaseKept'
    BY <1>5, <2>2 DEF PhaseKept
  <2> QED BY <1>3, <1>4, <2>2, <2>3 DEF AcpiInv, FaultReasoned, AnswerReasoned
<1> QED BY <1>6, <1>7

LEMMA StructureKeeps ==
  ASSUME AcpiInv, NEW memory \in BOOLEAN, InitializeAcpiSystemStructure(memory)
  PROVE  AcpiInv'
<1>1. TablesKept /\ TablesTypes /\ PhaseKept /\ IdentitiesKept /\ acpiState = "counting" /\ RootFound
      /\ Finds("FADT") /\ cpuInfo = NoTable /\ sought = "MADT" /\ toFind = <<>>
  BY DEF AcpiInv, TablesKept, PhaseKept, InitializeAcpiSystemStructure
<1>2. /\ firmware' = firmware /\ rsdp' = rsdp /\ cached' = cached /\ uncached' = uncached
      /\ sought' = sought /\ identities' = identities
  BY DEF InitializeAcpiSystemStructure
<1>3. RootFound' /\ Finds("FADT")'
  BY <1>1, <1>2 DEF RootFound, Finds
<1>4. identities' = <<>>
  BY <1>1, <1>2 DEF IdentitiesKept
<1>5. CASE acpiState' = "failed" /\ UNCHANGED <<vaMap, cpuInfo, toFind>>
  <2>1. TablesKept'
    BY <1>1, <1>2, <1>5, NothingMoved
  <2>2. PhaseKept'
    BY <1>1, <1>5 DEF PhaseKept
  <2> QED BY <1>4, <1>5, <2>1, <2>2 DEF AcpiInv, FaultReasoned, AnswerReasoned, IdentitiesKept
<1>6. CASE /\ FirstRun(vaMap, InfoPages) # NoTable /\ acpiState' = "storing"
           /\ cpuInfo' = FirstRun(vaMap, InfoPages) /\ toFind' = <<"MADT">>
           /\ vaMap' = MapPages(vaMap, FirstRun(vaMap, InfoPages), InfoPage, InfoPages)
  <2>1. PICK n \in Nat, page \in Nat : n = InfoPages /\ page = InfoPage
    BY <1>1, InfoPagesType, AcpiAssumption DEF TablesTypes
  <2>2. PICK b \in VaPages : b = FirstRun(vaMap, n) /\ IsRun(vaMap, b, n)
    BY <1>6, <2>1, RunFound
  <2>3. vaMap' = MapPages(vaMap, b, page, n) /\ cpuInfo' = b
    BY <1>6, <2>1, <2>2
  <2>4. rsdp' \in VaPages \cup {NoTable}
    BY <1>1, <1>2 DEF TablesTypes
  <2>5. TablesKept'
    BY <1>1, <1>2, <2>1, <2>2, <2>3, <2>4, PagesTaken
  <2>6. b # NoTable
    BY AcpiAssumption DEF NoTable
  <2>7. PhaseKept'
    BY <1>1, <1>2, <1>3, <1>6, <2>3, <2>6 DEF PhaseKept
  <2> QED BY <1>4, <1>6, <2>5, <2>7 DEF AcpiInv, FaultReasoned, AnswerReasoned, IdentitiesKept
<1> QED BY <1>5, <1>6 DEF InitializeAcpiSystemStructure

LEMMA FaultKeeps == AcpiInv /\ QueryFaults => AcpiInv'
<1> SUFFICES ASSUME AcpiInv, QueryFaults PROVE AcpiInv'
  OBVIOUS
<1>1. TablesKept /\ TablesTypes /\ PhaseKept /\ IdentitiesKept /\ toFind # <<>> /\ acpiState # "faulted"
      /\ firmware \in DOMAIN Firmwares /\ vaMap \in WindowMaps
  BY DEF AcpiInv, TablesKept, TablesTypes, PhaseKept, QueryFaults
<1>2. PICK sig : sig = Head(toFind)
  OBVIOUS
<1>3. PICK t \in Provided(sig) : Faults(t) /\ vaMap' = MapPages(vaMap, FirstRun(vaMap, 2), PageOf(t), 2)
  BY <1>2 DEF QueryFaults
<1>4. /\ firmware' = firmware /\ rsdp' = rsdp /\ cached' = cached /\ uncached' = uncached
      /\ cpuInfo' = cpuInfo /\ identities' = identities /\ acpiState' = "faulted" /\ toFind' = <<>>
  BY DEF QueryFaults
<1>5. t \in TableRecord
  BY <1>1, <1>3, ProvidedOne
<1>6. FirstRun(vaMap, 2) # NoTable /\ Checked(t) /\ LongTable(t)
  <2>1. FirstRun(vaMap, 2) # NoTable
    BY <1>3 DEF Faults
  <2>2. TRUE \in BOOLEAN
    OBVIOUS
  <2> QED BY <1>1, <1>3, <1>5, <2>1, <2>2, SumsPass
<1>7. PICK b \in VaPages : b = FirstRun(vaMap, 2) /\ IsRun(vaMap, b, 2)
  BY <1>6, RunFound
<1>8. PICK page \in Nat : page = PageOf(t)
  BY <1>5, PageNumbers
<1>9. vaMap' = MapPages(vaMap, b, page, 2)
  BY <1>3, <1>7, <1>8
<1>10. TablesKept'
  <2>1. rsdp' \in VaPages \cup {NoTable} /\ cpuInfo' \in VaPages \cup {NoTable}
    BY <1>1, <1>4 DEF TablesTypes
  <2> QED BY <1>1, <1>4, <1>7, <1>9, <2>1, PagesTaken
<1>11. PhaseKept'
  BY <1>4 DEF PhaseKept
<1>12. IdentitiesKept'
  <2>1. StoreProcessors' = StoreProcessors
    BY <1>4, KnownStays
  <2> QED BY <1>1, <1>4, <2>1 DEF IdentitiesKept
<1>13. FaultReasoned'
  <2>1. sig \in Signatures \cup {"FADT", "MADT"}
    BY <1>1, <1>2, NextToFind
  <2>2. Provided(sig)' = Provided(sig)
    BY <1>4 DEF Provided, Listed, Pointed
  <2>3. Checked(t)' = Checked(t) /\ LongTable(t)' = LongTable(t)
    BY DEF Checked, LongTable
  <2>4. t \in Provided(sig)' /\ Checked(t)' /\ LongTable(t)'
    BY <1>3, <1>6, <2>2, <2>3
  <2> QED BY <2>1, <2>4 DEF FaultReasoned
<1> QED BY <1>4, <1>10, <1>11, <1>12, <1>13 DEF AcpiInv, AnswerReasoned

LEMMA AcpiIdle == AcpiInv /\ UNCHANGED acpiVars => AcpiInv'
<1> SUFFICES ASSUME AcpiInv, UNCHANGED acpiVars PROVE AcpiInv'
  OBVIOUS
<1>1. /\ firmware' = firmware /\ vaMap' = vaMap /\ rsdp' = rsdp /\ cached' = cached
      /\ uncached' = uncached /\ located' = located /\ sought' = sought /\ acpiState' = acpiState
      /\ toFind' = toFind /\ cpuInfo' = cpuInfo /\ identities' = identities
  BY DEF acpiVars
<1>2. TablesKept /\ PhaseKept /\ FaultReasoned /\ AnswerReasoned /\ IdentitiesKept
  BY DEF AcpiInv
<1>3. TablesKept'
  <2>1. acpiState' = "faulted" \/ acpiState # "faulted"
    BY <1>1
  <2> QED BY <1>1, <1>2, <2>1, NothingMoved
<1>4. PhaseKept'
  BY <1>1, <1>2, Zenon DEF PhaseKept, RootFound, Finds
<1>5. \A sig : Known(sig)' = Known(sig) /\ Provided(sig)' = Provided(sig)
  BY <1>1 DEF Known, Provided, Listed, Pointed
<1>6. Held' = Held /\ StoreProcessors' = StoreProcessors
  BY <1>1, KnownStays DEF Held
<1>7. \A t : Checked(t)' = Checked(t) /\ LongTable(t)' = LongTable(t) /\ Crowded(t)' = Crowded(t)
  BY <1>1 DEF Checked, LongTable, Crowded
<1>8. FaultReasoned'
  BY <1>1, <1>2, <1>5, <1>7 DEF FaultReasoned
<1>9. AnswerReasoned'
  BY <1>1, <1>2, <1>5, <1>6, <1>7 DEF AnswerReasoned
<1>10. IdentitiesKept'
  BY <1>1, <1>2, <1>6 DEF IdentitiesKept
<1> QED BY <1>3, <1>4, <1>8, <1>9, <1>10 DEF AcpiInv

LEMMA AcpiStep == AcpiInv /\ AcpiNext => AcpiInv'
BY RsdpKeeps, RootKeeps, AskKeeps, StructureKeeps, FaultKeeps, QueryKeeps DEF AcpiNext

LEMMA AcpiInvSound == AcpiInv => AcpiSound
<1> SUFFICES ASSUME AcpiInv PROVE AcpiSound
  OBVIOUS
<1>1. /\ TablesTypes /\ Room(cached, uncached) /\ SameName(Held, cached) /\ Laid(vaMap, Held, OtherPages)
      /\ (acpiState # "faulted" => NoMore(vaMap, Held, OtherPages)) /\ \A p \in InfoAt : p \notin RsdpAt
      /\ FaultReasoned /\ AnswerReasoned /\ IdentitiesKept /\ firmware \in DOMAIN Firmwares
  BY DEF AcpiInv, TablesKept, TablesTypes
<1>2. \A m : PagesAt(m) = AreaOf(m)
  BY DEF PagesAt, AreaOf, PagesFrom
<1>3. \A m \in Held : \A p \in PagesAt(m) : vaMap[p] = PageOf(m.table) + (p - m.at)
  BY <1>1, <1>2 DEF Laid, InPlace
<1>4. \A m, o \in Held : m # o => PagesAt(m) \cap PagesAt(o) = {}
  BY <1>1, <1>2 DEF Laid, Apart
<1>5. \A m \in Held : PagesAt(m) \cap (InfoAt \cup RsdpAt) = {}
  BY <1>1, <1>2 DEF Laid, OtherPages
<1>6. InfoAt \cap RsdpAt = {}
  BY <1>1
<1>7. ASSUME acpiState # "faulted"
      PROVE  MappedPages = (UNION {PagesAt(m) : m \in Held}) \cup InfoAt \cup RsdpAt
  <2>1. \A p : p \in MappedPages <=> p \in VaPages /\ vaMap[p] # Unmapped
    BY DEF MappedPages
  <2>2. \A p \in MappedPages : p \in OtherPages \/ \E m \in Held : p \in PagesAt(m)
    BY <1>1, <1>2, <1>7, <2>1 DEF NoMore
  <2>3. \A p \in OtherPages : p \in MappedPages
    BY <1>1, <2>1 DEF Laid
  <2>4. \A m \in Held : \A p \in PagesAt(m) : p \in MappedPages
    BY <1>1, <1>2, <2>1 DEF Laid, InPlace
  <2>5. \A p : p \in UNION {PagesAt(m) : m \in Held} <=> \E m \in Held : p \in PagesAt(m)
    OBVIOUS
  <2>6. \A p : p \in (UNION {PagesAt(m) : m \in Held}) \cup InfoAt \cup RsdpAt <=>
               p \in OtherPages \/ \E m \in Held : p \in PagesAt(m)
    BY <2>5 DEF OtherPages
  <2> QED BY <2>2, <2>3, <2>4, <2>6
<1>8. uncached # {} => Len(cached) = MaxCached
  BY <1>1 DEF Room
<1>9. \A m \in Held : \A o \in DOMAIN cached : m.table.sig = cached[o].table.sig => m = cached[o]
  BY <1>1 DEF SameName
<1>10. TablesMapped
  BY <1>3, <1>4, <1>5, <1>6, <1>7, <1>8, <1>9 DEF TablesMapped
<1>11. ProcessorsStored
  BY <1>1, KeptIdentities
<1> QED BY <1>1, <1>10, <1>11 DEF AcpiSound, TablesFound

(* Whatever the firmware provides and whatever is asked of it: every table *)
(* kept is mapped whole and apart, and each answer has its reason.         *)
THEOREM AcpiKept == AcpiSpec => []AcpiSound
<1>1. AcpiInv /\ [AcpiNext]_acpiVars => AcpiInv'
  BY AcpiStep, AcpiIdle
<1> QED BY <1>1, AcpiStart, AcpiInvSound, PTL DEF AcpiSpec
=============================================================================
