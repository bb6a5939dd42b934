----------------------------- MODULE LinkedLists -----------------------------
(***************************************************************************)
(* The lists of rtl/llist.cc and rtl/slist.cc: circular doubly linked ones *)
(* whose head is an entry like any other, and singly linked ones whose     *)
(* head counts its entries.  The memory is the links of the entries and    *)
(* heads; against it stand the sequences the calls should have made.       *)
(***************************************************************************)
EXTENDS Integers, SequencesExt

CONSTANTS Nodes,        \* the entries
          Heads         \* the list heads

VARIABLES double,       \* which of the two libraries the lists belong to
          flink,        \* [Nodes \cup Heads -> Nodes \cup Heads \cup {Nil}],
                        \* Flink, or Next in a singly linked list
          blink,        \* Blink, meaningless in a singly linked list
          depth,        \* [Heads -> Int], Depth of a singly linked list
          zeroed,      \* Depth was zero when the heads were initialised
          listed        \* [Heads -> Seq(Nodes)], what the lists should hold

linkVars == <<double, flink, blink, depth, zeroed, listed>>

Nil == "nil"
Cells == Nodes \cup Heads
Unlisted(e) == \A h \in Heads : ~Contains(listed[h], e)

(* InitializeListHead makes a head point to itself.  That of a singly      *)
(* linked list clears the first eight bytes of the head, which are Next:   *)
(* Depth, behind them, keeps what the memory held.                         *)
LinkInit ==
    /\ double \in BOOLEAN
    /\ flink = [c \in Cells |-> IF double /\ c \in Heads THEN c ELSE Nil]
    /\ blink = flink
    /\ zeroed \in IF double THEN {TRUE} ELSE BOOLEAN
    /\ depth = [h \in Heads |-> IF zeroed THEN 0 ELSE 5]
    /\ listed = [h \in Heads |-> <<>>]

----------------------------------------------------------------------------
(* Doubly linked lists: the assignments of a call, in their order, each to *)
(* the links the ones before it left.  A link is a triple of cell, field   *)
(* and new value.                                                          *)
Linked(e, f, b) ==
    /\ flink' = [flink EXCEPT ![e] = f, ![b] = e]
    /\ blink' = [blink EXCEPT ![e] = b, ![f] = e]

DoubleInsertHead(h, e) == Linked(e, flink[h], h)
DoubleInsertTail(h, e) == Linked(e, h, blink[h])

DoubleRemove(e) ==
    /\ blink' = [blink EXCEPT ![flink[e]] = blink[e]]
    /\ flink' = [flink EXCEPT ![blink[e]] = flink[e]]

SpliceUnreset(b, s) ==
    IF flink[s] = s THEN UNCHANGED <<flink, blink>>
    ELSE /\ flink' = [flink EXCEPT ![blink[s]] = flink[b], ![b] = flink[s]]
         /\ blink' = [blink EXCEPT ![flink[s]] = b, ![flink[b]] = blink[s]]

(* A splice links the first and last entries of s behind the cell b and    *)
(* before the cell that follows it, and empties s; an empty s is left.     *)
SpliceBehind(b, s) ==
    IF flink[s] = s THEN UNCHANGED <<flink, blink>>
    ELSE LET first == flink[s]
             last  == blink[s]
             f     == flink[b]
         IN  /\ flink' = [flink EXCEPT ![last] = f, ![b] = first, ![s] = s]
             /\ blink' = [blink EXCEPT ![first] = b, ![f] = last, ![s] = s]

----------------------------------------------------------------------------
(* Singly linked lists: the walk to the last entry, or to the entry before *)
(* a given one, starts at the head, whose Next is its first entry.         *)
Walk(h) ==
    LET reached[n \in 0..Cardinality(Nodes)] ==
            IF n = 0 THEN <<h>>
            ELSE LET c == reached[n - 1]
                 IN  IF flink[Last(c)] = Nil THEN c ELSE Append(c, flink[Last(c)])
    IN  reached[Cardinality(Nodes)]

LastCell(h) == Last(Walk(h))

SingleInsertHead(h, e) ==
    /\ flink' = [flink EXCEPT ![e] = flink[h], ![h] = e]
    /\ depth' = [depth EXCEPT ![h] = @ + 1]

SingleInsertTail(h, e) ==
    /\ flink' = [flink EXCEPT ![e] = Nil, ![LastCell(h)] = e]
    /\ depth' = [depth EXCEPT ![h] = @ + 1]

(* RemoveEntryList leaves a list the entry is not in as it was.            *)
SingleRemove(h, e) ==
    LET before == {c \in ToSet(Walk(h)) : flink[c] = e}
    IN  IF before = {} THEN UNCHANGED <<flink, depth>>
        ELSE /\ flink' = [c \in Cells |-> IF c \in before THEN flink[e] ELSE flink[c]]
             /\ depth' = [depth EXCEPT ![h] = @ - 1]

SingleTakeFirst(h) ==
    IF flink[h] = Nil THEN UNCHANGED <<flink, depth>>
    ELSE /\ flink' = [flink EXCEPT ![h] = flink[flink[h]]]
         /\ depth' = [depth EXCEPT ![h] = @ - 1]

Depths(h, s) == depth' = [depth EXCEPT ![h] = @ + depth[s], ![s] = 0]

(* SpliceHeadList leaves an empty s alone; SpliceTailList does not look.   *)
SingleSpliceHead(h, s) ==
    IF flink[s] = Nil THEN UNCHANGED <<flink, depth>>
    ELSE /\ flink' = [flink EXCEPT ![LastCell(s)] = flink[h], ![h] = flink[s], ![s] = Nil]
         /\ Depths(h, s)

SingleSpliceTail(h, s) ==
    /\ flink' = [flink EXCEPT ![LastCell(h)] = flink[s], ![s] = Nil]
    /\ Depths(h, s)

----------------------------------------------------------------------------
DoubleStep(A) == double /\ A /\ UNCHANGED depth
SingleStep(A) == ~double /\ A /\ UNCHANGED blink

Lists(h, entries) == listed' = [listed EXCEPT ![h] = entries]

InsertHeadList(h, e) ==
    /\ Unlisted(e)
    /\ \/ DoubleStep(DoubleInsertHead(h, e))
       \/ SingleStep(SingleInsertHead(h, e))
    /\ Lists(h, <<e>> \o listed[h])

InsertTailList(h, e) ==
    /\ Unlisted(e)
    /\ \/ DoubleStep(DoubleInsertTail(h, e))
       \/ SingleStep(SingleInsertTail(h, e))
    /\ Lists(h, Append(listed[h], e))

(* A doubly linked entry is removed from the list it is in; a singly       *)
(* linked one may be asked of any list.                                    *)
RemoveEntryList(h, e) ==
    /\ \/ DoubleStep(Contains(listed[h], e) /\ DoubleRemove(e))
       \/ SingleStep(SingleRemove(h, e))
    /\ Lists(h, SelectSeq(listed[h], LAMBDA c : c # e))

TakeFirstEntry(h) ==
    /\ SingleStep(SingleTakeFirst(h))
    /\ Lists(h, IF listed[h] = <<>> THEN <<>> ELSE Tail(listed[h]))

Splices(h, s, entries) == listed' = [listed EXCEPT ![h] = entries, ![s] = <<>>]

SpliceHeadList(h, s) ==
    /\ \/ DoubleStep(SpliceBehind(h, s))
       \/ SingleStep(SingleSpliceHead(h, s))
    /\ Splices(h, s, listed[s] \o listed[h])

SpliceTailList(h, s) ==
    /\ \/ DoubleStep(SpliceBehind(blink[h], s))
       \/ SingleStep(SingleSpliceTail(h, s))
    /\ Splices(h, s, listed[h] \o listed[s])

LinkNext ==
    /\ \E h \in Heads :
        \/ \E e \in Nodes :
            InsertHeadList(h, e) \/ InsertTailList(h, e) \/ RemoveEntryList(h, e)
        \/ TakeFirstEntry(h)
        \/ \E s \in Heads \ {h} : SpliceHeadList(h, s) \/ SpliceTailList(h, s)
    /\ UNCHANGED <<double, zeroed>>

----------------------------------------------------------------------------
(* Each list holds the entries that the calls put into it, in their order, *)
(* read forwards and, when doubly linked, read backwards, its ring closed  *)
(* at the head; a singly linked list counts its entries, if its count      *)
(* started at zero.                                                        *)
ListsExact ==
    \A h \in Heads :
        LET ring == <<h>> \o listed[h] \o <<IF double THEN h ELSE Nil>>
        IN  /\ \A i \in 1 .. Len(ring) - 1 :
                /\ flink[ring[i]] = ring[i + 1]
                /\ double => blink[ring[i + 1]] = ring[i]
            /\ zeroed /\ ~double => depth[h] = Len(listed[h])
=============================================================================
