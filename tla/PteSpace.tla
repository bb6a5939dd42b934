------------------------------ MODULE PteSpace ------------------------------
(***************************************************************************)
(* What the system PTE allocator promises its callers: a pool of entries,  *)
(* of which a caller reserves consecutive ones and later gives them back.  *)
(* A reservation is the upper end of a best-fitting run of free entries,   *)
(* and the count of free entries is exact.                                 *)
(***************************************************************************)
EXTENDS Integers, FiniteSets

CONSTANTS PoolSize, Requests

VARIABLES
  free,       (* Entries that may be reserved.                             *)
  available,  (* The published count of them.                              *)
  reserved,   (* Blocks that callers hold.                                 *)
  leaving     (* Blocks given back that are not free yet.                  *)

vars == <<free, available, reserved, leaving>>

Ptes(b) == b.start .. b.start + b.size - 1
Block == [start : 0 .. PoolSize - 1, size : 1 .. PoolSize]

(* A run of free entries that no free entry extends.                       *)
IsRun(b) ==
  /\ Ptes(b) \subseteq free
  /\ b.start - 1 \notin free
  /\ b.start + b.size \notin free

BestFit(r, n) ==
  /\ IsRun(r)
  /\ r.size >= n
  /\ \A s \in Block : IsRun(s) /\ s.size >= n => r.size <= s.size

Init ==
  /\ free = 0 .. PoolSize - 1
  /\ available = PoolSize
  /\ reserved = {}
  /\ leaving = {}

Reserve(n) ==
  \E r \in Block :
    LET b == [start |-> r.start + r.size - n, size |-> n] IN
    /\ BestFit(r, n)
    /\ free' = free \ Ptes(b)
    /\ available' = available - n
    /\ reserved' = reserved \cup {b}
    /\ UNCHANGED leaving

GiveBack(b) ==
  /\ reserved' = reserved \ {b}
  /\ leaving' = leaving \cup {b}
  /\ UNCHANGED <<free, available>>

Free(b) ==
  /\ leaving' = leaving \ {b}
  /\ free' = free \cup Ptes(b)
  /\ available' = available + b.size
  /\ UNCHANGED reserved

Next ==
  \/ \E n \in Requests : Reserve(n)
  \/ \E b \in reserved : GiveBack(b)
  \/ \E b \in leaving : Free(b)

Spec == Init /\ [][Next]_vars

=============================================================================
