----------------------------- MODULE FrameQueue -----------------------------
(***************************************************************************)
(* What the allocator of physical pages promises: free frames wait in one  *)
(* queue, first freed first served, except that a request prefers a frame  *)
(* of its colour, and the requests go round the colours in turn.           *)
(***************************************************************************)
EXTENDS Integers, Sequences, SequencesExt

CONSTANTS LastFrame, Colors

VARIABLES
  queue,      (* Free frames, oldest first.                                *)
  available,  (* The published number of them.                             *)
  turn        (* Colour of the last request.                               *)

vars == <<queue, available, turn>>

Color(f) == f % Colors

(* Position i of the queue q serves a request for colour c.                *)
Serves(q, i, c) ==
  \/ /\ Color(q[i]) = c
     /\ \A j \in 1 .. i - 1 : Color(q[j]) # c
  \/ /\ i = 1
     /\ \A j \in DOMAIN q : Color(q[j]) # c

Init == queue = <<>> /\ available = 0 /\ turn = 0

Put ==
  LET q == queue IN
  /\ \E f \in 1 .. LastFrame :
       /\ \A i \in DOMAIN q : q[i] # f
       /\ queue' = Append(q, f)
  /\ available' = available + 1
  /\ UNCHANGED turn

Take ==
  LET q == queue IN
  /\ turn' = (turn + 1) % Colors
  /\ \E i \in DOMAIN q :
       /\ Serves(q, i, turn')
       /\ queue' = RemoveAt(q, i)
  /\ available' = available - 1

(* A request that finds no frame still uses up its turn.                   *)
Refuse ==
  /\ queue = <<>>
  /\ turn' = (turn + 1) % Colors
  /\ UNCHANGED <<queue, available>>

Next == Put \/ Take \/ Refuse

Spec == Init /\ [][Next]_vars

=============================================================================
