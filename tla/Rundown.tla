------------------------------ MODULE Rundown ------------------------------
(***************************************************************************)
(* Rundown protection, ex/rundown.cc: threads that use an object take a    *)
(* reference, and its owner marks the protection completed when the object *)
(* goes away, after which no reference can be taken until the protection   *)
(* is initialized again.                                                   *)
(*                                                                         *)
(* The descriptor is one word: twice the number of references, or, with    *)
(* its lowest bit set, "active".  WaitForProtectionRelease is not          *)
(* implemented in the code, so a wait block is never put in the word and   *)
(* the owner completes only once it knows that no reference is held.       *)
(***************************************************************************)
EXTENDS Integers, FiniteSets

CONSTANTS Users        \* the threads that use the object

ASSUME UsersAssumption == IsFiniteSet(Users)

VARIABLES word,        \* EX_RUNDOWN_REFERENCE
          user         \* [Users -> record]: what the thread does and last read

rundownVars == <<word, user>>

Active == 1            \* EX_RUNDOWN_ACTIVE
IsActive(w) == w % 2 = 1
Done == [at |-> "out", current |-> 0]
Holders == {u \in Users : user[u].at \in {"in", "releasing"}}

RundownInit ==
    /\ word = 0
    /\ user = [u \in Users |-> Done]

Move(u, at, value) == user' = [user EXCEPT ![u] = [at |-> at, current |-> value]]

(* AcquireProtection and ReleaseProtection read the word first,            *)
BeginAcquire(u) ==
    /\ user[u].at = "out"
    /\ Move(u, "acquiring", word)
    /\ UNCHANGED word

BeginRelease(u) ==
    /\ user[u].at = "in"
    /\ Move(u, "releasing", word)
    /\ UNCHANGED word

(* and then exchange it, if it has not changed; if it has, they go on with *)
(* the value found.                                                        *)
AcquireWithoutCompare(u) ==
    /\ user[u].at = "acquiring"
    /\ IF IsActive(user[u].current)
       THEN Move(u, "out", 0) /\ UNCHANGED word
       ELSE word' = user[u].current + 2 /\ Move(u, "in", 0)

AcquireProtection(u) ==
    /\ user[u].at = "acquiring"
    /\ IF IsActive(user[u].current)
       THEN Move(u, "out", 0) /\ UNCHANGED word
       ELSE IF word = user[u].current
            THEN /\ word' = word + 2
                 /\ Move(u, "in", 0)
            ELSE Move(u, "acquiring", word) /\ UNCHANGED word

ReleaseProtection(u) ==
    /\ user[u].at = "releasing"
    /\ ~IsActive(user[u].current)
    /\ IF word = user[u].current
       THEN /\ word' = word - 2
            /\ Move(u, "out", 0)
       ELSE Move(u, "releasing", word) /\ UNCHANGED word

(* The owner; it holds no reference itself and knows that nobody does.     *)
CompleteProtection ==
    /\ Holders = {}
    /\ word' = Active
    /\ UNCHANGED user

ReInitializeProtection ==
    /\ IsActive(word)
    /\ word' = 0
    /\ UNCHANGED user

RundownNext ==
    \/ \E u \in Users : \/ BeginAcquire(u) \/ AcquireProtection(u)
                        \/ BeginRelease(u) \/ ReleaseProtection(u)
    \/ CompleteProtection
    \/ ReInitializeProtection

RundownSpec == RundownInit /\ [][RundownNext]_rundownVars

----------------------------------------------------------------------------
(* The word counts the references: nobody holds one while the protection   *)
(* is completed, none is lost or counted twice when exchanges race, and a  *)
(* thread that saw the word before it was completed does not get in after. *)
ReferencesCounted ==
    /\ word = IF IsActive(word) THEN Active ELSE 2 * Cardinality(Holders)
    /\ IsActive(word) => Holders = {}

(* A releasing thread never takes the word for the address of a wait       *)
(* block: no such block exists.                                            *)
NoWaitBlock ==
    \A u \in Users : user[u].at = "releasing" => ~IsActive(user[u].current)

(* References are exact, and no stale word is followed as an address.      *)
RundownSound == ReferencesCounted /\ NoWaitBlock
=============================================================================
