-------------------------- MODULE InterlockedList --------------------------
(***************************************************************************)
(* The lock-free singly linked list of rtl/atomic.cc:                      *)
(* PushEntrySingleList, PopEntrySingleList and FlushSingleList, used by    *)
(* several processors at once.                                             *)
(*                                                                         *)
(* The header is one word, the address of the first entry.  A push links   *)
(* its entry to the first one read and exchanges the header if it still    *)
(* holds that; a pop reads the first entry and then its link, and          *)
(* exchanges the header, if it still holds the entry, for the link.        *)
(***************************************************************************)

CONSTANTS Pushers,     \* the processors that use the list
          Entries      \* the entries, each owned by a processor or in the list

VARIABLES head,        \* Header->Next
          next,        \* [Entries -> Entries \cup {NoEntry}], their links
          owner,       \* [Entries -> Pushers \cup {InList}]
          step,        \* [Pushers -> record], where each processor is
          stale        \* history: a pop has exchanged the header for a link
                       \* that the first entry no longer had

listVars == <<head, next, owner, step, stale>>

NoEntry == "null"
InList == "list"

ASSUME ListAssumption == NoEntry \notin Entries /\ InList \notin Pushers /\ Pushers # {}

Ready == [at |-> "ready", entry |-> NoEntry, first |-> NoEntry, link |-> NoEntry]

Advance(p, r) == step' = [step EXCEPT ![p] = r]

ListInit ==
    /\ head = NoEntry
    /\ next = [e \in Entries |-> NoEntry]
    /\ owner = [e \in Entries |-> CHOOSE p \in Pushers : TRUE]
    /\ step = [p \in Pushers |-> Ready]
    /\ stale = FALSE

BeginPush(p, e) ==
    /\ step[p].at = "ready" /\ owner[e] = p
    /\ Advance(p, [Ready EXCEPT !.at = "push", !.entry = e, !.first = head])
    /\ UNCHANGED <<head, next, owner, stale>>

(* The link of the entry pushed is the caller's to write until the header  *)
(* is exchanged, so writing it and exchanging are one step.                *)
PushEntrySingleList(p) ==
    /\ step[p].at = "push"
    /\ LET e == step[p].entry
       IN  /\ next' = [next EXCEPT ![e] = step[p].first]
           /\ IF head = step[p].first
              THEN /\ head' = e
                   /\ owner' = [owner EXCEPT ![e] = InList]
                   /\ Advance(p, Ready)
              ELSE /\ Advance(p, [step[p] EXCEPT !.first = head])
                   /\ UNCHANGED <<head, owner>>
    /\ UNCHANGED stale

BeginPop(p) ==
    /\ step[p].at = "ready"
    /\ head # NoEntry
    /\ Advance(p, [Ready EXCEPT !.at = "pop", !.first = head])
    /\ UNCHANGED <<head, next, owner, stale>>

(* The link is read from the entry, whoever owns it by now.                *)
ReadLink(p) ==
    /\ step[p].at = "pop"
    /\ Advance(p, [step[p] EXCEPT !.at = "popping", !.link = next[step[p].first]])
    /\ UNCHANGED <<head, next, owner, stale>>

PopWithoutCompare(p) ==
    /\ step[p].at = "popping"
    /\ head' = step[p].link
    /\ owner' = [owner EXCEPT ![step[p].first] = p]
    /\ Advance(p, Ready)
    /\ UNCHANGED <<next, stale>>

PopEntrySingleList(p) ==
    /\ step[p].at = "popping"
    /\ LET e == step[p].first
       IN  IF head = e
           THEN /\ head' = step[p].link
                /\ stale' = (stale \/ step[p].link # next[e])
                /\ owner' = [owner EXCEPT ![e] = p]
                /\ Advance(p, Ready)
           ELSE /\ Advance(p, IF head = NoEntry THEN Ready
                              ELSE [Ready EXCEPT !.at = "pop", !.first = head])
                /\ UNCHANGED <<head, owner, stale>>
    /\ UNCHANGED next

(* The entries that the links lead to from a pointer: those of every set   *)
(* that has it and that no link leaves.                                    *)
Closed(S) == \A f \in S \ {NoEntry} : next[f] \in S
Chain(e) == {f \in Entries : \A S \in SUBSET (Entries \cup {NoEntry}) :
                                 e \in S /\ Closed(S) => f \in S}

(* FlushSingleList takes the whole chain at once.                          *)
FlushSingleList(p) ==
    /\ step[p].at = "ready" /\ head # NoEntry
    /\ head' = NoEntry
    /\ owner' = [e \in Entries |-> IF e \in Chain(head) THEN p ELSE owner[e]]
    /\ UNCHANGED <<next, step, stale>>

(* Bound: nothing is followed past an exchange that was wrong, of which     *)
(* the property says nothing.                                              *)
ListNext ==
    ~stale /\ \E p \in Pushers :
        \/ \E e \in Entries : BeginPush(p, e)
        \/ PushEntrySingleList(p)
        \/ BeginPop(p) \/ ReadLink(p) \/ PopEntrySingleList(p)
        \/ FlushSingleList(p)

ListSpec == ListInit /\ [][ListNext]_listVars

----------------------------------------------------------------------------
(* Every entry is in the list once or owned by one processor, whatever     *)
(* pushes, pops and flushes overlap: no entry is lost and none is handed   *)
(* out twice.  This holds until a pop exchanges the header for a link the  *)
(* first entry had before it was taken out and pushed again, which the     *)
(* exchange, comparing the address alone, cannot notice.                   *)
EntriesAccounted ==
    ~stale =>
        /\ Chain(head) = {e \in Entries : owner[e] = InList}
        /\ \A e \in Chain(head) : e \notin Chain(next[e])
=============================================================================
