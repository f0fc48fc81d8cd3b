------------------------------ MODULE WriteLog ------------------------------
(***************************************************************************)
(* What a bounded background queue promises to the code that submits to    *)
(* it, whatever thread, batch or timer it uses: an item is taken or        *)
(* dropped when it is submitted, the items taken reach the durable store   *)
(* once each, in the order they were submitted, and nothing else reaches   *)
(* it.  StorageWriter and Recorder are shown to implement it.              *)
(***************************************************************************)
EXTENDS Naturals, Sequences

CONSTANT Item

VARIABLES
    accepted,   \* the items taken, in the order they were submitted
    stored,     \* the items that reached the store
    dropped     \* how many were refused because the queue was full

vars == <<accepted, stored, dropped>>

TypeOK ==
    /\ accepted \in Seq(Item)
    /\ stored \in Seq(Item)
    /\ dropped \in Nat

Init ==
    /\ accepted = <<>>
    /\ stored = <<>>
    /\ dropped = 0

Accept ==
    /\ \E i \in Item : accepted' = Append(accepted, i)
    /\ UNCHANGED <<stored, dropped>>

Drop ==
    /\ dropped' = dropped + 1
    /\ UNCHANGED <<accepted, stored>>

\* One step of the store may take in several items (a batch).
Store ==
    /\ \E n \in (Len(stored) + 1)..Len(accepted) :
           stored' = SubSeq(accepted, 1, n)
    /\ UNCHANGED <<accepted, dropped>>

Next == Accept \/ Drop \/ Store

Spec == Init /\ [][Next]_vars
=============================================================================
