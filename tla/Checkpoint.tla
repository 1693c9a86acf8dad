----------------------------- MODULE Checkpoint -----------------------------
(***************************************************************************)
(* What the revision kept under KeyForWatchReversion is for, whoever       *)
(* writes it and whenever: items are produced one after the other, each of *)
(* them is dealt with at some time, and a mark, which may move in either   *)
(* direction or be lost, stands for a prefix that needs no replay.         *)
(* EtcdStorage implements this specification.                              *)
(***************************************************************************)
EXTENDS Naturals

VARIABLES
    produced,  \* items 1..produced exist
    done,      \* the items that no restart has to ask for
    mark       \* a restart begins after this one; 0 when there is none

vars == <<produced, done, mark>>

Init == produced = 0 /\ done = {} /\ mark = 0

Produce ==
    /\ produced' = produced + 1
    /\ UNCHANGED <<done, mark>>

\* Some produced items are dealt with; none is ever taken back.
Settle ==
    /\ UNCHANGED produced
    /\ done \subseteq done'
    /\ done' \subseteq done \cup 1..produced

\* The mark moves only to a prefix that has been dealt with.
Move ==
    /\ Settle
    /\ 1..mark' \subseteq done'

Next == Produce \/ (Settle /\ UNCHANGED mark) \/ Move

Spec == Init /\ [][Next]_vars
=============================================================================
