-------------------------- MODULE MCCharacterStore --------------------------
(***************************************************************************)
(* Instances of CharacterStore for TLC.                                    *)
(***************************************************************************)
EXTENDS CharacterStore, TLC

CONSTANTS c1, c2, i1, i2

MCChar == {c1, c2}
MCItem == {i1, i2}
MCStackable == {i2}

\* A trade or a divided stack with a failed transaction or a crash, or a slot that is
\* changed while it is read.
MCLimits == {[gifts |-> 1, faults |-> 1, torn |-> 0], [gifts |-> 0, faults |-> 0, torn |-> 1]}

MCNoFaults == {[gifts |-> 1, faults |-> 0, torn |-> 0]}

\* Bound: what is explored after a failed transaction, a crash, a divided stack or a
\* torn read.  A run goes on as long as every item has its row, at most one user waits
\* to be saved or is being saved, no stack is divided as well as a fault met, and no
\* request for a storage is waiting after a torn read.
Explored ==
    \/ faults = 0 /\ ~copied /\ torn = 0
    \/ /\ item = MCItem
       /\ users = <<>> \/ (Len(users) = 1 /\ save = Idle)
       /\ faults = 0 \/ ~copied
       /\ torn = 0 \/ \A c \in Char : requests[c] = 0

MCSymmetry == Permutations(MCChar)
=============================================================================
