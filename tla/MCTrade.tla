------------------------------- MODULE MCTrade -------------------------------
(***************************************************************************)
(* Instances of Trade for TLC.                                             *)
(***************************************************************************)
EXTENDS Trade, TLC

CONSTANTS u1, u2, i1, i2

MCUser == {u1, u2}
MCItem == {i1, i2}

\* One exchange whose offers change while users may be cut off, one while items come
\* and go, two exchanges, and one in which a user who is ready says so once more.
MCLimits ==
    {[ask |-> 1, change |-> 2, again |-> 0, done |-> 2, move |-> 0, quit |-> 1],
     [ask |-> 1, change |-> 1, again |-> 0, done |-> 2, move |-> 1, quit |-> 0],
     [ask |-> 2, change |-> 1, again |-> 0, done |-> 2, move |-> 0, quit |-> 0],
     [ask |-> 1, change |-> 2, again |-> 1, done |-> 2, move |-> 0, quit |-> 0]}

MCSymmetry == Permutations(MCUser) \cup Permutations(MCItem)
=============================================================================
