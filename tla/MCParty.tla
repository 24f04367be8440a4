------------------------------- MODULE MCParty -------------------------------
(***************************************************************************)
(* Instances of Party for TLC.  Three users fill a party.  With five users *)
(* and one party, the full party refuses a member and the pool refuses a   *)
(* second party; with four users and two parties, parties exist side by    *)
(* side.  Users of one zone who may end in the same way are interchangeable.*)
(***************************************************************************)
EXTENDS Party, TLC

CONSTANTS u1, u2, u3, u4, u5, p1, p2, z1, z2

MCThree == {u1, u2, u3}
MCFour == {u1, u2, u3, u4}
MCFive == {u1, u2, u3, u4, u5}
MCOneParty == {p1}
MCTwoParties == {p1, p2}
MCOneZone == {z1}
MCTwoZones == {z1, z2}
MCTogether == [u \in User |-> z1]
MCApart == [u \in User |-> IF u = u1 THEN z1 ELSE z2]
MCNone == {}

SymUsers == Permutations(User) \cup Permutations(Party)
SymParties == Permutations(Party)
=============================================================================
