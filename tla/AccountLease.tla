---------------------------- MODULE AccountLease ----------------------------
(***************************************************************************)
(* What the three servers promise together about one account: a session    *)
(* is admitted only while no other session of the account is, a game       *)
(* server holds the character of an admitted session only, and a session   *)
(* is given up only when nobody holds its character any more.  So a        *)
(* character is never read from the database while another copy of it is   *)
(* still to be written.                                                    *)
(***************************************************************************)
EXTENDS Naturals

CONSTANTS
    Account,
    Session     \* the numbers sessions are given

VARIABLES
    lease,      \* lease[a]: the sessions of account a that are admitted
    holding     \* sessions whose character a game server has in memory

vars == <<lease, holding>>

Init ==
    /\ lease = [a \in Account |-> {}]
    /\ holding = {}

Admit(a, s) ==
    /\ lease[a] = {}
    /\ lease' = [lease EXCEPT ![a] = {s}]
    /\ UNCHANGED holding

Load(a, s) ==
    /\ lease[a] = {s}
    /\ s \notin holding
    /\ holding' = holding \cup {s}
    /\ UNCHANGED lease

Save(s) ==
    /\ s \in holding
    /\ holding' = holding \ {s}
    /\ UNCHANGED lease

Release(a) ==
    /\ lease[a] # {}
    /\ lease[a] \cap holding = {}
    /\ lease' = [lease EXCEPT ![a] = {}]
    /\ UNCHANGED holding

Next ==
    \/ \E a \in Account, s \in Session : Admit(a, s) \/ Load(a, s)
    \/ \E s \in Session : Save(s)
    \/ \E a \in Account : Release(a)

Spec == Init /\ [][Next]_vars
=============================================================================
