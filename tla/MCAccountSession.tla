-------------------------- MODULE MCAccountSession --------------------------
(***************************************************************************)
(* Instances of AccountSession for TLC.  The bounds of a run are in its    *)
(* .cfg; what competes in these runs are sessions of the same account, so  *)
(* one account and one world suffice except where worlds race.             *)
(***************************************************************************)
EXTENDS AccountSession

CONSTANTS a1, w1, w2

MCAccount == {a1}
MCOneWorld == {w1}
MCTwoWorlds == {w1, w2}
=============================================================================
