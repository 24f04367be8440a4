---------------------------- MODULE MCSqlThread -----------------------------
(***************************************************************************)
(* Instances of SqlThread for TLC: the servers are chosen by the .cfg.     *)
(* Two producers race on a list and on the event; three jobs let one list  *)
(* be refilled while the thread handles what it took from it.              *)
(***************************************************************************)
EXTENDS SqlThread, TLC

CONSTANTS p1, p2, j1, j2, j3

MCProducer == {p1, p2}
MCJob == {j1, j2, j3}
MCSymmetry == Permutations(MCProducer) \cup Permutations(MCJob)
=============================================================================
