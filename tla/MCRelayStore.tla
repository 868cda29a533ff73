---------------------------- MODULE MCRelayStore ----------------------------
(***************************************************************************)
(* RelayStore on a small instance.                                         *)
(***************************************************************************)
EXTENDS RelayStore, TLC

MCTime == 0 .. 1

MCSymmetry == Permutations(RelayId) \cup Permutations(Update)
              \cup Permutations(Code) \cup Permutations(Tx)

=============================================================================
