--------------------------- MODULE MCBatchUpload ---------------------------
(***************************************************************************)
(* BatchUpload on small instances.                                         *)
(***************************************************************************)
EXTENDS BatchUpload, TLC

(* Every instant a handler or the worker can pass to the store. *)
MCTime == -SessionTTL .. MaxClock + RelayTTL

MCSymmetry == Permutations(RelayId) \cup Permutations(Update)
              \cup Permutations(Code) \cup Permutations(Tx)

=============================================================================
