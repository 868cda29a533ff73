--------------------------- MODULE MCClaimDelivery ---------------------------
(***************************************************************************)
(* ClaimDelivery on small instances.                                       *)
(***************************************************************************)
EXTENDS ClaimDelivery, TLC

(* Every instant a handler or the worker can pass to the store. *)
MCTime == -SessionTTL .. MaxClock + RelayTTL

(* All claims ask for one code, as when it is passed around, or one update *)
(* is delivered twice.                                                     *)
MCWanted == [q \in Request |-> CHOOSE c \in Code : TRUE]

MCSymmetry == Permutations(Update) \cup Permutations(Claimer) \cup Permutations(Request)

=============================================================================
