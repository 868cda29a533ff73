----------------------------- MODULE MCRelayBot -----------------------------
(***************************************************************************)
(* RelayBot on small instances.                                            *)
(***************************************************************************)
EXTENDS RelayBot, TLC

(* Every instant a handler or the worker can pass to the store. *)
MCTime == -SessionTTL .. MaxClock + RelayTTL

(* Every claim asks for the same code. *)
MCWanted == [q \in Request |-> CHOOSE c \in Code : TRUE]

=============================================================================
