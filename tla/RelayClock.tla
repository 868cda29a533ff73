----------------------------- MODULE RelayClock -----------------------------
(***************************************************************************)
(* What uploads and claims share beside the tables: the time, and the      *)
(* lifetimes it is compared with.                                          *)
(***************************************************************************)
EXTENDS RelayStore

CONSTANTS
    RelayTTL,    \* limits.DefaultTTL, in clock ticks
    SessionTTL,  \* limits.BatchSessionTTL
    MaxClock     \* bound: the clock stops here

ASSUME LifetimesPositive ==
    /\ RelayTTL \in Nat \ {0}
    /\ SessionTTL \in Nat \ {0}
    /\ MaxClock \in Nat
(* The instants handlers and the worker pass to the store. *)
ASSUME TimesCovered == -SessionTTL .. MaxClock + RelayTTL \subseteq Time

VARIABLE
    clock  \* the time every process reads

=============================================================================
