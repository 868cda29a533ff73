-------------------------- MODULE MCBatchProgress --------------------------
(***************************************************************************)
(* BatchProgress on small instances. A batch of two files, a file and a    *)
(* fault, two batches of which one gets a file, two batches and a fault:   *)
(* together they reach every action and every race of two handlers over    *)
(* one session and one message.                                            *)
(***************************************************************************)
EXTENDS BatchProgress, FiniteSetsExt, TLC

CONSTANTS
    MaxLoad   \* bound: batches, files and faults together

Load ==
    LET started == {r \in Relay : batch[r] # "none"}
    IN  Cardinality(started) + MapThenSumSet(LAMBDA r : items[r], started) + faults

LoadBound == Load <= MaxLoad

MCSymmetry == Permutations(Handler) \cup Permutations(Relay)

=============================================================================
