---------------------------- MODULE PageDelivery ----------------------------
(***************************************************************************)
(* What a claim relies on when it delivers a page: the files come in order *)
(* up to some point, `sent' means all of them did, and anything else means *)
(* nothing. ClaimDelivery takes this step as one action, SendPage.         *)
(***************************************************************************)
EXTENDS Naturals

CONSTANT PageSize  \* bound: the items of a page

VARIABLES
    size,      \* the files of the page
    received,  \* how many of them are in the claimer's chat
    result     \* what the sender has reported

abstractVars == <<size, received, result>>

AbstractInit ==
    /\ size \in 1 .. PageSize
    /\ received = 0
    /\ result = "none"

ReportSent ==
    /\ result = "none"
    /\ received' = size
    /\ result' = "sent"
    /\ UNCHANGED size

ReportError ==
    /\ result = "none"
    /\ received' \in 0 .. size
    /\ result' \in {"failed", "unknown", "stopped"}
    /\ UNCHANGED size

(* A request given up may be served after the report. *)
ArrivesAfterwards ==
    /\ result \in {"failed", "unknown", "stopped"}
    /\ received' \in received .. size
    /\ UNCHANGED <<size, result>>

AbstractNext == ReportSent \/ ReportError \/ ArrivesAfterwards

AbstractSpec == AbstractInit /\ [][AbstractNext]_abstractVars

=============================================================================
