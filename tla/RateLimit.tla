----------------------------- MODULE RateLimit -----------------------------
(***************************************************************************)
(* The rate limiter (internal/cache/rediscache): a counter per user and    *)
(* kind of request in a Redis key that lives for one window. AllowUpload,  *)
(* AllowClaim and AllowBadCode run one script, which Redis executes as one *)
(* step; this module is one such key. Any number of handlers call it, and  *)
(* one of them may call it more than once: a file whose batch has ended    *)
(* asks again as a single relay, and the client repeats a script whose     *)
(* answer was lost.                                                        *)
(***************************************************************************)
EXTENDS Integers, Sequences, FiniteSets

CONSTANTS
    Limit,     \* UploadLimit, ClaimLimit or BadCodeLimit
    Window,    \* UploadWindow, ClaimWindow or BadCodeWindow, in clock ticks
    MaxClock,  \* bound: the clock stops here
    MaxCalls   \* bound: the calls of one behaviour

ASSUME LimitIsNat == Limit \in Nat
ASSUME WindowPositive == Window \in Nat \ {0}
ASSUME BoundsAreNat == MaxClock \in Nat /\ MaxCalls \in Nat

VARIABLES
    clock,     \* Redis's clock
    count,     \* the counter
    deadline,  \* when the key expires; from then on it does not exist
    log,       \* history: the calls so far
    lives      \* history: when each life of the key began

limitVars == <<clock, count, deadline, log, lives>>

Call == [at     : Nat,                            \* when it was made
         life   : Nat,                            \* in which life of the key
         answer : {"allowed", "refused", "lost"}]

LimitTypeOK ==
    /\ clock \in Nat
    /\ count \in Nat
    /\ deadline \in 0 .. clock + Window
    /\ log \in Seq(Call)
    /\ lives \in Seq(Nat)

-----------------------------------------------------------------------------
(* Fault: PEXPIRE after every INCR, which also renews the key. *)
RenewedDeadline(current) == clock + Window

(* PEXPIRE when this INCR has created the key. *)
Deadline(current) == IF current = 1 THEN clock + Window ELSE deadline

(* Fault: one call more than the limit allowed. *)
AnswerAbove(current) == IF current > Limit + 1 THEN "refused" ELSE "allowed"

Answer(current) == IF current > Limit THEN "refused" ELSE "allowed"

(* INCR of a key that does not exist counts from nothing. *)
Incremented == IF clock < deadline THEN count + 1 ELSE 1

(* The script runs; its answer arrives or is lost on the way. *)
Allow ==
    /\ Len(log) < MaxCalls
    /\ count' = Incremented
    /\ deadline' = Deadline(Incremented)
    /\ lives' = IF clock < deadline THEN lives ELSE Append(lives, clock)
    /\ \E answer \in {Answer(Incremented), "lost"} :
          log' = Append(log, [at |-> clock, life |-> Len(lives'), answer |-> answer])
    /\ UNCHANGED clock

Tick ==
    /\ clock < MaxClock
    /\ clock' = clock + 1
    /\ UNCHANGED <<count, deadline, log, lives>>

LimitInit ==
    /\ clock = 0
    /\ count = 0
    /\ deadline = 0
    /\ log = <<>>
    /\ lives = <<>>

LimitNext == Allow \/ Tick

LimitSpec == LimitInit /\ [][LimitNext]_limitVars

-----------------------------------------------------------------------------
(* Who is let through: the calls allowed from t until before t + Window. *)
AllowedFrom(t) ==
    {i \in DOMAIN log : log[i].answer = "allowed" /\ t <= log[i].at /\ log[i].at < t + Window}

(* The limit holds for a window of the key; windows of the user's choice   *)
(* may lie across two of them, so within any stretch of time as long as a  *)
(* window at most twice the limit gets through (rediscache.go:30).         *)
AtMostTwiceLimit == \A t \in 0 .. clock : Cardinality(AllowedFrom(t)) <= 2 * Limit

(* The calls before call i that are less than a window older. *)
CallsBefore(i) == {j \in 1 .. i - 1 : log[i].at - log[j].at < Window}

(* Nobody is refused who has not used up the limit within the window       *)
(* before: an old burst is never held against a user, and a user who goes  *)
(* on trying while refused does not renew the window by it                 *)
(* (rediscache.go:36).                                                     *)
RefusedOnlyOverLimit ==
    \A i \in DOMAIN log : log[i].answer = "refused" => Cardinality(CallsBefore(i)) >= Limit

=============================================================================
