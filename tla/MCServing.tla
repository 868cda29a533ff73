----------------------------- MODULE MCServing -----------------------------
(***************************************************************************)
(* The parts a claim passes on its way that share no state: the codes of a *)
(* message (ClaimMessages), the rate limit (RateLimit), the cutting of a   *)
(* relay's files into pages (Paging), the sending of one page (PageSender) *)
(* and the buttons that lead from page to page (PageNavigator).            *)
(*                                                                         *)
(* One of them is active in a behaviour and the others rest in an initial  *)
(* state, so that their states add up instead of multiplying.              *)
(***************************************************************************)
EXTENDS PageSender, RateLimit, TLC

CONSTANTS
    Handler,
    MaxFaults,
    Group, NoGroup, RunSize, MaxItems,                          \* Paging
    PagedMessage, NoMessage, PageTotal, ExpiresAt,              \* PageNavigator
    FirstUpdate, LastUpdate, SequenceBits, Letters, MaxCodes    \* ClaimMessages

VARIABLES
    active,
    items, index, seen, pages, paged,
    status, now, shown, pressed, presser, arrived, navigatorFaults,
    sent, claimer, deliveries, failed, finished, claimFaults

(* The codes a and A differ in case only; no relay has the code b. *)
MCMatch ==
    {[prefix |-> "relaybot_", body |-> [letters |-> "a", upper |-> FALSE]],
     [prefix |-> "RelayBot_", body |-> [letters |-> "a", upper |-> FALSE]],
     [prefix |-> "relaybot_", body |-> [letters |-> "a", upper |-> TRUE]],
     [prefix |-> "relaybot_", body |-> [letters |-> "b", upper |-> FALSE]]}

MCKnown == {[letters |-> "a", upper |-> FALSE], [letters |-> "a", upper |-> TRUE]}

Pager == INSTANCE Paging WITH PageSize <- RunSize, outcome <- paged

Navigator == INSTANCE PageNavigator WITH
    Message <- PagedMessage, MaxClock <- ExpiresAt, clock <- now, handler <- presser,
    faults <- navigatorFaults

Messages == INSTANCE ClaimMessages WITH
    Match <- MCMatch, Known <- MCKnown, handler <- claimer, faults <- claimFaults

ASSUME ServingAssumption ==
    /\ Pager!PagingAssumption
    /\ Navigator!NavigatorAssumption
    /\ Messages!NumberingAssumption /\ Messages!CodesAssumption

pagerVars == <<items, index, seen, pages, paged>>
navigatorVars == <<status, now, shown, pressed, presser, arrived, navigatorFaults>>
messageVars == <<sent, claimer, deliveries, failed, finished, claimFaults>>

servingVars == <<active, vars, limitVars, pagerVars, navigatorVars, messageVars>>

(* Where the parts with many initial states rest: one file to send, none   *)
(* to cut into pages.                                                      *)
SenderRests ==
    page = <<"document">> /\ next = 1 /\ chat = <<>> /\ pending = FALSE /\ outcome = "sending"

PagerRests == items = <<>> /\ index = 1 /\ seen = {} /\ pages = <<>> /\ paged = "running"

ServingInit ==
    /\ active \in {"messages", "limiter", "pager", "sender", "navigator"}
    /\ Messages!Init
    /\ LimitInit
    /\ IF active = "pager" THEN Pager!Init ELSE PagerRests
    /\ IF active = "sender" THEN Init ELSE SenderRests
    /\ Navigator!Init

MessagesOnly ==
    active = "messages" /\ UNCHANGED <<active, limitVars, pagerVars, vars, navigatorVars>>
LimiterOnly ==
    active = "limiter" /\ UNCHANGED <<active, messageVars, pagerVars, vars, navigatorVars>>
PagerOnly ==
    active = "pager" /\ UNCHANGED <<active, messageVars, limitVars, vars, navigatorVars>>
SenderOnly ==
    active = "sender" /\ UNCHANGED <<active, messageVars, limitVars, pagerVars, navigatorVars>>
NavigatorOnly ==
    active = "navigator" /\ UNCHANGED <<active, messageVars, limitVars, pagerVars, vars>>

MessagesNext ==
    \/ MessagesOnly /\ Messages!Send
    \/ \E h \in Handler :
          \/ MessagesOnly /\ Messages!Receive(h)
          \/ MessagesOnly /\ Messages!Claim(h)
          \/ MessagesOnly /\ Messages!ClaimUnknown(h)
          \/ MessagesOnly /\ Messages!ClaimFails(h)
    \/ MessagesOnly /\ Messages!Crash

LimiterNext == (LimiterOnly /\ Allow) \/ (LimiterOnly /\ Tick)

PagerNext ==
    \/ PagerOnly /\ Pager!Round
    \/ PagerOnly /\ Pager!ReturnFragmented
    \/ PagerOnly /\ Pager!ReturnPages

SenderNext ==
    (SenderOnly /\ Answered) \/ (SenderOnly /\ Fails) \/ (SenderOnly /\ ServedLate)

NavigatorNext ==
    \/ \E h \in Handler :
          \/ NavigatorOnly /\ Navigator!ReceiveClaim(h)
          \/ \E p \in pressed : NavigatorOnly /\ Navigator!ReceivePress(h, p)
          \/ NavigatorOnly /\ Navigator!Lookup(h)
          \/ NavigatorOnly /\ Navigator!ListItems(h)
          \/ NavigatorOnly /\ Navigator!Send(h)
          \/ NavigatorOnly /\ Navigator!Show(h)
          \/ NavigatorOnly /\ Navigator!Edit(h)
          \/ NavigatorOnly /\ Navigator!Fail(h)
    \/ \E m \in PagedMessage : \E p \in Navigator!Buttons(shown[m]) :
          NavigatorOnly /\ Navigator!PressButton(m, p)
    \/ NavigatorOnly /\ Navigator!Crash
    \/ NavigatorOnly /\ Navigator!RelayExpires
    \/ NavigatorOnly /\ Navigator!RelayDeleted
    \/ NavigatorOnly /\ Navigator!Tick

ServingNext == MessagesNext \/ LimiterNext \/ PagerNext \/ SenderNext \/ NavigatorNext

ServingSpec == ServingInit /\ [][ServingNext]_servingVars

MCSymmetry == Permutations(Handler)

-----------------------------------------------------------------------------
(* Every code of a relay that a message holds is claimed, once, under a    *)
(* number of its own (extract.go:98-123, 171).                             *)
CodesServed ==
    active = "messages" => Messages!MessagesInv /\ Messages!EveryCodeServed

(* The pages hold every file once, in its order, and albums that fit a     *)
(* page are not cut; files are refused only when an album does not lie     *)
(* together (paging.go:25-73).                                             *)
PagesRight == active = "pager" => Pager!PagingInv

(* What the buttons' message says was sent was sent, while the relay could *)
(* be claimed (router.go:558, 631, service.go:925).                        *)
ShownWasSent == active = "navigator" => Navigator!NavigatorInv

(* `Page out of range' is the answer of a deleted relay only               *)
(* (service.go:940).                                                       *)
OutOfRangeOnlyIfDeleted == Navigator!OutOfRangeOnlyIfDeleted

=============================================================================
