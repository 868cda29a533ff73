--------------------------- MODULE PageNavigator ---------------------------
(***************************************************************************)
(* Paging through a relay: a claim sends the first page and a message with *)
(* buttons, and each button press sends another page and edits that        *)
(* message (handleClaimRelays, handleCallbackQuery in                      *)
(* internal/telegram/router.go, ClaimRelayPage in                          *)
(* internal/relay/service.go).                                             *)
(*                                                                         *)
(* One relay and one claimer. Presses are handled concurrently, may be     *)
(* made before an earlier one has edited the message, and may be delivered *)
(* again. What a claim does to the records of deliveries is in             *)
(* ClaimDelivery, how a page is sent in PageSender.                        *)
(***************************************************************************)
EXTENDS Integers

CONSTANTS
    Handler,
    Message,    \* the messages with buttons
    NoMessage,
    PageTotal,  \* pages of the relay; its items are frozen (RelayStore)
    ExpiresAt,  \* when the relay expires
    MaxClock,   \* bound: the clock stops here
    MaxFaults   \* bound: failed calls in one behaviour

NavigatorAssumption ==
    /\ NoMessage \notin Message
    /\ PageTotal \in Nat \ {0}
    /\ {ExpiresAt, MaxClock, MaxFaults} \subseteq Nat

VARIABLES
    status,   \* relays.status, or deleted
    clock,
    shown,    \* the page each message shows; 0 before it is sent
    pressed,  \* button presses Telegram has yet to deliver
    handler,
    arrived,  \* the pages that are in the claimer's chat to their last file
    faults

vars == <<status, clock, shown, pressed, handler, arrived, faults>>

Page == 1 .. PageTotal

Press == [message : Message, page : Page]

HandlerState == [pc      : {"idle", "lookup", "list", "send", "show", "edit"},
                 message : Message \cup {NoMessage},  \* none in a claim
                 page    : Page,
                 now     : Nat,
                 live    : BOOLEAN]  \* history: could be claimed when it began

Idle == [pc |-> "idle", message |-> NoMessage, page |-> 1, now |-> 0, live |-> FALSE]

TypeOK ==
    /\ status \in {"ready", "expired", "deleted"}
    /\ clock \in 0 .. MaxClock
    /\ shown \in [Message -> 0 .. PageTotal]
    /\ pressed \subseteq Press
    /\ handler \in [Handler -> HandlerState]
    /\ arrived \subseteq Page
    /\ faults \in 0 .. MaxFaults

-----------------------------------------------------------------------------
At(h, pc) == handler[h].pc = pc

Go(h, pc) == handler' = [handler EXCEPT ![h].pc = pc]

(* The query or the message is answered. *)
Return(h) == handler' = [handler EXCEPT ![h] = Idle]

Fault == faults < MaxFaults /\ faults' = faults + 1

Claimable(now) == status = "ready" /\ now < ExpiresAt

Begin(h, message, page) ==
    /\ At(h, "idle")
    /\ handler' = [handler EXCEPT ![h] =
                    [pc |-> "lookup", message |-> message, page |-> page, now |-> clock,
                     live |-> Claimable(clock)]]

ReceiveClaim(h) ==
    /\ Begin(h, NoMessage, 1)
    /\ UNCHANGED <<status, clock, shown, pressed, arrived, faults>>

(* Fault: both buttons always active. *)
AlwaysBothButtons(page) == {page - 1, page + 1}

(* buildPageNavigatorMarkup: previous and next, inactive at the ends. *)
Buttons(page) == {page - 1, page + 1} \cap Page

PressButton(m, page) ==
    /\ shown[m] > 0
    /\ page \in Buttons(shown[m])
    /\ pressed' = pressed \cup {[message |-> m, page |-> page]}
    /\ UNCHANGED <<status, clock, shown, handler, arrived, faults>>

(* A press is delivered, and perhaps once more later. *)
ReceivePress(h, p) ==
    /\ p \in pressed
    /\ Begin(h, p.message, p.page)
    /\ pressed' \in {pressed, pressed \ {p}}
    /\ UNCHANGED <<status, clock, shown, arrived, faults>>

Servable(now) == status = "ready" /\ now < ExpiresAt

Lookup(h) ==
    /\ At(h, "lookup")
    /\ IF Servable(handler[h].now) THEN Go(h, "list") ELSE Return(h)
    /\ UNCHANGED <<status, clock, shown, pressed, arrived, faults>>

(* The items of a relay deleted since are gone, so every page is out of    *)
(* range; a claim finds its items missing.                                 *)
PagesFound == IF status = "deleted" THEN 0 ELSE PageTotal

ListItems(h) ==
    /\ At(h, "list")
    /\ IF handler[h].page <= PagesFound THEN Go(h, "send") ELSE Return(h)
    /\ UNCHANGED <<status, clock, shown, pressed, arrived, faults>>

AfterSend(h) == Go(h, IF handler[h].message = NoMessage THEN "show" ELSE "edit")

(* Fault: the page shown although sending it failed. *)
SendIgnoringError(h) ==
    /\ At(h, "send")
    /\ AfterSend(h)
    /\ arrived' \in {arrived, arrived \cup {handler[h].page}}
    /\ UNCHANGED <<status, clock, shown, pressed, faults>>

Send(h) ==
    /\ At(h, "send")
    /\ \/ /\ AfterSend(h)
          /\ arrived' = arrived \cup {handler[h].page}
          /\ UNCHANGED faults
       \/ /\ Fault
          /\ Return(h)
          /\ arrived' \in {arrived, arrived \cup {handler[h].page}}
    /\ UNCHANGED <<status, clock, shown, pressed>>

(* sendPageNavigator; a single page needs no buttons. *)
Show(h) ==
    /\ At(h, "show")
    /\ Return(h)
    /\ \/ /\ PageTotal > 1
          /\ \E m \in Message : shown[m] = 0 /\ shown' = [shown EXCEPT ![m] = handler[h].page]
          /\ UNCHANGED faults
       \/ /\ PageTotal = 1 \/ \A m \in Message : shown[m] # 0  \* bound: no message left
          /\ UNCHANGED <<shown, faults>>
       \/ Fault /\ UNCHANGED shown
    /\ UNCHANGED <<status, clock, pressed, arrived>>

(* EditMessageText; an error is logged only. *)
Edit(h) ==
    /\ At(h, "edit")
    /\ Return(h)
    /\ \/ shown' = [shown EXCEPT ![handler[h].message] = handler[h].page] /\ UNCHANGED faults
       \/ Fault /\ UNCHANGED shown
    /\ UNCHANGED <<status, clock, pressed, arrived>>

(* A failed query, or the process restarted, which ends every handler. *)
Fail(h) ==
    /\ handler[h].pc \in {"lookup", "list"}
    /\ Fault
    /\ Return(h)
    /\ UNCHANGED <<status, clock, shown, pressed, arrived>>

Crash ==
    /\ Fault
    /\ handler' = [h \in Handler |-> Idle]
    /\ UNCHANGED <<status, clock, shown, pressed, arrived>>

(* The worker's ExpireRelays, and a deletion overtaken by /batch_done. *)
RelayExpires ==
    /\ status = "ready"
    /\ clock >= ExpiresAt
    /\ status' = "expired"
    /\ UNCHANGED <<clock, shown, pressed, handler, arrived, faults>>

RelayDeleted ==
    /\ status = "ready"
    /\ status' = "deleted"
    /\ UNCHANGED <<clock, shown, pressed, handler, arrived, faults>>

Tick ==
    /\ clock < MaxClock
    /\ clock' = clock + 1
    /\ UNCHANGED <<status, shown, pressed, handler, arrived, faults>>

-----------------------------------------------------------------------------
Init ==
    /\ status = "ready"
    /\ clock = 0
    /\ shown = [m \in Message |-> 0]
    /\ pressed = {}
    /\ handler = [h \in Handler |-> Idle]
    /\ arrived = {}
    /\ faults = 0

Proceed(h) == Lookup(h) \/ ListItems(h) \/ Send(h) \/ Show(h) \/ Edit(h)

Next ==
    \/ \E h \in Handler : ReceiveClaim(h) \/ Proceed(h) \/ Fail(h)
    \/ \E h \in Handler : \E p \in pressed : ReceivePress(h, p)
    \/ \E m \in Message : \E page \in Buttons(shown[m]) : PressButton(m, page)
    \/ Crash \/ RelayExpires \/ RelayDeleted \/ Tick

Spec == Init /\ [][Next]_vars

-----------------------------------------------------------------------------
(* A message never says of a page that it was sent unless the chat holds   *)
(* it, whatever order the handlers of several presses end in               *)
(* (router.go:631, 558).                                                   *)
ShownWasSent == \A m \in Message : shown[m] # 0 => shown[m] \in arrived

(* Only what could be claimed when the press or the code arrived is sent:  *)
(* buttons outlive their relay, and its row may still say ready after its  *)
(* time (service.go:925).                                                  *)
SentWhileLive == \A h \in Handler : handler[h].pc \in {"send", "show", "edit"} => handler[h].live

(* What a handler relies on: it speaks of its page only once the chat has  *)
(* it, and a row that says ready before its time is one that could be      *)
(* claimed when the handler began, as no relay becomes ready again.        *)
HandlerRight(h) ==
    /\ handler[h].pc \in {"show", "edit"} => handler[h].page \in arrived
    /\ At(h, "edit") => handler[h].message # NoMessage
    /\ At(h, "lookup") /\ Servable(handler[h].now) => handler[h].live
    /\ At(h, "list") => handler[h].live

(* The inductive invariant of the buttons. *)
NavigatorInv == TypeOK /\ ShownWasSent /\ SentWhileLive /\ \A h \in Handler : HandlerRight(h)

(* The buttons never lead out of range: the answer `page out of range' is  *)
(* given only when the relay has been deleted since the lookup             *)
(* (service.go:940).                                                       *)
OutOfRangeOnlyIfDeleted ==
    [][\A h \in Handler :
          At(h, "list") /\ handler'[h] = Idle /\ faults' = faults => status = "deleted"]_vars

=============================================================================
