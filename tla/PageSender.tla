----------------------------- MODULE PageSender -----------------------------
(***************************************************************************)
(* Sender.DeliverPage (internal/telegram/sender.go): the files of a page   *)
(* go to the claimer's chat in requests of one file or one media group,    *)
(* one after the other, and the first error ends the page. A request that  *)
(* is not answered may have been served, not been served, or be served     *)
(* later.                                                                  *)
(*                                                                         *)
(* Of a file only its kind matters; a message in the chat is the position  *)
(* of its file on the page.                                                *)
(***************************************************************************)
EXTENDS Integers, Sequences

CONSTANTS
    ChunkSize,  \* maxDeliveryPageItems
    PageSize    \* bound: the items of a page

ASSUME ChunkSizePositive == ChunkSize \in Nat \ {0}
ASSUME PageSizeIsNat == PageSize \in Nat

VARIABLES
    page,     \* the kind of each file, in item_order
    next,     \* the file DeliverPage has come to
    chat,     \* the messages in the claimer's chat
    pending,  \* the last request was given up and may still be served
    outcome   \* what DeliverPage has returned, if it has

vars == <<page, next, chat, pending, outcome>>

Kind == {"document", "photo", "video", "audio", "voice"}

Outcome == {"sending", "sent", "failed", "unknown", "stopped"}

Pages == UNION {[1 .. n -> Kind] : n \in 1 .. PageSize}

TypeOK ==
    /\ page \in Pages
    /\ next \in 1 .. Len(page) + 1
    /\ chat \in Seq(1 .. Len(page))
    /\ pending \in BOOLEAN
    /\ outcome \in Outcome

-----------------------------------------------------------------------------
(* Requests. *)

(* mediaGroupKindMode: what may stand together in one media group. *)
Mode(kind) ==
    CASE kind \in {"photo", "video"} -> "visual"
      [] kind = "audio"              -> "audio"
      [] kind = "document"           -> "document"
      [] OTHER                       -> "invalid"

(* The chunk that file i is in (splitPageItems). *)
ChunkStart(i) == ((i - 1) \div ChunkSize) * ChunkSize + 1

ChunkEnd(i) ==
    IF ChunkStart(i) + ChunkSize - 1 > Len(page)
    THEN Len(page)
    ELSE ChunkStart(i) + ChunkSize - 1

(* Fault: only the first file's kind looked at. *)
FirstFits(first, last) == first < last /\ Mode(page[first]) # "invalid"

CanSendAsMediaGroup(first, last) ==
    /\ first < last
    /\ Mode(page[first]) # "invalid"
    /\ \A i \in first .. last : Mode(page[i]) = Mode(page[first])

(* The last file of the request that begins with file i. *)
RequestEnd(i) ==
    IF CanSendAsMediaGroup(ChunkStart(i), ChunkEnd(i)) THEN ChunkEnd(i) ELSE i

(* Telegram puts a request's files into the chat together. *)
Served == chat' = chat \o [k \in 1 .. RequestEnd(next) - next + 1 |-> next + k - 1]

-----------------------------------------------------------------------------
Init ==
    /\ page \in Pages
    /\ next = 1
    /\ chat = <<>>
    /\ pending = FALSE
    /\ outcome = "sending"

(* Fault: a page called sent before its last chunk. *)
AfterRequestEarly(end) == IF end >= ChunkSize THEN "sent" ELSE "sending"

AfterRequest(end) == IF end = Len(page) THEN "sent" ELSE "sending"

Answered ==
    /\ outcome = "sending"
    /\ Served
    /\ next' = RequestEnd(next) + 1
    /\ outcome' = AfterRequest(RequestEnd(next))
    /\ UNCHANGED <<page, pending>>

(* Fault: the failed request sent again. *)
FailsAndRetries ==
    /\ outcome = "sending"
    /\ \/ Served /\ pending' = FALSE
       \/ UNCHANGED chat /\ pending' \in BOOLEAN
    /\ UNCHANGED <<page, next, outcome>>

(* An error, by classifySendError: a cancelled context or a timeout is     *)
(* unknown, any other failed, an empty answer to a media group too.        *)
(* Stopped: the process ends in the middle of the page.                    *)
Fails ==
    /\ outcome = "sending"
    /\ \/ Served /\ pending' = FALSE
       \/ UNCHANGED chat /\ pending' \in BOOLEAN
    /\ outcome' \in {"failed", "unknown", "stopped"}
    /\ UNCHANGED <<page, next>>

(* Telegram serves a request whose sender no longer waits for the answer. *)
ServedLate ==
    /\ pending
    /\ Served
    /\ pending' = FALSE
    /\ UNCHANGED <<page, next, outcome>>

Next == Answered \/ Fails \/ ServedLate

Spec == Init /\ [][Next]_vars

-----------------------------------------------------------------------------
(* The chat holds the page's first files, in the order they were uploaded, *)
(* none of them twice, however the page ended: a claimer who got an error  *)
(* knows which files are missing (sender.go:103).                          *)
InOrderOnce == \A k \in DOMAIN chat : chat[k] = k

(* A page reported as sent, and marked so by ClaimRelay, is in the chat to *)
(* its last file.                                                          *)
SentInFull == outcome = "sent" => Len(chat) = Len(page)

(* A media group is one Telegram accepts: two to ChunkSize files that may  *)
(* stand together, and never a voice message (sender.go:169).              *)
GroupsAcceptable ==
    outcome = "sending" =>
        LET group == next .. RequestEnd(next)
        IN  RequestEnd(next) > next =>
                /\ RequestEnd(next) < next + ChunkSize
                /\ RequestEnd(next) <= Len(page)
                /\ \E m \in {"visual", "audio", "document"} :
                      \A i \in group : Mode(page[i]) = m

(* Until it returns, DeliverPage has done nothing a claim could act on. *)
Delivery ==
    INSTANCE PageDelivery WITH
        size     <- Len(page),
        received <- IF outcome = "sending" THEN 0 ELSE Len(chat),
        result   <- IF outcome = "sending" THEN "none" ELSE outcome

(* Request by request, DeliverPage does what ClaimDelivery takes for one   *)
(* step: `sent' is only said of a whole page.                              *)
ImplementsPageDelivery == Delivery!AbstractSpec

=============================================================================
