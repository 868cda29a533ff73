---------------------------- MODULE ClaimDelivery ----------------------------
(***************************************************************************)
(* Claiming: a code in a private chat is looked up, recorded as a delivery *)
(* and answered with the first page of the relay's files (ClaimRelay in    *)
(* internal/relay/service.go), over the tables of RelayStore, the          *)
(* relay_deliveries table, the code cache in Redis, Telegram's answers     *)
(* (internal/telegram/sender.go) and the maintenance worker.               *)
(*                                                                         *)
(* Claim handlers run concurrently and one action is one call. An update   *)
(* may be delivered again at any time, also while it is being handled.     *)
(***************************************************************************)
EXTENDS RelayClock

CONSTANTS
    Request,       \* request_update_id of claims
    Wanted,        \* the code each of them asks for
    Claimer,       \* claim handlers that may be at work at once
    StaleAfter,    \* limits.UnknownDeliveryAfter
    Retain,        \* limits.ExpiredDeliveryPurge
    MaxHandling,   \* longest time a claim handler is at work
    MaxClaimFaults \* bound: failed calls, lost answers and crashes

ASSUME WantedIsCode == Wanted \in [Request -> Code]
ASSUME FiniteRequests == IsFiniteSet(Request)
ASSUME DelaysAreNat ==
    /\ StaleAfter \in Nat
    /\ MaxHandling \in Nat
    /\ MaxClaimFaults \in Nat
(* Every call a handler makes has a timeout of seconds or minutes; expired *)
(* deliveries are kept for days (config.go).                               *)
ASSUME HandlersOutlived == Retain \in Nat /\ MaxHandling <= Retain

VARIABLES
    deliveries,  \* the relay_deliveries table, by its UNIQUE request_update_id
    claimed,     \* relays.delivery_count
    codeEntries, \* Redis: relay:code:<hash>
    claimer,     \* the claim handlers
    sends,       \* how often a page has been sent for each request
    inbox,       \* the files that reached the claimer's chat for it
    cycle,       \* the maintenance cycle
    claimFaults

claimVars == <<deliveries, claimed, codeEntries, claimer, sends, inbox>>
claimingVars == <<storeVars, claimVars, clock, cycle, claimFaults>>

-----------------------------------------------------------------------------
(* Types. *)

Delivery == [status    : {"none", "pending", "sent", "failed", "unknown"},
             relay     : RelayId \cup {NoRelay},
             createdAt : Nat]
NoDelivery == [status |-> "none", relay |-> NoRelay, createdAt |-> 0]

CacheEntry == [relay : RelayId \cup {NoRelay}, deadline : Nat]
NoEntry == [relay |-> NoRelay, deadline |-> 0]

ClaimStep == {"idle", "cached", "byId", "byCode", "warm", "list", "create", "send",
              "sent", "failed", "unknown", "not_found"}

ClaimerState == [pc    : ClaimStep,
                 req   : Request \cup {NoUpdate},
                 now   : Nat,                     \* s.clock.Now() on entry
                 relay : RelayId \cup {NoRelay},  \* item.ID
                 files : SUBSET Update]           \* items

IdleClaimer == [pc |-> "idle", req |-> NoUpdate, now |-> 0, relay |-> NoRelay, files |-> {}]

ClaimTypeOK ==
    /\ TypeOK
    /\ clock \in 0 .. MaxClock
    /\ deliveries \in [Request -> Delivery]
    /\ claimed \in [RelayId -> Nat]
    /\ codeEntries \in [Code -> CacheEntry]
    /\ claimer \in [Claimer -> ClaimerState]
    /\ sends \in [Request -> Nat]
    /\ inbox \in [Request -> SUBSET Update]
    /\ cycle \in [pc : {"idle", "expire", "unknown", "purge"}, now : Nat]
    /\ claimFaults \in 0 .. MaxClaimFaults

-----------------------------------------------------------------------------
(* Control flow. *)

ClaimGo(h, pc) == claimer' = [claimer EXCEPT ![h].pc = pc]

ClaimReturn(h) == claimer' = [claimer EXCEPT ![h] = IdleClaimer]

WantedCode(h) == Wanted[claimer[h].req]

ClaimFault == claimFaults < MaxClaimFaults /\ claimFaults' = claimFaults + 1

(* A claim arrives, for the first time or again. *)
ReceiveClaim(h) ==
    /\ claimer[h] = IdleClaimer
    /\ \E q \in Request :
          claimer' = [claimer EXCEPT ![h] =
                        [IdleClaimer EXCEPT !.pc = "cached", !.req = q, !.now = clock]]
    /\ UNCHANGED <<storeVars, deliveries, claimed, codeEntries, sends, inbox,
                   clock, cycle, claimFaults>>

-----------------------------------------------------------------------------
(* lookupRelay. A call that only reads leaves all of this as it is. *)

readOnly == <<storeVars, deliveries, claimed, sends, inbox, clock, cycle>>

(* An error of the cache is a miss. *)
LookupCached(h) ==
    /\ claimer[h].pc = "cached"
    /\ LET entry == codeEntries[WantedCode(h)]
       IN  \/ /\ entry # NoEntry
              /\ claimer' = [claimer EXCEPT ![h].pc = "byId", ![h].relay = entry.relay]
              /\ UNCHANGED claimFaults
           \/ /\ entry = NoEntry
              /\ ClaimGo(h, "byCode")
              /\ UNCHANGED claimFaults
           \/ /\ ClaimFault
              /\ ClaimGo(h, "byCode")
    /\ UNCHANGED <<readOnly, codeEntries>>

(* Fault: a relay that is still ready is served although it has expired. *)
ClaimableIfReady(r, now) == relays[r].status = "ready"

Claimable(r, now) == relays[r].status = "ready" /\ relays[r].expiresAt > now

(* A cached id whose row is gone is looked up again by code; a relay that  *)
(* cannot be claimed is answered as expired or not found.                  *)
LookupById(h) ==
    LET r == claimer[h].relay
    IN  /\ claimer[h].pc = "byId"
        /\ \/ Exists(r) /\ Claimable(r, claimer[h].now) /\ ClaimGo(h, "list")
           \/ Exists(r) /\ ~Claimable(r, claimer[h].now) /\ ClaimReturn(h)
           \/ ~Exists(r) /\ ClaimGo(h, "byCode")
        /\ UNCHANGED <<readOnly, codeEntries, claimFaults>>

(* badCode answers an unknown code; that it counts them is left out. *)
LookupByCode(h) ==
    LET found == {r \in RelayId : Exists(r) /\ relays[r].code = WantedCode(h)}
    IN  /\ claimer[h].pc = "byCode"
        /\ \/ \E r \in found :
                 /\ Claimable(r, claimer[h].now)
                 /\ claimer' = [claimer EXCEPT ![h].pc = "warm", ![h].relay = r]
           \/ /\ \A r \in found : ~Claimable(r, claimer[h].now)
              /\ ClaimReturn(h)
        /\ UNCHANGED <<readOnly, codeEntries, claimFaults>>

(* The entry lives for what the relay had left when the claim arrived, so  *)
(* it may outlive the relay by the time the lookup took.                   *)
WarmCache(h) ==
    LET r == claimer[h].relay
    IN  /\ claimer[h].pc = "warm"
        /\ \/ /\ codeEntries' = [codeEntries EXCEPT ![WantedCode(h)] =
                    [relay |-> r,
                     deadline |-> clock + (relays[r].expiresAt - claimer[h].now)]]
              /\ UNCHANGED claimFaults
           \/ ClaimFault /\ UNCHANGED codeEntries
        /\ ClaimGo(h, "list")
        /\ UNCHANGED readOnly

-----------------------------------------------------------------------------
(* The files, and the row that stands for this delivery. *)

(* A relay with no files cannot be delivered. *)
ListItems(h) ==
    LET files == ItemsOf(claimer[h].relay)
    IN  /\ claimer[h].pc = "list"
        /\ IF files = {} THEN ClaimReturn(h)
           ELSE claimer' = [claimer EXCEPT ![h].pc = "create", ![h].files = files]
        /\ UNCHANGED <<readOnly, codeEntries, claimFaults>>

DeliveryExists(q) == deliveries[q].status # "none"

(* Fault: no unique key on request_update_id. *)
NeverRequested(q) == FALSE

(* relay_deliveries.request_update_id is UNIQUE. *)
Requested(q) == DeliveryExists(q)

InsertDelivery(h) ==
    deliveries' = [deliveries EXCEPT ![claimer[h].req] =
        [status |-> "pending", relay |-> claimer[h].relay, createdAt |-> claimer[h].now]]

(* ON CONFLICT DO NOTHING returns no row; scanDelivery has turned that     *)
(* into ErrRelayNotFound before store.go:388 looks for pgx.ErrNoRows, so   *)
(* the delivery that exists is not read and the claim is answered "not     *)
(* found". A relay deleted meanwhile fails the foreign key.                *)
CreateDelivery(h) ==
    LET q == claimer[h].req
        r == claimer[h].relay
    IN  /\ claimer[h].pc = "create"
        /\ \/ ~Requested(q) /\ Exists(r) /\ InsertDelivery(h) /\ ClaimGo(h, "send")
           \/ ~Requested(q) /\ ~Exists(r) /\ ClaimReturn(h) /\ UNCHANGED deliveries
           \/ Requested(q) /\ ClaimGo(h, "not_found") /\ UNCHANGED deliveries
        /\ UNCHANGED <<storeVars, claimed, codeEntries, sends, inbox, clock, cycle, claimFaults>>

(* The reply is sent and the handler returns. *)
ReplyNotFound(h) ==
    /\ claimer[h].pc = "not_found"
    /\ ClaimReturn(h)
    /\ UNCHANGED <<readOnly, codeEntries, claimFaults>>

-----------------------------------------------------------------------------
(* DeliverPage of the first page. Telegram accepts the messages of all its *)
(* files or of some; what the sender learns is one of three results.       *)

Arrives(h, files) ==
    inbox' = [inbox EXCEPT ![claimer[h].req] = @ \cup files]

(* Fault: a timeout taken for a delivery. *)
OptimisticResult(files, all) == {"sent", "failed"}

(* Success needs every answer. An error of Telegram ends the page midway;  *)
(* a connection lost after the last request is reported as failed, and a   *)
(* timeout as unknown, whether or not that request was served.             *)
SendResult(files, all) ==
    IF files = all THEN {"sent", "failed", "unknown"} ELSE {"failed", "unknown"}

SendPage(h) ==
    /\ claimer[h].pc = "send"
    /\ \E files \in SUBSET claimer[h].files :
          /\ Arrives(h, files)
          /\ \E result \in SendResult(files, claimer[h].files) : ClaimGo(h, result)
    /\ sends' = [sends EXCEPT ![claimer[h].req] = @ + 1]
    /\ UNCHANGED <<storeVars, deliveries, claimed, codeEntries, clock, cycle, claimFaults>>

-----------------------------------------------------------------------------
(* Recording the result: UPDATEs by id, with no condition on the status,   *)
(* that match nothing once the row is gone.                                *)

Marked(q, status) ==
    IF DeliveryExists(q) THEN [deliveries EXCEPT ![q].status = status] ELSE deliveries

CountedUp(r) == IF Exists(r) THEN [claimed EXCEPT ![r] = @ + 1] ELSE claimed

(* One transaction, which waits for the row lock of the relay. The times   *)
(* it writes to a row that is past collecting are read by nobody.          *)
MarkSentEffect(h) ==
    /\ claimer[h].pc = "sent"
    /\ ~Locked(claimer[h].relay)
    /\ deliveries' = Marked(claimer[h].req, "sent")
    /\ claimed' = CountedUp(claimer[h].relay)

MarkSent(h) ==
    /\ MarkSentEffect(h)
    /\ ClaimReturn(h)
    /\ UNCHANGED <<storeVars, codeEntries, sends, inbox, clock, cycle, claimFaults>>

MarkFailedOrUnknown(h) ==
    /\ claimer[h].pc \in {"failed", "unknown"}
    /\ deliveries' = Marked(claimer[h].req, claimer[h].pc)
    /\ ClaimReturn(h)
    /\ UNCHANGED <<storeVars, claimed, codeEntries, sends, inbox, clock, cycle, claimFaults>>

-----------------------------------------------------------------------------
(* Failures. *)

(* A call fails, AllowClaim refuses, or the files cannot be paged: the     *)
(* handler replies with the error and returns.                             *)
ClaimFails(h) ==
    /\ claimer[h].pc \notin {"idle", "cached", "warm", "send", "not_found"}
    /\ ClaimFault
    /\ ClaimReturn(h)
    /\ UNCHANGED <<readOnly, codeEntries>>

(* The statement or COMMIT takes effect and its answer is lost. *)
AnswerLost(h) ==
    /\ \/ /\ claimer[h].pc = "create"
          /\ ~Requested(claimer[h].req) /\ Exists(claimer[h].relay)
          /\ InsertDelivery(h)
          /\ UNCHANGED claimed
       \/ MarkSentEffect(h)
    /\ ClaimFault
    /\ ClaimReturn(h)
    /\ UNCHANGED <<storeVars, codeEntries, sends, inbox, clock, cycle>>

(* The process stops and starts again; a crash in the middle of a page is  *)
(* a SendPage of part of it before the crash.                              *)
ClaimCrash ==
    /\ ClaimFault
    /\ claimer' = [h \in Claimer |-> IdleClaimer]
    /\ cycle' = [pc |-> "idle", now |-> 0]
    /\ RollbackAll
    /\ UNCHANGED <<deliveries, claimed, codeEntries, sends, inbox, clock>>

-----------------------------------------------------------------------------
(* The maintenance cycle (runOnce), as far as it touches what can be       *)
(* claimed: each task runs whether or not the one before it failed.        *)

(* ON DELETE CASCADE on relay_deliveries.relay_id, and the purge. *)
RemoveDeliveries(Q) ==
    deliveries' = [q \in Request |-> IF q \in Q THEN NoDelivery ELSE deliveries[q]]

DeliveriesOf(R) == {q \in Request : deliveries[q].relay \in R}

CycleStart ==
    /\ cycle.pc = "idle"
    /\ LET before == clock - SessionTTL
       IN  \/ /\ DeleteCollectingRelaysBefore(before)
              /\ RemoveDeliveries(DeliveriesOf(StaleCollecting(before)))
              /\ UNCHANGED claimFaults
           \/ ClaimFault /\ UNCHANGED <<storeVars, deliveries>>
    /\ cycle' = [pc |-> "expire", now |-> clock]
    /\ UNCHANGED <<claimed, codeEntries, claimer, sends, inbox, clock>>

CycleExpire ==
    /\ cycle.pc = "expire"
    /\ \/ ExpireRelays(cycle.now) /\ UNCHANGED claimFaults
       \/ ClaimFault /\ UNCHANGED storeVars
    /\ cycle' = [cycle EXCEPT !.pc = "unknown"]
    /\ UNCHANGED <<claimVars, clock>>

(* Fault: AND status = 'pending' forgotten in the UPDATE. *)
AnyBefore(before) == {q \in Request : DeliveryExists(q) /\ deliveries[q].createdAt < before}

(* Fault: the comparison the wrong way round. *)
PendingAfter(before) ==
    {q \in Request : /\ deliveries[q].status = "pending"
                     /\ deliveries[q].createdAt > before}

PendingBefore(before) ==
    {q \in Request : /\ deliveries[q].status = "pending"
                     /\ deliveries[q].createdAt < before}

MarkUnknownDeliveriesBefore(before) ==
    deliveries' = [q \in Request |->
        IF q \in PendingBefore(before) THEN [deliveries[q] EXCEPT !.status = "unknown"]
                                       ELSE deliveries[q]]

CycleMarkUnknown ==
    /\ cycle.pc = "unknown"
    /\ \/ MarkUnknownDeliveriesBefore(cycle.now - StaleAfter) /\ UNCHANGED claimFaults
       \/ ClaimFault /\ UNCHANGED deliveries
    /\ cycle' = [cycle EXCEPT !.pc = "purge"]
    /\ UNCHANGED <<storeVars, claimed, codeEntries, claimer, sends, inbox, clock>>

(* Fault: deliveries purged as soon as their relay has expired. *)
ExpiredAtOnce(before) ==
    {q \in Request : /\ DeliveryExists(q)
                     /\ relays[deliveries[q].relay].status = "expired"}

(* Deliveries of relays that expired long ago. *)
ExpiredDeliveries(before) ==
    {q \in Request :
        /\ DeliveryExists(q)
        /\ relays[deliveries[q].relay].status = "expired"
        /\ relays[deliveries[q].relay].expiresAt < before
        /\ deliveries[q].createdAt < before}

CyclePurge ==
    /\ cycle.pc = "purge"
    /\ \/ RemoveDeliveries(ExpiredDeliveries(cycle.now - Retain)) /\ UNCHANGED claimFaults
       \/ ClaimFault /\ UNCHANGED deliveries
    /\ cycle' = [pc |-> "idle", now |-> 0]
    /\ UNCHANGED <<storeVars, claimed, codeEntries, claimer, sends, inbox, clock>>

-----------------------------------------------------------------------------
(* What the upload half does to relays meanwhile (BatchUpload, with the    *)
(* sessions and counts abstracted): any step of the store, with the times  *)
(* its handlers have read. DeleteRelay reaches a ready relay when the      *)
(* /batch_cancel or the failed /batch_start it belongs to is overtaken by  *)
(* a /batch_done; deliveries go with their relay.                          *)

UploadStep ==
    \/ \E t \in Tx, r \in RelayId, u \in Update, c \in Code, chat \in Chat, at \in 0 .. clock :
          \/ CreateRelay(t, r, u, c, chat, at + RelayTTL, at)
          \/ CreateRelayOfFiledUpload(t, r, u, c, chat, at + RelayTTL, at)
    \/ \E t \in Tx, r \in RelayId, u \in Update, at \in 0 .. clock : AddRelayItem(t, r, u, at)
    \/ \E t \in Tx : InsertItem(t) \/ CommitInsert(t) \/ RollbackInsert(t)
    \/ \E r \in RelayId, chat \in Chat, at \in 0 .. clock : CreateRelayBatch(r, chat, at)
    \/ \E r \in RelayId, c \in Code, at \in 0 .. clock :
          /\ ItemsOf(r) # {}
          /\ FinalizeRelayBatch(r, c, at + RelayTTL, at)

Upload ==
    /\ UploadStep
    /\ UNCHANGED <<claimVars, clock, cycle, claimFaults>>

(* The handler puts what the relay has left at the time it began, and may  *)
(* be late: the relay may have been cancelled meanwhile.                   *)
UploadWarmsCache ==
    /\ \E r \in RelayId, now \in 0 .. clock :
          /\ relays[r].code # NoCode /\ relays[r].expiresAt > now
          /\ codeEntries' = [codeEntries EXCEPT ![relays[r].code] =
                [relay |-> r, deadline |-> clock + (relays[r].expiresAt - now)]]
    /\ UNCHANGED <<readOnly, claimer, claimFaults>>

CancelRelay ==
    /\ \E r \in RelayId : DeleteRelay(r) /\ RemoveDeliveries(DeliveriesOf({r}))
    /\ UNCHANGED <<claimed, codeEntries, claimer, sends, inbox, clock, cycle, claimFaults>>

(* Time passes; no claim is at work longer than MaxHandling, and Redis     *)
(* drops the entries whose time has come.                                  *)
ClaimTick ==
    /\ clock < MaxClock
    /\ \A h \in Claimer : claimer[h] # IdleClaimer => clock < claimer[h].now + MaxHandling
    /\ clock' = clock + 1
    /\ codeEntries' = [c \in Code |-> IF codeEntries[c].deadline <= clock' THEN NoEntry
                                                                        ELSE codeEntries[c]]
    /\ UNCHANGED <<storeVars, deliveries, claimed, claimer, sends, inbox, cycle, claimFaults>>

-----------------------------------------------------------------------------
ClaimInit ==
    /\ StoreInit
    /\ clock = 0
    /\ deliveries = [q \in Request |-> NoDelivery]
    /\ claimed = [r \in RelayId |-> 0]
    /\ codeEntries = [c \in Code |-> NoEntry]
    /\ claimer = [h \in Claimer |-> IdleClaimer]
    /\ sends = [q \in Request |-> 0]
    /\ inbox = [q \in Request |-> {}]
    /\ cycle = [pc |-> "idle", now |-> 0]
    /\ claimFaults = 0

ClaimProceed(h) ==
    \/ LookupCached(h) \/ LookupById(h) \/ LookupByCode(h) \/ WarmCache(h)
    \/ ListItems(h) \/ CreateDelivery(h) \/ ReplyNotFound(h) \/ SendPage(h)
    \/ MarkSent(h) \/ MarkFailedOrUnknown(h)

RunCycle == CycleStart \/ CycleExpire \/ CycleMarkUnknown \/ CyclePurge

ClaimNext ==
    \/ \E h \in Claimer : ReceiveClaim(h) \/ ClaimProceed(h) \/ ClaimFails(h) \/ AnswerLost(h)
    \/ RunCycle
    \/ Upload
    \/ UploadWarmsCache
    \/ CancelRelay
    \/ ClaimCrash
    \/ ClaimTick

ClaimSpec == ClaimInit /\ [][ClaimNext]_claimingVars

-----------------------------------------------------------------------------
(* Safety. *)

(* One claim gets at most one page, however often its update is delivered  *)
(* and wherever a crash, a lost answer or a timeout falls: the row of      *)
(* relay_deliveries is there before anything is sent (service.go:692), and *)
(* when the worker has purged it the relay has long been expired           *)
(* (store.go:509).                                                         *)
SentAtMostOnce == \A q \in Request : sends[q] <= 1

(* A delivery recorded as sent reached the claimer, whole, and with the    *)
(* files the relay has: what was listed before a crash of others, a purge  *)
(* or a late mark is still what the relay holds (service.go:668, 815).     *)
SentMeansReceived ==
    \A q \in Request :
        deliveries[q].status = "sent" =>
            /\ inbox[q] # {}
            /\ inbox[q] = ItemsOf(deliveries[q].relay)

(* A page is only ever sent for a relay that could be claimed, with the    *)
(* requested code, when the claim arrived: not through an entry of the     *)
(* code cache that outlived its relay (service.go:994), nor one that       *)
(* names a deleted relay (service.go:1005).                                *)
ServedWhileClaimable ==
    /\ \A h \in Claimer :
          claimer[h].pc \in {"create", "send", "sent", "failed", "unknown"} =>
              /\ relays[claimer[h].relay].code = WantedCode(h)
              /\ relays[claimer[h].relay].expiresAt > claimer[h].now
              /\ Exists(claimer[h].relay) => claimer[h].files = ItemsOf(claimer[h].relay)
    /\ \A c \in Code :
          codeEntries[c] # NoEntry => relays[codeEntries[c].relay].code = c

(* relays.delivery_count of a relay that can be claimed is the number of   *)
(* its deliveries recorded as sent, also when a delivery had been marked   *)
(* unknown first or the answer to its COMMIT was lost (store.go:406).      *)
CountMatchesDeliveries ==
    \A r \in RelayId :
        relays[r].status = "ready" =>
            claimed[r] = Cardinality({q \in Request : /\ deliveries[q].relay = r
                                                      /\ deliveries[q].status = "sent"})

(* Why these hold. A handler that is past its lookup, or holds a delivery. *)
LookedUp == {"warm", "list", "create"}
Sending == {"send", "sent", "failed", "unknown"}

(* No handler outlives the rows it relies on: its clock reading is at most *)
(* MaxHandling old, and the worker's is not of the future.                 *)
Timely ==
    /\ cycle.now <= clock
    /\ \A h \in Claimer :
          claimer[h].pc # "idle" =>
              /\ claimer[h].req \in Request
              /\ claimer[h].now <= clock /\ clock <= claimer[h].now + MaxHandling

(* What a handler has looked up is a relay of the wanted code, claimable   *)
(* when the claim arrived, and the files it has listed are still its files. *)
LookupRight(h) ==
    LET r == claimer[h].relay
    IN  /\ claimer[h].pc \in LookedUp \cup Sending \cup {"byId"} =>
               r \in RelayId /\ relays[r].code = WantedCode(h)
        /\ claimer[h].pc \in LookedUp \cup Sending => relays[r].expiresAt > claimer[h].now
        /\ claimer[h].pc \in Sending \cup {"create"} =>
               /\ claimer[h].files # {}
               /\ Exists(r) => claimer[h].files = ItemsOf(r)

LookupsRight == \A h \in Claimer : LookupRight(h)

CacheRight ==
    \A c \in Code :
        codeEntries[c] # NoEntry =>
            codeEntries[c].relay \in RelayId /\ relays[codeEntries[c].relay].code = c

(* A delivery is of an existing relay that has the wanted code. *)
DeliveriesRight ==
    \A q \in Request :
        DeliveryExists(q) =>
            LET r == deliveries[q].relay
            IN  r \in RelayId /\ Exists(r) /\ relays[r].code = Wanted[q]

(* Somebody sends, or has sent, the page of this claim. *)
Taken(q) ==
    \/ sends[q] > 0
    \/ \E h \in Claimer : claimer[h].req = q /\ claimer[h].pc \in Sending

(* Nobody will get a delivery of this claim any more: its relay has gone   *)
(* or expired, and whoever looked it up before that will find no row.      *)
Spent(q) ==
    \E r \in RelayId :
        /\ relays[r].code = Wanted[q]
        /\ relays[r].status \in {"expired", "deleted"}
        /\ \A h \in Claimer :
              claimer[h].req = q /\ claimer[h].pc \in LookedUp => relays[r].status = "deleted"

(* A handler that sends has the delivery, with no result yet, unless the   *)
(* relay has been deleted and the delivery with it.                        *)
SenderRight(h) ==
    LET q == claimer[h].req
    IN  /\ claimer[h].pc = "send" => sends[q] = 0
        /\ claimer[h].pc = "sent" => inbox[q] = claimer[h].files
        /\ claimer[h].pc \in Sending =>
              /\ deliveries[q].status \in {"none", "pending", "unknown"}
              /\ DeliveryExists(q) \/ relays[claimer[h].relay].status = "deleted"

(* The row of relay_deliveries admits one sender, and what replaces it     *)
(* when it is removed is that there is nothing left to send.               *)
OneSender ==
    /\ \A q \in Request :
          /\ sends[q] <= 1
          /\ sends[q] = 0 => inbox[q] = {}
          /\ Taken(q) => DeliveryExists(q) \/ Spent(q)
    /\ \A g, h \in Claimer :
          /\ claimer[g].pc \in Sending /\ claimer[h].pc \in Sending
          /\ claimer[g].req = claimer[h].req
          => g = h
    /\ \A h \in Claimer : SenderRight(h)

(* Only a relay that has its code has been claimed. *)
NothingClaimedYet ==
    \A r \in RelayId : relays[r].status \in {"unused", "collecting"} => claimed[r] = 0

(* What all of the above follows from, which time and the worker could     *)
(* disturb.                                                                *)
ClaimInv ==
    /\ ClaimTypeOK
    /\ Timely /\ LookupsRight /\ CacheRight /\ DeliveriesRight /\ OneSender
    /\ SentMeansReceived /\ NothingClaimedYet /\ CountMatchesDeliveries

(* A result the sender has reported stays: the worker's timeout never      *)
(* replaces it, however late it runs, and only deleting or purging the     *)
(* relay's deliveries removes it (store.go:498).                           *)
ResultsStay ==
    [][\A q \in Request :
          deliveries[q].status \in {"sent", "failed"}
          => deliveries'[q] = deliveries[q] \/ deliveries'[q] = NoDelivery]_claimingVars

(* What a test promises of a claim that is delivered twice, and CreateDelivery *)
(* does not keep: a pending delivery is answered "in progress", so no claim *)
(* that has a delivery is answered "not found" (service_test.go:852).      *)
DuplicateNotDenied ==
    \A h \in Claimer :
        claimer[h].pc = "not_found" => ~DeliveryExists(claimer[h].req)

-----------------------------------------------------------------------------
(* Liveness. *)

(* No delivery stays pending: a handler that crashed, or failed to record  *)
(* the result, is followed by the worker's timeout (runner.go:83). Checked *)
(* of the whole bot, whose fairness it needs.                              *)
Stuck(q) ==
    deliveries[q].status = "pending" /\ deliveries[q].createdAt < MaxClock - StaleAfter

PendingSettles == \A q \in Request : Stuck(q) ~> ~Stuck(q)

=============================================================================
