------------------------- MODULE ClaimDeliveryProofs -------------------------
(***************************************************************************)
(* What ClaimDelivery promises, proved for any number of claims, handlers, *)
(* relays and codes, any delays and any number of faults.                  *)
(*                                                                         *)
(* The store's part of every step is a step of RelayStore, so the store's  *)
(* invariant holds; ClaimInv is inductive on top of it. The proof has one  *)
(* lemma for each kind of step: the tables change under the claims         *)
(* (RowsAndRemovals), a handler reads (HandlersMove), a handler writes its *)
(* claim's row or sends its page (OneClaimMoves).                          *)
(***************************************************************************)
EXTENDS ClaimDelivery, RelayStoreProofs

-----------------------------------------------------------------------------
(* The store's part of every step is a step of the store, so that all its  *)
(* theorems hold here too.                                                 *)

LEMMA ClaimStepsStore ==
    ASSUME ClaimTypeOK, Timely, [ClaimNext]_claimingVars
    PROVE  [StoreNext]_storeVars
<1>1. /\ \A at \in 0 .. clock : at \in Time /\ at + RelayTTL \in Time
      /\ cycle.now \in Time /\ clock - SessionTTL \in Time
  BY TimesCovered, LifetimesPositive DEF ClaimTypeOK, Timely
<1>2. CASE UploadStep
  BY <1>1, <1>2 DEF UploadStep, StoreNext, TxNext, StatementNext
<1>3. CASE ExpireRelays(cycle.now)
  BY <1>1, <1>3 DEF StoreNext, StatementNext
<1>4. CASE RollbackAll
  BY <1>4 DEF StoreNext, StatementNext
<1>5. ASSUME NEW r \in RelayId, DeleteRelay(r) PROVE StoreNext
  BY <1>5 DEF StoreNext, StatementNext
<1>6. CASE UNCHANGED storeVars
  BY <1>6
<1>7. ASSUME NEW h \in Claimer, ReceiveClaim(h) \/ ClaimProceed(h) \/ ClaimFails(h) \/ AnswerLost(h)
      PROVE  UNCHANGED storeVars
  BY <1>7 DEF ReceiveClaim, ClaimProceed, ClaimFails, AnswerLost, LookupCached, LookupById,
              LookupByCode, WarmCache, ListItems, CreateDelivery, ReplyNotFound, SendPage,
              MarkSent, MarkFailedOrUnknown, readOnly
<1>10. CASE DeleteCollectingRelaysBefore(clock - SessionTTL)
  BY <1>1, <1>10 DEF StoreNext, StatementNext
<1>8. CASE RunCycle
  BY <1>3, <1>6, <1>8, <1>10
     DEF RunCycle, CycleStart, CycleExpire, CycleMarkUnknown, CyclePurge
<1>9. CASE UploadWarmsCache \/ ClaimTick \/ UNCHANGED claimingVars
  BY <1>6, <1>9 DEF UploadWarmsCache, ClaimTick, readOnly, claimingVars
<1> QED BY <1>2, <1>4, <1>5, <1>6, <1>7, <1>8, <1>9
        DEF ClaimNext, Upload, CancelRelay, ClaimCrash

-----------------------------------------------------------------------------
(* Steps that change rows, or remove deliveries with their relays.         *)

(* Two relays of one code are one relay. *)
LEMMA SameCodeSameRelay ==
    ASSUME StoreFacts, NEW q \in RelayId, NEW r \in RelayId, NEW c \in Code,
           relays[q].code = c, relays[r].code = c
    PROVE  q = r
BY NullsAreNotValues DEF StoreFacts, CodesUnique

(* The relay a handler has looked up is the one its claim's delivery is of. *)
LEMMA HandlersRelay ==
    ASSUME StoreFacts, ClaimInv, NEW h \in Claimer,
           claimer[h].pc \in LookedUp \cup Sending
    PROVE  /\ claimer[h].req \in Request /\ WantedCode(h) \in Code
           /\ claimer[h].relay \in RelayId
           /\ relays[claimer[h].relay].code = WantedCode(h)
           /\ DeliveryExists(claimer[h].req) =>
                 deliveries[claimer[h].req].relay = claimer[h].relay
<1>1. claimer[h].pc # "idle"
  BY DEF LookedUp, Sending
<1>2. claimer[h].req \in Request /\ WantedCode(h) \in Code
  BY <1>1, WantedIsCode DEF ClaimInv, Timely, WantedCode
<1>3. claimer[h].relay \in RelayId /\ relays[claimer[h].relay].code = WantedCode(h)
  BY DEF ClaimInv, LookupsRight, LookupRight
<1>4. ASSUME DeliveryExists(claimer[h].req)
      PROVE  deliveries[claimer[h].req].relay = claimer[h].relay
  <2>1. /\ deliveries[claimer[h].req].relay \in RelayId
        /\ relays[deliveries[claimer[h].req].relay].code = WantedCode(h)
    BY <1>2, <1>4 DEF ClaimInv, DeliveriesRight, WantedCode
  <2> QED BY <1>2, <1>3, <2>1, SameCodeSameRelay
<1> QED BY <1>2, <1>3, <1>4

(* The relay of a delivery has its code, and so its files for good. *)
LEMMA DeliveredRelay ==
    ASSUME StoreFacts, ClaimInv, NEW q \in Request, DeliveryExists(q)
    PROVE  /\ deliveries[q].relay \in RelayId
           /\ relays[deliveries[q].relay].code = Wanted[q]
           /\ relays[deliveries[q].relay].code # NoCode
           /\ relays[deliveries[q].relay].status \in {"ready", "expired"}
<1>1. /\ deliveries[q].relay \in RelayId /\ Exists(deliveries[q].relay)
      /\ relays[deliveries[q].relay].code = Wanted[q]
  BY DEF ClaimInv, DeliveriesRight
<1>2. Wanted[q] # NoCode
  BY WantedIsCode, NullsAreNotValues
<1> QED BY <1>1, <1>2 DEF StoreFacts, CodeComesWithReady, Exists, RowStatus

(* Deliveries go only when their relay does, or when it expired so long    *)
(* ago that no handler can still be about to send it.                      *)
Removable(Q) ==
    \A q \in Request :
        DeliveryExists(q) =>
            LET r == deliveries[q].relay
            IN  /\ q \notin Q => relays'[r].status \in RowStatus
                /\ q \in Q =>
                      /\ relays'[r].status \in {"expired", "deleted"}
                      /\ \A h \in Claimer :
                            claimer[h].req = q /\ claimer[h].pc \in LookedUp \cup Sending
                            => relays'[r].status = "deleted"

LEMMA RowsAndRemovals ==
    ASSUME StoreFacts, StoreFacts', ClaimInv, \A r \in RelayId : RowLife(r),
           NEW Q, Removable(Q), RemoveDeliveries(Q),
           UNCHANGED <<claimed, codeEntries, claimer, sends, inbox, clock>>,
           cycle' \in [pc : {"idle", "expire", "unknown", "purge"}, now : Nat],
           cycle'.now <= clock, claimFaults' \in 0 .. MaxClaimFaults
    PROVE  ClaimInv'
<1> USE DEF RemoveDeliveries
<1>0. /\ TypeOK /\ TypeOK' /\ NoDelivery \in Delivery
      /\ deliveries \in [Request -> Delivery]
  BY DEF StoreFacts, StoreInv, ClaimInv, ClaimTypeOK, Delivery, NoDelivery
<1>1. ClaimTypeOK'
  BY <1>0 DEF ClaimInv, ClaimTypeOK
<1>2. Timely'
  BY DEF ClaimInv, Timely
<1>3. ASSUME NEW r \in RelayId, relays[r].code \in Code
      PROVE  /\ relays'[r].code = relays[r].code /\ relays'[r].expiresAt = relays[r].expiresAt
             /\ Exists(r)' => Exists(r) /\ ItemsOf(r)' = ItemsOf(r)
  <2>1. relays[r].code # NoCode
    BY <1>3, NullsAreNotValues
  <2>2. relays[r].status \in {"ready", "expired", "deleted"}
    BY <1>0, <2>1 DEF StoreFacts, CodeComesWithReady, TypeOK, Row, RowStatus
  <2>3. RowLife(r)
    OBVIOUS
  <2>4. Exists(r)' => Exists(r)
    BY <2>2, <2>3 DEF RowLife, Exists, RowStatus
  <2> QED BY <2>1, <2>3, <2>4 DEF RowLife, RowKept
<1>4. ASSUME NEW h \in Claimer PROVE LookupRight(h)'
  <2> DEFINE r == claimer[h].relay
  <2>1. LookupRight(h)
    BY DEF ClaimInv, LookupsRight
  <2>2. CASE claimer[h].pc \in LookedUp \cup Sending \cup {"byId"}
    <3>1. claimer[h].req \in Request
      BY <2>2 DEF ClaimInv, Timely, LookedUp, Sending
    <3>2. r \in RelayId /\ relays[r].code = WantedCode(h) /\ WantedCode(h) \in Code
      BY <2>1, <2>2, <3>1, WantedIsCode DEF LookupRight, WantedCode
    <3>3. /\ relays'[r].code = relays[r].code /\ relays'[r].expiresAt = relays[r].expiresAt
          /\ Exists(r)' => Exists(r) /\ ItemsOf(r)' = ItemsOf(r)
      BY <1>3, <3>2
    <3> QED BY <2>1, <3>2, <3>3 DEF LookupRight, WantedCode
  <2>3. CASE claimer[h].pc \notin LookedUp \cup Sending \cup {"byId"}
    BY <2>3 DEF LookupRight, LookedUp
  <2> QED BY <2>2, <2>3
<1>5. CacheRight'
  BY <1>3 DEF ClaimInv, CacheRight
<1>6. ASSUME NEW q \in Request, DeliveryExists(q)'
      PROVE  /\ DeliveryExists(q) /\ q \notin Q /\ deliveries'[q] = deliveries[q]
             /\ Exists(deliveries[q].relay)' /\ deliveries[q].relay \in RelayId
             /\ relays[deliveries[q].relay].code = Wanted[q]
             /\ relays'[deliveries[q].relay].code = Wanted[q]
             /\ ItemsOf(deliveries[q].relay)' = ItemsOf(deliveries[q].relay)
  <2>1. DeliveryExists(q) /\ q \notin Q /\ deliveries'[q] = deliveries[q]
    BY <1>6 DEF DeliveryExists, NoDelivery
  <2>2. Exists(deliveries[q].relay)'
    BY <2>1 DEF Removable, Exists
  <2>3. deliveries[q].relay \in RelayId /\ relays[deliveries[q].relay].code = Wanted[q]
    BY <2>1, DeliveredRelay
  <2> QED BY <1>3, <2>1, <2>2, <2>3, WantedIsCode
<1>7. DeliveriesRight'
  BY <1>6 DEF DeliveriesRight
<1>8. SentMeansReceived'
  <2> SUFFICES ASSUME NEW q \in Request, deliveries'[q].status = "sent"
               PROVE  inbox'[q] # {} /\ inbox'[q] = ItemsOf(deliveries[q].relay)' 
                      /\ deliveries'[q] = deliveries[q]
    BY DEF SentMeansReceived
  <2>1. DeliveryExists(q)'
    BY DEF DeliveryExists
  <2> QED BY <1>6, <2>1 DEF ClaimInv, SentMeansReceived
<1>9. NothingClaimedYet'
  BY DEF ClaimInv, NothingClaimedYet, RowLife
<1>10. ASSUME NEW q \in Request, Spent(q) PROVE Spent(q)'
  <2>1. PICK r \in RelayId :
            /\ relays[r].code = Wanted[q] /\ relays[r].status \in {"expired", "deleted"}
            /\ \A h \in Claimer : claimer[h].req = q /\ claimer[h].pc \in LookedUp
                                  => relays[r].status = "deleted"
    BY <1>10 DEF Spent
  <2>2. /\ relays'[r].code = Wanted[q] /\ relays'[r].status \in {"expired", "deleted"}
        /\ relays[r].status = "deleted" => relays'[r].status = "deleted"
    BY <1>3, <2>1, WantedIsCode DEF RowLife
  <2> QED BY <2>1, <2>2 DEF Spent
<1>11. ASSUME NEW q \in Request, Taken(q) PROVE DeliveryExists(q)' \/ Spent(q)'
  <2>1. DeliveryExists(q) \/ Spent(q)
    BY <1>11 DEF ClaimInv, OneSender
  <2>2. CASE q \in Q /\ DeliveryExists(q)
    <3> DEFINE r == deliveries[q].relay
    <3>1. r \in RelayId /\ relays[r].code = Wanted[q]
      BY <2>2, DeliveredRelay
    <3>2. /\ relays'[r].status \in {"expired", "deleted"}
          /\ \A h \in Claimer :
                claimer[h].req = q /\ claimer[h].pc \in LookedUp \cup Sending
                => relays'[r].status = "deleted"
      BY <2>2 DEF Removable
    <3>3. relays'[r].code = Wanted[q]
      BY <1>3, <3>1, WantedIsCode
    <3> HIDE DEF r
    <3>4. Spent(q)'
      BY <3>1, <3>2, <3>3 DEF Spent
    <3> QED BY <3>4
  <2>3. CASE q \notin Q
    BY <1>10, <2>1, <2>3 DEF DeliveryExists
  <2> QED BY <1>10, <2>1, <2>2, <2>3
<1>12. ASSUME NEW h \in Claimer PROVE SenderRight(h)'
  <2>1. SenderRight(h)
    BY DEF ClaimInv, OneSender
  <2>2. CASE claimer[h].pc \in Sending
    <3> DEFINE q == claimer[h].req
               r == claimer[h].relay
    <3>1. q \in Request /\ r \in RelayId /\ (DeliveryExists(q) => deliveries[q].relay = r)
      BY <2>2, HandlersRelay
    <3>2. deliveries'[q].status \in {"none", "pending", "unknown"}
      BY <2>1, <2>2, <3>1 DEF SenderRight, NoDelivery
    <3>3. DeliveryExists(q)' \/ relays'[r].status = "deleted"
      <4>1. CASE relays[r].status = "deleted"
        BY <3>1, <4>1 DEF RowLife
      <4>2. CASE DeliveryExists(q) /\ q \in Q
        BY <2>2, <3>1, <4>2 DEF Removable
      <4>3. CASE DeliveryExists(q) /\ q \notin Q
        BY <3>1, <4>3 DEF DeliveryExists
      <4> QED BY <2>1, <2>2, <4>1, <4>2, <4>3 DEF SenderRight
    <3> QED BY <2>1, <3>2, <3>3 DEF SenderRight
  <2>3. CASE claimer[h].pc \notin Sending
    BY <2>1, <2>3 DEF SenderRight, Sending
  <2> QED BY <2>2, <2>3
<1>13. OneSender'
  <2>1. \A q \in Request : Taken(q)' => Taken(q)
    BY DEF Taken
  <2> QED BY <1>11, <1>12, <2>1 DEF ClaimInv, OneSender
<1>14. CountMatchesDeliveries'
  <2> SUFFICES ASSUME NEW r \in RelayId, relays'[r].status = "ready"
               PROVE  claimed[r] = Cardinality({q \in Request : /\ deliveries'[q].relay = r
                                                                /\ deliveries'[q].status = "sent"})
    BY DEF CountMatchesDeliveries
  <2> DEFINE Sent(d) == {q \in Request : d[q].relay = r /\ d[q].status = "sent"}
  <2>1. Sent(deliveries') = Sent(deliveries)
    <3> SUFFICES ASSUME NEW q \in Request
                 PROVE  deliveries'[q].relay = r /\ deliveries'[q].status = "sent"
                        <=> deliveries[q].relay = r /\ deliveries[q].status = "sent"
      OBVIOUS
    <3>1. CASE q \notin Q
      BY <3>1
    <3>2. CASE q \in Q
      BY <3>2 DEF Removable, DeliveryExists, NoDelivery
    <3> QED BY <3>1, <3>2
  <2>2. CASE relays[r].status = "ready"
    BY <2>1, <2>2 DEF ClaimInv, CountMatchesDeliveries
  <2>3. CASE relays[r].status # "ready"
    <3>1. relays[r].status \in {"unused", "collecting"}
      BY <1>0, <2>3 DEF RowLife, TypeOK, Row, RowStatus
    <3>2. Sent(deliveries) = {}
      BY <3>1, DeliveredRelay DEF DeliveryExists
    <3>3. claimed[r] = 0
      BY <3>1 DEF ClaimInv, NothingClaimedYet
    <3> QED BY <2>1, <3>2, <3>3, FS_EmptySet
  <2> QED BY <2>2, <2>3
<1>15. LookupsRight'
  BY <1>4 DEF LookupsRight
<1> QED BY <1>1, <1>2, <1>5, <1>7, <1>8, <1>9, <1>13, <1>14, <1>15 DEF ClaimInv

-----------------------------------------------------------------------------
(* Steps of handlers that touch nothing shared but the code cache.         *)

(* Where a handler may go without a delivery: onwards with a relay it could *)
(* claim, or to the end.                                                   *)
MovesOn(h) ==
    LET c == claimer'[h]
        r == claimer'[h].relay
    IN  /\ c.pc \notin Sending
        /\ c.pc # "idle" =>
              /\ c.req \in Request
              /\ c.now <= clock /\ clock <= c.now + MaxHandling
        /\ c.pc \in LookedUp \cup {"byId"} => r \in RelayId /\ relays[r].code = Wanted[c.req]
        /\ c.pc \in LookedUp => relays[r].expiresAt > c.now
        /\ c.pc = "create" => c.files # {} /\ (Exists(r) => c.files = ItemsOf(r))
        /\ c.pc \in LookedUp =>
              \/ claimer[h].pc \in LookedUp /\ claimer[h].req = c.req
              \/ relays[r].status = "ready"

LEMMA ClaimersMove ==
    ASSUME StoreFacts, ClaimInv,
           UNCHANGED <<relays, items, deliveries, claimed, sends, inbox, clock>>, TypeOK',
           claimer' \in [Claimer -> ClaimerState],
           \A h \in Claimer : claimer'[h] = claimer[h] \/ MovesOn(h),
           codeEntries' \in [Code -> CacheEntry], CacheRight',
           cycle' \in [pc : {"idle", "expire", "unknown", "purge"}, now : Nat],
           cycle'.now <= clock, claimFaults' \in 0 .. MaxClaimFaults
    PROVE  ClaimInv'
<1>1. ClaimTypeOK'
  BY DEF ClaimInv, ClaimTypeOK
<1>2. Timely'
  BY DEF ClaimInv, Timely, MovesOn
<1>3. ASSUME NEW h \in Claimer PROVE LookupRight(h)'
  <2>1. CASE claimer'[h] = claimer[h]
    BY <2>1 DEF ClaimInv, LookupsRight, LookupRight, WantedCode, Exists, ItemsOf
  <2>2. CASE MovesOn(h)
    BY <2>2 DEF MovesOn, LookupRight, LookedUp, Sending, WantedCode, Exists, ItemsOf
  <2> QED BY <2>1, <2>2
<1>4. DeliveriesRight' /\ SentMeansReceived' /\ NothingClaimedYet' /\ CountMatchesDeliveries'
  BY DEF ClaimInv, DeliveriesRight, DeliveryExists, SentMeansReceived, NothingClaimedYet,
         CountMatchesDeliveries, Exists, ItemsOf
<1>5. \A h \in Claimer : claimer'[h].pc \in Sending => claimer'[h] = claimer[h]
  BY DEF MovesOn
<1>6. \A q \in Request : Taken(q)' => Taken(q)
  BY <1>5 DEF Taken
<1>7. ASSUME NEW q \in Request, Spent(q) PROVE Spent(q)'
  <2>1. PICK r \in RelayId :
            /\ relays[r].code = Wanted[q] /\ relays[r].status \in {"expired", "deleted"}
            /\ \A h \in Claimer : claimer[h].req = q /\ claimer[h].pc \in LookedUp
                                  => relays[r].status = "deleted"
    BY <1>7 DEF Spent
  <2>2. ASSUME NEW h \in Claimer, claimer'[h].req = q, claimer'[h].pc \in LookedUp
        PROVE  relays[r].status = "deleted"
    <3>1. CASE claimer[h].req = q /\ claimer[h].pc \in LookedUp
      BY <2>1, <3>1
    <3>2. CASE ~(claimer[h].req = q /\ claimer[h].pc \in LookedUp)
      <4> DEFINE n == claimer'[h].relay
      <4>1. n \in RelayId /\ relays[n].code = Wanted[q] /\ relays[n].status = "ready"
        BY <2>2, <3>2 DEF MovesOn
      <4>2. n = r
        BY <2>1, <4>1, SameCodeSameRelay, WantedIsCode
      <4> QED BY <2>1, <4>1, <4>2
    <3> QED BY <3>1, <3>2
  <2> QED BY <2>1, <2>2 DEF Spent
<1>8. \A h \in Claimer : SenderRight(h)'
  <2> TAKE h \in Claimer
  <2>1. CASE claimer'[h].pc \in Sending
    BY <1>5, <2>1 DEF ClaimInv, OneSender, SenderRight, DeliveryExists
  <2>2. CASE claimer'[h].pc \notin Sending
    BY <2>2 DEF SenderRight, Sending
  <2> QED BY <2>1, <2>2
<1>9. OneSender'
  BY <1>5, <1>6, <1>7, <1>8 DEF ClaimInv, OneSender, DeliveryExists
<1>10. LookupsRight'
  BY <1>3 DEF LookupsRight
<1> QED BY <1>1, <1>2, <1>4, <1>9, <1>10 DEF ClaimInv

(* What the ways on do to the handlers. *)
LEMMA ClaimGoEffect ==
    ASSUME ClaimTypeOK, NEW h \in Claimer, NEW pc \in ClaimStep, ClaimGo(h, pc)
    PROVE  /\ claimer' \in [Claimer -> ClaimerState]
           /\ claimer'[h] = [claimer[h] EXCEPT !.pc = pc]
           /\ claimer'[h].pc = pc /\ claimer'[h].req = claimer[h].req
           /\ claimer'[h].now = claimer[h].now /\ claimer'[h].relay = claimer[h].relay
           /\ claimer'[h].files = claimer[h].files
           /\ \A g \in Claimer \ {h} : claimer'[g] = claimer[g]
<1>1. claimer \in [Claimer -> ClaimerState]
  BY DEF ClaimTypeOK
<1> QED BY <1>1 DEF ClaimGo, ClaimerState

LEMMA ClaimReturnEffect ==
    ASSUME ClaimTypeOK, NEW h \in Claimer, ClaimReturn(h)
    PROVE  /\ claimer' \in [Claimer -> ClaimerState]
           /\ claimer'[h] = IdleClaimer /\ claimer'[h].pc = "idle"
           /\ \A g \in Claimer \ {h} : claimer'[g] = claimer[g]
<1>1. claimer \in [Claimer -> ClaimerState] /\ IdleClaimer \in ClaimerState
  BY DEF ClaimTypeOK, IdleClaimer, ClaimerState, ClaimStep
<1> QED BY <1>1 DEF ClaimReturn, IdleClaimer

(* Looking up, listing, giving up and failing. *)
LEMMA ReadingSteps ==
    ASSUME StoreFacts, StoreFacts', ClaimInv, NEW h \in Claimer,
           \/ ReceiveClaim(h) \/ LookupCached(h) \/ LookupById(h) \/ LookupByCode(h)
           \/ WarmCache(h) \/ ListItems(h) \/ ReplyNotFound(h) \/ ClaimFails(h)
           \/ CreateDelivery(h) /\ UNCHANGED deliveries
    PROVE  ClaimInv'
<1> DEFINE Moved == /\ claimer' \in [Claimer -> ClaimerState]
                    /\ MovesOn(h)
                    /\ \A g \in Claimer \ {h} : claimer'[g] = claimer[g]
<1>0. /\ ClaimTypeOK /\ TypeOK /\ TypeOK' /\ claimer[h] \in ClaimerState
      /\ clock \in Nat /\ cycle.now <= clock
      /\ claimer[h].pc # "idle" =>
            /\ claimer[h].req \in Request /\ WantedCode(h) \in Code
            /\ claimer[h].now <= clock /\ clock <= claimer[h].now + MaxHandling
  BY WantedIsCode DEF ClaimInv, ClaimTypeOK, Timely, StoreFacts, StoreInv, WantedCode
<1>1. ASSUME ClaimReturn(h) PROVE Moved
  <2>1. /\ claimer' \in [Claimer -> ClaimerState] /\ claimer'[h].pc = "idle"
        /\ \A g \in Claimer \ {h} : claimer'[g] = claimer[g]
    BY <1>0, <1>1, ClaimReturnEffect
  <2> QED BY <2>1 DEF MovesOn, LookedUp, Sending
<1>2. ASSUME NEW pc \in {"byCode", "not_found"}, ClaimGo(h, pc), claimer[h].pc # "idle"
      PROVE  Moved
  <2>1. /\ claimer' \in [Claimer -> ClaimerState]
        /\ claimer'[h].pc = pc /\ claimer'[h].req = claimer[h].req
        /\ claimer'[h].now = claimer[h].now
        /\ \A g \in Claimer \ {h} : claimer'[g] = claimer[g]
    BY <1>0, <1>2, ClaimGoEffect DEF ClaimStep
  <2> QED BY <1>0, <1>2, <2>1 DEF MovesOn, LookedUp, Sending
<1>3. CASE ReceiveClaim(h)
  <2>1. PICK q \in Request :
            claimer' = [claimer EXCEPT ![h] =
                          [IdleClaimer EXCEPT !.pc = "cached", !.req = q, !.now = clock]]
    BY <1>3 DEF ReceiveClaim
  <2>2. [IdleClaimer EXCEPT !.pc = "cached", !.req = q, !.now = clock] \in ClaimerState
    BY <1>0 DEF IdleClaimer, ClaimerState, ClaimStep
  <2>3. /\ claimer' \in [Claimer -> ClaimerState]
        /\ \A g \in Claimer \ {h} : claimer'[g] = claimer[g]
        /\ claimer'[h] = [IdleClaimer EXCEPT !.pc = "cached", !.req = q, !.now = clock]
    BY <1>0, <2>1, <2>2 DEF ClaimTypeOK
  <2>4. claimer'[h].pc = "cached" /\ claimer'[h].req = q /\ claimer'[h].now = clock
    BY <2>3 DEF IdleClaimer
  <2>5. Moved
    BY <1>0, <2>3, <2>4, DelaysAreNat DEF MovesOn, LookedUp, Sending
  <2> QED BY <1>0, <1>3, <2>5, ClaimersMove
          DEF ReceiveClaim, ClaimInv, ClaimTypeOK, storeVars, CacheRight
<1>4. CASE LookupCached(h)
  <2>0. claimer[h].pc = "cached" /\ claimer[h].pc # "idle"
    BY <1>4 DEF LookupCached
  <2>1. ASSUME ClaimGo(h, "byCode") PROVE Moved
    BY <1>2, <2>0, <2>1
  <2>2. ASSUME codeEntries[WantedCode(h)] # NoEntry,
               claimer' = [claimer EXCEPT ![h].pc = "byId",
                                          ![h].relay = codeEntries[WantedCode(h)].relay]
        PROVE  Moved
    <3>1. /\ codeEntries[WantedCode(h)].relay \in RelayId
          /\ relays[codeEntries[WantedCode(h)].relay].code = WantedCode(h)
      BY <1>0, <1>4, <2>2 DEF LookupCached, ClaimInv, CacheRight
    <3>2. /\ claimer' \in [Claimer -> ClaimerState]
          /\ \A g \in Claimer \ {h} : claimer'[g] = claimer[g]
          /\ claimer'[h].pc = "byId" /\ claimer'[h].req = claimer[h].req
          /\ claimer'[h].now = claimer[h].now
          /\ claimer'[h].relay = codeEntries[WantedCode(h)].relay
      BY <1>0, <2>2, <3>1 DEF ClaimTypeOK, ClaimerState, ClaimStep
    <3> QED BY <1>0, <1>4, <3>1, <3>2 DEF LookupCached, MovesOn, LookedUp, Sending, WantedCode
  <2> HIDE DEF Moved
  <2>3. Moved
    <3>1. \/ ClaimGo(h, "byCode")
          \/ /\ codeEntries[WantedCode(h)] # NoEntry
             /\ claimer' = [claimer EXCEPT ![h].pc = "byId",
                                           ![h].relay = codeEntries[WantedCode(h)].relay]
      BY <1>4, Zenon DEF LookupCached
    <3> QED BY <2>1, <2>2, <3>1
  <2> USE DEF Moved
  <2>4. claimFaults' \in 0 .. MaxClaimFaults
    BY <1>0, <1>4, DelaysAreNat DEF LookupCached, ClaimFault, ClaimTypeOK
  <2> QED BY <1>0, <1>4, <2>3, <2>4, ClaimersMove
          DEF LookupCached, readOnly, ClaimInv, ClaimTypeOK, storeVars, CacheRight
<1>5. CASE LookupById(h)
  <2> DEFINE r == claimer[h].relay
  <2>1. ASSUME Claimable(r, claimer[h].now), ClaimGo(h, "list") PROVE Moved
    <3>1. /\ claimer' \in [Claimer -> ClaimerState] /\ claimer'[h].pc = "list"
          /\ claimer'[h].req = claimer[h].req /\ claimer'[h].now = claimer[h].now
          /\ claimer'[h].relay = claimer[h].relay
          /\ \A g \in Claimer \ {h} : claimer'[g] = claimer[g]
      BY <1>0, <2>1, ClaimGoEffect DEF ClaimStep
    <3>2. r \in RelayId /\ relays[r].code = WantedCode(h)
      BY <1>5 DEF LookupById, ClaimInv, LookupsRight, LookupRight
    <3> QED BY <1>0, <1>5, <2>1, <3>1, <3>2
            DEF LookupById, Claimable, MovesOn, LookedUp, Sending, WantedCode
  <2>2. Moved
    BY <1>1, <1>2, <1>5, <2>1 DEF LookupById
  <2> QED BY <1>0, <1>5, <2>2, ClaimersMove
          DEF LookupById, readOnly, ClaimInv, ClaimTypeOK, storeVars, CacheRight
<1>6. CASE LookupByCode(h)
  <2>1. ASSUME NEW r \in RelayId, relays[r].code = WantedCode(h), Claimable(r, claimer[h].now),
               claimer' = [claimer EXCEPT ![h].pc = "warm", ![h].relay = r]
        PROVE  Moved
    <3>1. /\ claimer' \in [Claimer -> ClaimerState] /\ claimer'[h].pc = "warm"
          /\ claimer'[h].req = claimer[h].req /\ claimer'[h].now = claimer[h].now
          /\ claimer'[h].relay = r
          /\ \A g \in Claimer \ {h} : claimer'[g] = claimer[g]
      BY <1>0, <2>1 DEF ClaimTypeOK, ClaimerState, ClaimStep
    <3> QED BY <1>0, <1>6, <2>1, <3>1
            DEF LookupByCode, Claimable, MovesOn, LookedUp, Sending, WantedCode
  <2>2. Moved
    BY <1>1, <1>6, <2>1 DEF LookupByCode
  <2> QED BY <1>0, <1>6, <2>2, ClaimersMove
          DEF LookupByCode, readOnly, ClaimInv, ClaimTypeOK, storeVars, CacheRight
<1>7. CASE WarmCache(h)
  <2> DEFINE r == claimer[h].relay
             deadline == clock + (relays[r].expiresAt - claimer[h].now)
  <2>1. /\ claimer' \in [Claimer -> ClaimerState] /\ claimer'[h].pc = "list"
        /\ claimer'[h].req = claimer[h].req /\ claimer'[h].now = claimer[h].now
        /\ claimer'[h].relay = claimer[h].relay
        /\ \A g \in Claimer \ {h} : claimer'[g] = claimer[g]
    BY <1>0, <1>7, ClaimGoEffect DEF WarmCache, ClaimStep
  <2>2. /\ r \in RelayId /\ relays[r].code = WantedCode(h)
        /\ relays[r].expiresAt > claimer[h].now
    BY <1>7 DEF WarmCache, ClaimInv, LookupsRight, LookupRight, LookedUp
  <2>3. Moved
    BY <1>0, <1>7, <2>1, <2>2 DEF WarmCache, MovesOn, LookedUp, Sending, WantedCode
  <2>4. deadline \in Nat
    BY <1>0, <2>2 DEF TypeOK, Row, ClaimerState
  <2> HIDE DEF deadline
  <2>5. [relay |-> r, deadline |-> deadline] \in CacheEntry
    BY <2>2, <2>4 DEF CacheEntry
  <2>6. codeEntries' \in [Code -> CacheEntry] /\ CacheRight'
    <3>1. CASE codeEntries' = [codeEntries EXCEPT ![WantedCode(h)] =
                               [relay |-> r, deadline |-> deadline]]
      BY <1>0, <1>7, <2>2, <2>5, <3>1
         DEF WarmCache, readOnly, storeVars, ClaimInv, ClaimTypeOK, CacheRight
    <3>2. CASE codeEntries' = codeEntries
      BY <1>7, <3>2 DEF WarmCache, readOnly, storeVars, ClaimInv, ClaimTypeOK, CacheRight
    <3> QED BY <1>7, <3>1, <3>2 DEF WarmCache, deadline
  <2>7. claimFaults' \in 0 .. MaxClaimFaults
    BY <1>0, <1>7, DelaysAreNat DEF WarmCache, ClaimFault, ClaimTypeOK
  <2> QED BY <1>0, <1>7, <2>3, <2>6, <2>7, ClaimersMove
          DEF WarmCache, readOnly, ClaimInv, ClaimTypeOK, storeVars
<1>8. CASE ListItems(h)
  <2> DEFINE files == ItemsOf(claimer[h].relay)
  <2>1. ASSUME files # {},
               claimer' = [claimer EXCEPT ![h].pc = "create", ![h].files = files]
        PROVE  Moved
    <3>1. files \in SUBSET Update
      BY DEF ItemsOf
    <3>2. /\ claimer' \in [Claimer -> ClaimerState] /\ claimer'[h].pc = "create"
          /\ claimer'[h].req = claimer[h].req /\ claimer'[h].now = claimer[h].now
          /\ claimer'[h].relay = claimer[h].relay /\ claimer'[h].files = files
          /\ \A g \in Claimer \ {h} : claimer'[g] = claimer[g]
      BY <1>0, <2>1, <3>1 DEF ClaimTypeOK, ClaimerState, ClaimStep
    <3>3. LookupRight(h) /\ claimer[h].pc = "list"
      BY <1>8 DEF ListItems, ClaimInv, LookupsRight
    <3> QED BY <1>0, <2>1, <3>2, <3>3
            DEF LookupRight, MovesOn, LookedUp, Sending, WantedCode
  <2>2. Moved
    BY <1>1, <1>8, <2>1 DEF ListItems
  <2> QED BY <1>0, <1>8, <2>2, ClaimersMove
          DEF ListItems, readOnly, ClaimInv, ClaimTypeOK, storeVars, CacheRight
<1>9. CASE ReplyNotFound(h)
  BY <1>0, <1>1, <1>9, ClaimersMove
     DEF ReplyNotFound, readOnly, ClaimInv, ClaimTypeOK, storeVars, CacheRight
<1>10. CASE ClaimFails(h)
  <2>1. claimFaults' \in 0 .. MaxClaimFaults
    BY <1>0, <1>10, DelaysAreNat DEF ClaimFails, ClaimFault, ClaimTypeOK
  <2> QED BY <1>0, <1>1, <1>10, <2>1, ClaimersMove
          DEF ClaimFails, readOnly, ClaimInv, ClaimTypeOK, storeVars, CacheRight
<1>11. CASE CreateDelivery(h) /\ UNCHANGED deliveries
  <2>1. ~InsertDelivery(h) \/ Requested(claimer[h].req)
    <3>1. CASE InsertDelivery(h)
      <4>1. claimer[h].req \in Request /\ deliveries' = deliveries
        BY <1>0, <1>11 DEF CreateDelivery
      <4>2. deliveries'[claimer[h].req].status = "pending"
        BY <1>0, <3>1, <4>1 DEF InsertDelivery, ClaimTypeOK
      <4> QED BY <4>1, <4>2 DEF Requested, DeliveryExists
    <3> QED BY <3>1
  <2>2. Moved
    BY <1>1, <1>2, <1>11, <2>1 DEF CreateDelivery
  <2> QED BY <1>0, <1>11, <2>2, ClaimersMove
          DEF CreateDelivery, ClaimInv, ClaimTypeOK, storeVars, CacheRight
<1> QED BY <1>3, <1>4, <1>5, <1>6, <1>7, <1>8, <1>9, <1>10, <1>11

-----------------------------------------------------------------------------
(* Steps of the one handler that has a claim's delivery.                   *)

(* Everything but what belongs to the claim of h stays as it is. *)
OnlyClaimOf(h) ==
    /\ \A g \in Claimer \ {h} :
          /\ claimer'[g] = claimer[g]
          /\ claimer[g].pc \in Sending => claimer[g].req # claimer[h].req
    /\ \A q \in Request \ {claimer[h].req} :
          deliveries'[q] = deliveries[q] /\ sends'[q] = sends[q] /\ inbox'[q] = inbox[q]

(* h has returned, or sends. *)
EndsOrSends(h) ==
    \/ claimer'[h].pc = "idle"
    \/ /\ claimer'[h].pc \in Sending
       /\ claimer'[h].req = claimer[h].req /\ claimer'[h].now = claimer[h].now
       /\ claimer'[h].relay = claimer[h].relay /\ claimer'[h].files = claimer[h].files

LEMMA OneClaimMoves ==
    ASSUME StoreFacts, ClaimInv, ClaimTypeOK',
           UNCHANGED <<relays, items, codeEntries, clock, cycle>>,
           NEW h \in Claimer, claimer[h].pc \in Sending \cup {"create"},
           OnlyClaimOf(h), EndsOrSends(h),
           NEW q, q = claimer[h].req,
           deliveries'[q].status # "none" => /\ deliveries'[q].relay = claimer[h].relay
                                             /\ Exists(claimer[h].relay),
           deliveries'[q].status # "none" \/ Spent(q),
           sends'[q] <= 1, sends'[q] = 0 => inbox'[q] = {},
           SenderRight(h)',
           deliveries'[q].status = "sent" =>
              inbox'[q] # {} /\ inbox'[q] = ItemsOf(claimer[h].relay),
           NothingClaimedYet', CountMatchesDeliveries'
    PROVE  ClaimInv'
<1>0. /\ q \in Request /\ WantedCode(h) = Wanted[q] /\ claimer[h].relay \in RelayId
      /\ relays[claimer[h].relay].code = Wanted[q]
  BY HandlersRelay DEF LookedUp, WantedCode
<1>1. Timely'
  BY DEF ClaimInv, Timely, OnlyClaimOf, EndsOrSends, Sending
<1>2. ASSUME NEW g \in Claimer PROVE LookupRight(g)'
  <2>1. LookupRight(g)
    BY DEF ClaimInv, LookupsRight
  <2>2. CASE g # h
    BY <2>1, <2>2 DEF OnlyClaimOf, LookupRight, WantedCode, Exists, ItemsOf
  <2>3. CASE g = h
    BY <2>1, <2>3 DEF EndsOrSends, LookupRight, WantedCode, Exists, ItemsOf, LookedUp, Sending
  <2> QED BY <2>2, <2>3
<1>3. CacheRight'
  BY DEF ClaimInv, CacheRight
<1>4. ASSUME NEW p \in Request, DeliveryExists(p)'
      PROVE  LET r == deliveries'[p].relay
             IN  r \in RelayId /\ Exists(r) /\ relays[r].code = Wanted[p]
  <2>1. CASE p = q
    BY <1>0, <1>4, <2>1 DEF DeliveryExists
  <2>2. CASE p # q
    BY <1>4, <2>2 DEF OnlyClaimOf, ClaimInv, DeliveriesRight, DeliveryExists
  <2> QED BY <2>1, <2>2
<1>5. DeliveriesRight'
  BY <1>4 DEF DeliveriesRight, Exists
<1>6. SentMeansReceived'
  <2> SUFFICES ASSUME NEW p \in Request, deliveries'[p].status = "sent"
               PROVE  inbox'[p] # {} /\ inbox'[p] = ItemsOf(deliveries'[p].relay)
    BY DEF SentMeansReceived, ItemsOf
  <2>1. CASE p = q
    <3>1. deliveries'[q].relay = claimer[h].relay
      BY <2>1
    <3> QED BY <2>1, <3>1
  <2>2. CASE p # q
    BY <2>2 DEF OnlyClaimOf, ClaimInv, SentMeansReceived
  <2> QED BY <2>1, <2>2
<1>7. ASSUME NEW p \in Request, Spent(p) PROVE Spent(p)'
  <2>1. \A g \in Claimer : claimer'[g].pc \in LookedUp => claimer'[g] = claimer[g]
    BY DEF OnlyClaimOf, EndsOrSends, LookedUp, Sending
  <2> QED BY <1>7, <2>1 DEF Spent
<1>8. ASSUME NEW p \in Request, Taken(p)' PROVE DeliveryExists(p)' \/ Spent(p)'
  <2>1. CASE p = q
    BY <1>0, <1>7, <2>1 DEF DeliveryExists
  <2>2. CASE p # q
    <3>1. Taken(p)
      BY <1>8, <2>2 DEF Taken, OnlyClaimOf, EndsOrSends, Sending
    <3> QED BY <1>7, <2>2, <3>1 DEF ClaimInv, OneSender, OnlyClaimOf, DeliveryExists
  <2> QED BY <2>1, <2>2
<1>9. ASSUME NEW g \in Claimer PROVE SenderRight(g)'
  <2>1. CASE g = h
    BY <2>1
  <2>2. CASE g # h /\ claimer[g].pc \in Sending
    <3>1. claimer'[g] = claimer[g] /\ claimer[g].req \in Request \ {q}
      BY <2>2 DEF OnlyClaimOf, ClaimInv, Timely, Sending
    <3>2. SenderRight(g)
      BY DEF ClaimInv, OneSender
    <3> QED BY <3>1, <3>2 DEF SenderRight, OnlyClaimOf, DeliveryExists
  <2>3. CASE g # h /\ claimer[g].pc \notin Sending
    BY <2>3 DEF OnlyClaimOf, SenderRight, Sending
  <2> QED BY <2>1, <2>2, <2>3
<1>10. \A f, g \in Claimer :
          /\ claimer'[f].pc \in Sending /\ claimer'[g].pc \in Sending
          /\ claimer'[f].req = claimer'[g].req
          => f = g
  BY DEF ClaimInv, OneSender, OnlyClaimOf, EndsOrSends, Sending
<1>11. OneSender'
  <2>1. \A p \in Request : sends'[p] <= 1 /\ (sends'[p] = 0 => inbox'[p] = {})
    BY DEF ClaimInv, OneSender, OnlyClaimOf
  <2> QED BY <1>8, <1>9, <1>10, <2>1 DEF OneSender
<1>12. LookupsRight'
  BY <1>2 DEF LookupsRight
<1> QED BY <1>1, <1>3, <1>5, <1>6, <1>11, <1>12 DEF ClaimInv

(* As long as no delivery becomes or stops being one that is recorded as   *)
(* sent, the counts stay right.                                            *)
LEMMA CountsStay ==
    ASSUME ClaimInv, UNCHANGED <<relays, claimed>>,
           \A q \in Request :
              \/ deliveries'[q] = deliveries[q]
              \/ deliveries[q].status # "sent" /\ deliveries'[q].status # "sent"
    PROVE  NothingClaimedYet' /\ CountMatchesDeliveries'
<1>1. \A r \in RelayId :
          {q \in Request : deliveries'[q].relay = r /\ deliveries'[q].status = "sent"}
          = {q \in Request : deliveries[q].relay = r /\ deliveries[q].status = "sent"}
  OBVIOUS
<1> QED BY <1>1 DEF ClaimInv, NothingClaimedYet, CountMatchesDeliveries

(* The claim gets its row. *)
LEMMA InsertStep ==
    ASSUME StoreFacts, StoreFacts', ClaimInv, NEW h \in Claimer,
           claimer[h].pc = "create", ~Requested(claimer[h].req), Exists(claimer[h].relay),
           InsertDelivery(h), ClaimGo(h, "send") \/ ClaimReturn(h),
           UNCHANGED <<relays, items, claimed, codeEntries, sends, inbox, clock, cycle>>,
           claimFaults' \in 0 .. MaxClaimFaults
    PROVE  ClaimInv'
<1> DEFINE q == claimer[h].req
           r == claimer[h].relay
<1>0. /\ ClaimTypeOK /\ TypeOK' /\ q \in Request /\ r \in RelayId
      /\ relays[r].code = Wanted[q] /\ ~DeliveryExists(q)
      /\ claimer[h] \in ClaimerState
  BY HandlersRelay DEF ClaimInv, ClaimTypeOK, LookedUp, WantedCode, Requested,
                       StoreFacts, StoreInv
<1>1. /\ deliveries'[q] = [status |-> "pending", relay |-> r, createdAt |-> claimer[h].now]
      /\ \A p \in Request \ {q} : deliveries'[p] = deliveries[p]
      /\ deliveries' \in [Request -> Delivery]
  BY <1>0 DEF InsertDelivery, ClaimTypeOK, Delivery, ClaimerState
<1>2. /\ claimer' \in [Claimer -> ClaimerState]
      /\ \A g \in Claimer \ {h} : claimer'[g] = claimer[g]
      /\ \/ claimer'[h].pc = "idle"
         \/ /\ claimer'[h].pc = "send" /\ claimer'[h].req = q
            /\ claimer'[h].now = claimer[h].now /\ claimer'[h].relay = r
            /\ claimer'[h].files = claimer[h].files
  BY <1>0, ClaimGoEffect, ClaimReturnEffect DEF ClaimStep
<1>3. ~Taken(q)
  <2> SUFFICES ASSUME Taken(q) PROVE FALSE
    OBVIOUS
  <2>1. Spent(q)
    BY <1>0 DEF ClaimInv, OneSender
  <2>2. PICK s \in RelayId : relays[s].code = Wanted[q] /\ relays[s].status = "deleted"
    BY <2>1 DEF Spent, LookedUp
  <2>3. s = r
    BY <1>0, <2>2, SameCodeSameRelay, WantedIsCode
  <2> QED BY <2>2, <2>3 DEF Exists, RowStatus
<1>4. sends[q] = 0 /\ inbox[q] = {}
  BY <1>0, <1>3 DEF Taken, ClaimInv, ClaimTypeOK, OneSender
<1>5. ClaimTypeOK'
  BY <1>0, <1>1, <1>2 DEF ClaimTypeOK
<1>6. OnlyClaimOf(h)
  BY <1>1, <1>2, <1>3 DEF OnlyClaimOf, Taken
<1>7. EndsOrSends(h)
  BY <1>2 DEF EndsOrSends, Sending
<1>8. deliveries'[q].status = "pending"
  BY <1>1
<1>9. SenderRight(h)'
  BY <1>1, <1>2, <1>4, <1>8 DEF SenderRight, Sending, DeliveryExists
<1>10. NothingClaimedYet' /\ CountMatchesDeliveries'
  BY <1>0, <1>1, CountsStay DEF DeliveryExists
<1> QED BY <1>0, <1>1, <1>4, <1>5, <1>6, <1>7, <1>8, <1>9, <1>10, OneClaimMoves DEF Sending

(* The page of a claim is sent for the first time. *)
LEMMA SendStep ==
    ASSUME StoreFacts, StoreFacts', ClaimInv, NEW h \in Claimer, SendPage(h)
    PROVE  ClaimInv'
<1> DEFINE q == claimer[h].req
           r == claimer[h].relay
<1>0. /\ ClaimTypeOK /\ TypeOK' /\ q \in Request /\ claimer[h].pc = "send"
      /\ claimer[h] \in ClaimerState /\ (DeliveryExists(q) => deliveries[q].relay = r)
  BY HandlersRelay DEF ClaimInv, ClaimTypeOK, SendPage, Sending, StoreFacts, StoreInv
<1>1. PICK files \in SUBSET claimer[h].files, result \in {"sent", "failed", "unknown"} :
          /\ Arrives(h, files) /\ ClaimGo(h, result)
          /\ result = "sent" => files = claimer[h].files
  BY DEF SendPage, SendResult
<1>2. /\ sends' = [sends EXCEPT ![q] = @ + 1] /\ inbox' = [inbox EXCEPT ![q] = @ \cup files]
      /\ UNCHANGED <<relays, items, tx, deliveries, claimed, codeEntries, clock, cycle, claimFaults>>
  BY <1>1 DEF SendPage, Arrives, storeVars
<1>3. sends[q] = 0 /\ inbox[q] = {} /\ SenderRight(h)
  BY <1>0 DEF ClaimInv, OneSender, SenderRight
<1>4. /\ sends'[q] = 1 /\ inbox'[q] = files
      /\ \A p \in Request \ {q} : sends'[p] = sends[p] /\ inbox'[p] = inbox[p]
      /\ sends' \in [Request -> Nat] /\ inbox' \in [Request -> SUBSET Update]
  BY <1>0, <1>2, <1>3 DEF ClaimTypeOK, ClaimerState
<1>5. /\ claimer' \in [Claimer -> ClaimerState]
      /\ \A g \in Claimer \ {h} : claimer'[g] = claimer[g]
      /\ claimer'[h].pc = result /\ claimer'[h].req = q
      /\ claimer'[h].now = claimer[h].now /\ claimer'[h].relay = r
      /\ claimer'[h].files = claimer[h].files
  BY <1>0, <1>1, ClaimGoEffect DEF ClaimStep
<1>6. ClaimTypeOK'
  BY <1>0, <1>2, <1>4, <1>5 DEF ClaimTypeOK
<1>7. \A g \in Claimer \ {h} : claimer[g].pc \in Sending => claimer[g].req # q
  BY <1>0 DEF ClaimInv, OneSender, Sending
<1>8. OnlyClaimOf(h) /\ EndsOrSends(h)
  BY <1>2, <1>4, <1>5, <1>7 DEF OnlyClaimOf, EndsOrSends, Sending
<1>9. DeliveryExists(q) \/ Spent(q)
  BY <1>0 DEF ClaimInv, OneSender, Taken, Sending
<1>10. SenderRight(h)'
  BY <1>0, <1>1, <1>2, <1>3, <1>4, <1>5 DEF SenderRight, Sending, DeliveryExists
<1>11. (deliveries'[q].status # "none") <=> DeliveryExists(q)
  BY <1>2 DEF DeliveryExists
<1>12. DeliveryExists(q) => Exists(r) /\ deliveries'[q].relay = r
  BY <1>0, <1>2 DEF ClaimInv, DeliveriesRight
<1>13. deliveries'[q].status # "sent"
  BY <1>0, <1>2, <1>3 DEF SenderRight, Sending
<1>14. NothingClaimedYet' /\ CountMatchesDeliveries'
  BY <1>2, CountsStay
<1> QED BY <1>0, <1>2, <1>4, <1>6, <1>8, <1>9, <1>10, <1>11, <1>12, <1>13, <1>14,
           OneClaimMoves DEF Sending

(* What Marked does to the row of a handler that has its result. *)
LEMMA MarkedRow ==
    ASSUME StoreFacts, ClaimInv, NEW h \in Claimer, claimer[h].pc \in Sending,
           NEW status \in {"sent", "failed", "unknown"},
           deliveries' = Marked(claimer[h].req, status)
    PROVE  LET q == claimer[h].req
           IN  /\ q \in Request
               /\ deliveries' \in [Request -> Delivery]
               /\ \A p \in Request \ {q} : deliveries'[p] = deliveries[p]
               /\ deliveries'[q].relay = deliveries[q].relay
               /\ deliveries[q].status # "sent"
               /\ DeliveryExists(q) => deliveries'[q].status = status
               /\ ~DeliveryExists(q) => deliveries'[q] = deliveries[q]
               /\ (deliveries'[q].status # "none") <=> DeliveryExists(q)
<1> DEFINE q == claimer[h].req
<1>1. q \in Request /\ deliveries \in [Request -> Delivery] /\ SenderRight(h)
  BY HandlersRelay DEF ClaimInv, ClaimTypeOK, OneSender
<1>2. deliveries[q].status # "sent"
  BY <1>1 DEF SenderRight
<1>3. CASE DeliveryExists(q)
  BY <1>1, <1>2, <1>3 DEF Marked, DeliveryExists, Delivery
<1>4. CASE ~DeliveryExists(q)
  BY <1>1, <1>2, <1>4 DEF Marked, DeliveryExists
<1> QED BY <1>3, <1>4

(* A result is recorded and the handler returns. *)
LEMMA MarkStep ==
    ASSUME StoreFacts, StoreFacts', ClaimInv, NEW h \in Claimer,
           claimer[h].pc \in {"sent", "failed", "unknown"},
           deliveries' = Marked(claimer[h].req, claimer[h].pc),
           claimed' = IF claimer[h].pc = "sent" THEN CountedUp(claimer[h].relay) ELSE claimed,
           ClaimReturn(h), UNCHANGED <<relays, items, codeEntries, sends, inbox, clock, cycle>>,
           claimFaults' \in 0 .. MaxClaimFaults
    PROVE  ClaimInv'
<1> DEFINE q == claimer[h].req
           r == claimer[h].relay
<1>0. /\ ClaimTypeOK /\ TypeOK' /\ q \in Request /\ r \in RelayId
      /\ (DeliveryExists(q) => deliveries[q].relay = r) /\ relays[r].code = Wanted[q]
      /\ claimer[h].pc \in Sending
  BY HandlersRelay DEF ClaimInv, ClaimTypeOK, Sending, StoreFacts, StoreInv, WantedCode
<1>1. /\ deliveries' \in [Request -> Delivery]
      /\ \A p \in Request \ {q} : deliveries'[p] = deliveries[p]
      /\ deliveries'[q].relay = deliveries[q].relay
      /\ deliveries[q].status # "sent"
      /\ DeliveryExists(q) => deliveries'[q].status = claimer[h].pc
      /\ ~DeliveryExists(q) => deliveries'[q] = deliveries[q]
      /\ (deliveries'[q].status # "none") <=> DeliveryExists(q)
  BY <1>0, MarkedRow
<1>2. /\ claimer' \in [Claimer -> ClaimerState] /\ claimer'[h].pc = "idle"
      /\ \A g \in Claimer \ {h} : claimer'[g] = claimer[g]
  BY <1>0, ClaimReturnEffect
<1>3. claimed' \in [RelayId -> Nat]
  BY <1>0 DEF CountedUp, ClaimTypeOK
<1>4. ClaimTypeOK'
  BY <1>0, <1>1, <1>2, <1>3 DEF ClaimTypeOK
<1>5. \A g \in Claimer \ {h} : claimer[g].pc \in Sending => claimer[g].req # q
  BY <1>0 DEF ClaimInv, OneSender
<1>6. OnlyClaimOf(h) /\ EndsOrSends(h)
  BY <1>1, <1>2, <1>5 DEF OnlyClaimOf, EndsOrSends
<1>7. DeliveryExists(q) \/ Spent(q)
  BY <1>0 DEF ClaimInv, OneSender, Taken
<1>8. SenderRight(h)'
  BY <1>2 DEF SenderRight, Sending
<1>9. /\ Exists(r) <=> DeliveryExists(q)
      /\ claimer[h].pc = "sent" => inbox[q] = claimer[h].files
      /\ claimer[h].files # {} /\ (Exists(r) => claimer[h].files = ItemsOf(r))
  <2>1. SenderRight(h) /\ LookupRight(h)
    BY DEF ClaimInv, OneSender, LookupsRight
  <2>2. DeliveryExists(q) => Exists(r)
    BY <1>0 DEF ClaimInv, DeliveriesRight
  <2> QED BY <1>0, <2>1, <2>2 DEF SenderRight, LookupRight, Exists, RowStatus
<1>10. deliveries'[q].status = "sent" => inbox'[q] # {} /\ inbox'[q] = ItemsOf(r)
  <2>1. deliveries'[q].status = "sent" => DeliveryExists(q) /\ claimer[h].pc = "sent"
    BY <1>1
  <2> QED BY <1>9, <2>1
<1>12. sends'[q] <= 1 /\ (sends'[q] = 0 => inbox'[q] = {})
  BY <1>0 DEF ClaimInv, OneSender
<1>13. deliveries'[q].status # "none" => deliveries'[q].relay = r /\ Exists(r)
  BY <1>0, <1>1, <1>9
<1>11. NothingClaimedYet' /\ CountMatchesDeliveries'
  <2>1. CASE claimer[h].pc = "sent" /\ DeliveryExists(q)
    <3>1. claimed' = [claimed EXCEPT ![r] = @ + 1] /\ claimed[r] \in Nat
      BY <1>0, <1>9, <2>1 DEF CountedUp, ClaimTypeOK
    <3>2. claimed'[r] = claimed[r] + 1 /\ \A s \in RelayId \ {r} : claimed'[s] = claimed[s]
      BY <1>0, <3>1 DEF ClaimTypeOK
    <3>3. relays[r].status \in {"ready", "expired"} /\ deliveries[q].relay = r
      BY <1>0, <2>1, DeliveredRelay
    <3>4. NothingClaimedYet'
      BY <3>2, <3>3 DEF ClaimInv, NothingClaimedYet
    <3>5. ASSUME NEW s \in RelayId, relays'[s].status = "ready"
          PROVE  claimed'[s] = Cardinality({p \in Request : /\ deliveries'[p].relay = s
                                                            /\ deliveries'[p].status = "sent"})
      <4> DEFINE Sent(d) == {p \in Request : d[p].relay = s /\ d[p].status = "sent"}
      <4>1. claimed[s] = Cardinality(Sent(deliveries))
        BY <3>5 DEF ClaimInv, CountMatchesDeliveries
      <4>2. CASE s # r
        <5>1. Sent(deliveries') = Sent(deliveries)
          BY <1>1, <3>3, <4>2
        <5> QED BY <3>2, <4>1, <4>2, <5>1
      <4>3. CASE s = r
        <5>1. Sent(deliveries') = Sent(deliveries) \cup {q} /\ q \notin Sent(deliveries)
          BY <1>0, <1>1, <2>1, <3>3, <4>3
        <5>2. IsFiniteSet(Sent(deliveries))
          BY FiniteRequests, FS_Subset
        <5> HIDE DEF Sent
        <5>3. Cardinality(Sent(deliveries')) = Cardinality(Sent(deliveries)) + 1
          BY <5>1, <5>2, FS_AddElement
        <5> QED BY <3>2, <4>1, <4>3, <5>3 DEF Sent
      <4> QED BY <4>2, <4>3
    <3> QED BY <3>4, <3>5 DEF CountMatchesDeliveries
  <2>2. CASE ~(claimer[h].pc = "sent" /\ DeliveryExists(q))
    <3>1. claimed' = claimed
      BY <1>9, <2>2 DEF CountedUp
    <3>2. \A p \in Request : \/ deliveries'[p] = deliveries[p]
                             \/ deliveries[p].status # "sent" /\ deliveries'[p].status # "sent"
      BY <1>1, <2>2
    <3> QED BY <3>1, <3>2, CountsStay
  <2> QED BY <2>1, <2>2
<1> QED BY <1>0, <1>1, <1>4, <1>6, <1>7, <1>8, <1>10, <1>11, <1>12, <1>13, OneClaimMoves

-----------------------------------------------------------------------------
(* Time, the worker and the uploads.                                       *)

LEMMA ClaimTickStep ==
    ASSUME StoreFacts, StoreFacts', ClaimInv, ClaimTick
    PROVE  ClaimInv'
<1>0. /\ ClaimTypeOK /\ TypeOK' /\ clock \in Nat /\ clock' = clock + 1 /\ clock < MaxClock
      /\ UNCHANGED <<relays, items, deliveries, claimed, claimer, sends, inbox, cycle, claimFaults>>
  BY DEF ClaimInv, ClaimTypeOK, ClaimTick, storeVars, StoreFacts, StoreInv
<1>1. /\ codeEntries' \in [Code -> CacheEntry]
      /\ \A c \in Code : codeEntries'[c] # NoEntry => codeEntries'[c] = codeEntries[c]
  BY <1>0 DEF ClaimTick, ClaimTypeOK, CacheEntry, NoEntry
<1>2. ClaimTypeOK'
  BY <1>0, <1>1, LifetimesPositive DEF ClaimTypeOK
<1>3. Timely'
  <2>1. \A h \in Claimer : claimer[h].pc # "idle" => clock < claimer[h].now + MaxHandling
    BY DEF ClaimTick, IdleClaimer
  <2>2. \A h \in Claimer : claimer[h].now \in Nat
    BY <1>0 DEF ClaimTypeOK, ClaimerState
  <2>3. cycle.now \in Nat
    BY <1>0 DEF ClaimTypeOK
  <2> QED BY <1>0, <2>1, <2>2, <2>3, DelaysAreNat DEF ClaimInv, Timely
<1>4. CacheRight'
  BY <1>0, <1>1 DEF ClaimInv, CacheRight
<1>5. LookupsRight' /\ DeliveriesRight' /\ SentMeansReceived' /\ NothingClaimedYet'
      /\ CountMatchesDeliveries'
  BY <1>0 DEF ClaimInv, LookupsRight, LookupRight, WantedCode, DeliveriesRight, DeliveryExists,
              SentMeansReceived, NothingClaimedYet, CountMatchesDeliveries, Exists, ItemsOf
<1>6. OneSender'
  BY <1>0 DEF ClaimInv, OneSender, Taken, Spent, SenderRight, DeliveryExists
<1> QED BY <1>2, <1>3, <1>4, <1>5, <1>6 DEF ClaimInv

(* A pending delivery becomes unknown: nobody's result is touched. *)
LEMMA MarkUnknownStep ==
    ASSUME StoreFacts, StoreFacts', ClaimInv, CycleMarkUnknown
    PROVE  ClaimInv'
<1>0. /\ ClaimTypeOK /\ TypeOK'
      /\ UNCHANGED <<relays, items, claimed, codeEntries, claimer, sends, inbox, clock>>
      /\ cycle' = [cycle EXCEPT !.pc = "purge"] /\ claimFaults' \in 0 .. MaxClaimFaults
  BY DelaysAreNat DEF ClaimInv, ClaimTypeOK, CycleMarkUnknown, ClaimFault, storeVars,
                      StoreFacts, StoreInv
<1>1. /\ deliveries' \in [Request -> Delivery]
      /\ \A q \in Request : \/ deliveries'[q] = deliveries[q]
                            \/ /\ deliveries[q].status = "pending"
                               /\ deliveries'[q].status = "unknown"
                               /\ deliveries'[q].relay = deliveries[q].relay
  <2>1. CASE deliveries' = deliveries
    BY <1>0, <2>1 DEF ClaimTypeOK
  <2>2. CASE MarkUnknownDeliveriesBefore(cycle.now - StaleAfter)
    <3>1. \A q \in Request :
             deliveries'[q] = IF q \in PendingBefore(cycle.now - StaleAfter)
                              THEN [deliveries[q] EXCEPT !.status = "unknown"]
                              ELSE deliveries[q]
      BY <2>2 DEF MarkUnknownDeliveriesBefore
    <3>2. DOMAIN deliveries' = Request /\ deliveries' = [q \in Request |-> deliveries'[q]]
      BY <2>2 DEF MarkUnknownDeliveriesBefore
    <3>3. \A q \in Request : deliveries[q] \in Delivery
      BY <1>0 DEF ClaimTypeOK
    <3>4. \A q \in PendingBefore(cycle.now - StaleAfter) : deliveries[q].status = "pending"
      BY DEF PendingBefore
    <3> QED BY <3>1, <3>2, <3>3, <3>4 DEF Delivery
  <2> QED BY <2>1, <2>2 DEF CycleMarkUnknown
<1>2. ClaimTypeOK'
  BY <1>0, <1>1 DEF ClaimTypeOK
<1>3. Timely' /\ LookupsRight' /\ CacheRight'
  <2>1. cycle'.now = cycle.now
    BY <1>0 DEF ClaimTypeOK
  <2> QED BY <1>0, <2>1 DEF ClaimInv, Timely, LookupsRight, LookupRight, WantedCode,
                            CacheRight, Exists, ItemsOf
<1>4. \A q \in Request : /\ DeliveryExists(q)' <=> DeliveryExists(q)
                         /\ deliveries'[q].relay = deliveries[q].relay
                         /\ deliveries'[q].status = "sent" <=> deliveries[q].status = "sent"
  BY <1>1 DEF DeliveryExists
<1>5. DeliveriesRight' /\ SentMeansReceived'
  BY <1>0, <1>4 DEF ClaimInv, DeliveriesRight, SentMeansReceived, Exists, ItemsOf
<1>6. NothingClaimedYet' /\ CountMatchesDeliveries'
  BY <1>0, <1>1, CountsStay
<1>7. \A q \in Request : (Taken(q)' <=> Taken(q)) /\ (Spent(q) => Spent(q)')
  BY <1>0 DEF Taken, Spent
<1>8. \A h \in Claimer : SenderRight(h)'
  <2> TAKE h \in Claimer
  <2>1. SenderRight(h)
    BY DEF ClaimInv, OneSender
  <2>2. CASE claimer[h].pc \in Sending
    <3>1. claimer[h].req \in Request
      BY <2>2, HandlersRelay
    <3> QED BY <1>0, <1>1, <1>4, <2>1, <3>1 DEF SenderRight
  <2>3. CASE claimer[h].pc \notin Sending
    BY <1>0, <2>3 DEF SenderRight, Sending
  <2> QED BY <2>2, <2>3
<1>9. OneSender'
  BY <1>0, <1>4, <1>7, <1>8 DEF ClaimInv, OneSender
<1> QED BY <1>2, <1>3, <1>5, <1>6, <1>9 DEF ClaimInv

(* Uploading and expiring delete no relay. *)
LEMMA NothingDeleted ==
    ASSUME StoreFacts, UploadStep \/ ExpireRelays(cycle.now), NEW r \in RelayId,
           relays[r].status # "deleted"
    PROVE  relays'[r].status # "deleted"
<1> DEFINE Stays == relays'[r].status # "deleted"
<1>0. TypeOK /\ OpenTransactions
  BY DEF StoreFacts, StoreInv
<1>1. ASSUME relays' = relays PROVE Stays
  BY <1>1
<1>2. ASSUME NEW q \in RelayId, NEW row, row.status # "deleted",
             relays' = [relays EXCEPT ![q] = row]
      PROVE  Stays
  BY <1>0, <1>2 DEF TypeOK
<1>3. ASSUME NEW t \in Tx, NEW q \in RelayId, NEW u \in Update, NEW c \in Code,
             NEW chat \in Chat, NEW at \in 0 .. clock,
             \/ CreateRelay(t, q, u, c, chat, at + RelayTTL, at)
             \/ CreateRelayOfFiledUpload(t, q, u, c, chat, at + RelayTTL, at)
      PROVE  Stays
  BY <1>1, <1>2, <1>3 DEF CreateRelay, CreateRelayOfFiledUpload, ReadyRow
<1>4. ASSUME NEW t \in Tx, CommitInsert(t) PROVE Stays
  <2>1. OpenTransaction(t) /\ tx[t] \in TxRecord /\ tx[t].op \in {"add", "create"}
    BY <1>0, <1>4, InsertedItem
  <2>2. tx[t].relay \in RelayId
    BY <2>1 DEF OpenTransaction
  <2>3. relays' = [relays EXCEPT ![tx[t].relay] = CommittedRow(t)]
    BY <1>4 DEF CommitInsert
  <2>4. CASE tx[t].op = "create"
    BY <1>0, <2>1, <2>2, <2>3, <2>4 DEF OpenTransaction, CommittedRow, TypeOK
  <2>5. CASE tx[t].op = "add"
    <3>1. relays[tx[t].relay] \in Row
      BY <1>0, <2>2 DEF TypeOK
    <3>2. CommittedRow(t).status = relays[tx[t].relay].status
      BY <2>5, <3>1 DEF CommittedRow, Row
    <3> QED BY <1>0, <2>2, <2>3, <3>2 DEF TypeOK
  <2> QED BY <2>1, <2>4, <2>5
<1>5. ASSUME NEW q \in RelayId, NEW chat \in Chat, NEW at \in 0 .. clock,
             CreateRelayBatch(q, chat, at)
      PROVE  Stays
  BY <1>0, <1>5 DEF CreateRelayBatch, TypeOK
<1>6. ASSUME NEW q \in RelayId, NEW c \in Code, NEW at \in 0 .. clock,
             FinalizeRelayBatch(q, c, at + RelayTTL, at)
      PROVE  Stays
  BY <1>0, <1>6 DEF FinalizeRelayBatch, TypeOK, Row
<1>7. CASE ExpireRelays(cycle.now)
  BY <1>0, <1>7 DEF ExpireRelays, TypeOK, Row
<1>8. CASE UploadStep
  BY <1>1, <1>3, <1>4, <1>5, <1>6, <1>8 DEF UploadStep, AddRelayItem, InsertItem, RollbackInsert
<1> QED BY <1>7, <1>8

(* Steps of uploads and of the worker's expiry take no delivery along. *)
LEMMA UploadAndExpireSteps ==
    ASSUME StoreFacts, StoreFacts', ClaimInv, \A r \in RelayId : RowLife(r),
           Upload \/ CycleExpire
    PROVE  ClaimInv'
<1>0. /\ ClaimTypeOK /\ cycle.now <= clock
      /\ UNCHANGED <<deliveries, claimed, codeEntries, claimer, sends, inbox, clock>>
      /\ cycle' \in [pc : {"idle", "expire", "unknown", "purge"}, now : Nat]
      /\ cycle'.now <= clock /\ claimFaults' \in 0 .. MaxClaimFaults
  BY DelaysAreNat DEF ClaimInv, ClaimTypeOK, Timely, Upload, CycleExpire, claimVars, ClaimFault
<1>1. RemoveDeliveries({})
  BY <1>0 DEF RemoveDeliveries, ClaimTypeOK
<1>2. ASSUME NEW q \in Request, DeliveryExists(q) PROVE Exists(deliveries[q].relay)'
  <2> DEFINE r == deliveries[q].relay
  <2>1. r \in RelayId /\ relays[r].status \in {"ready", "expired"}
    BY <1>2, DeliveredRelay
  <2>2. relays'[r].status # "deleted"
    <3>1. CASE UNCHANGED relays
      BY <2>1, <3>1
    <3>2. CASE UploadStep \/ ExpireRelays(cycle.now)
      BY <2>1, <3>2, NothingDeleted
    <3> QED BY <3>1, <3>2 DEF Upload, CycleExpire, storeVars
  <2>3. relays'[r].status \in {"ready", "expired"}
    BY <2>1, <2>2 DEF RowLife
  <2> QED BY <1>0, <2>3 DEF Exists, RowStatus
<1>3. Removable({})
  BY <1>2, <1>0 DEF Removable, Exists
<1> QED BY <1>0, <1>1, <1>3, RowsAndRemovals

(* A purged delivery's relay expired more than Retain ago, so no handler   *)
(* that arrived while it could be claimed is still at work.                *)
LEMMA PurgeStep ==
    ASSUME StoreFacts, StoreFacts', ClaimInv, \A r \in RelayId : RowLife(r), CyclePurge
    PROVE  ClaimInv'
<1>0. /\ ClaimTypeOK /\ TypeOK /\ cycle.now <= clock /\ clock \in Nat /\ cycle.now \in Nat
      /\ UNCHANGED <<relays, items, claimed, codeEntries, claimer, sends, inbox, clock>>
      /\ cycle' = [pc |-> "idle", now |-> 0] /\ claimFaults' \in 0 .. MaxClaimFaults
  BY DelaysAreNat DEF ClaimInv, ClaimTypeOK, Timely, CyclePurge, ClaimFault, storeVars,
                      StoreFacts, StoreInv
<1>1. cycle' \in [pc : {"idle", "expire", "unknown", "purge"}, now : Nat] /\ cycle'.now <= clock
  BY <1>0
<1>2. PICK Q \in SUBSET ExpiredDeliveries(cycle.now - Retain) : RemoveDeliveries(Q)
  <2>1. CASE RemoveDeliveries(ExpiredDeliveries(cycle.now - Retain))
    BY <2>1
  <2>2. CASE UNCHANGED deliveries
    <3>1. RemoveDeliveries({})
      BY <1>0, <2>2 DEF RemoveDeliveries, ClaimTypeOK
    <3> QED BY <3>1
  <2> QED BY <2>1, <2>2 DEF CyclePurge
<1>3. ASSUME NEW q \in Request, DeliveryExists(q)
      PROVE  LET r == deliveries[q].relay
             IN  /\ q \notin Q => relays'[r].status \in RowStatus
                 /\ q \in Q =>
                      /\ relays'[r].status \in {"expired", "deleted"}
                      /\ \A h \in Claimer :
                            claimer[h].req = q /\ claimer[h].pc \in LookedUp \cup Sending
                            => relays'[r].status = "deleted"
  <2> DEFINE r == deliveries[q].relay
  <2>1. r \in RelayId /\ relays[r].status \in {"ready", "expired"}
    BY <1>3, DeliveredRelay
  <2>2. CASE q \notin Q
    BY <1>0, <2>1, <2>2 DEF RowStatus
  <2>3. CASE q \in Q
    <3>1. relays[r].status = "expired" /\ relays[r].expiresAt < cycle.now - Retain
      BY <1>2, <2>3 DEF ExpiredDeliveries
    <3>2. ASSUME NEW h \in Claimer, claimer[h].req = q, claimer[h].pc \in LookedUp \cup Sending
          PROVE  FALSE
      <4>1. claimer[h].relay = r
        BY <1>3, <3>2, HandlersRelay
      <4>2. relays[r].expiresAt > claimer[h].now
        BY <3>2, <4>1 DEF ClaimInv, LookupsRight, LookupRight
      <4>3. clock <= claimer[h].now + MaxHandling
        BY <3>2 DEF ClaimInv, Timely, LookedUp, Sending
      <4>4. relays[r].expiresAt \in Int /\ claimer[h].now \in Nat
        BY <1>0, <2>1 DEF TypeOK, Row, ClaimTypeOK, ClaimerState
      <4> QED BY <1>0, <3>1, <4>2, <4>3, <4>4, HandlersOutlived, DelaysAreNat
    <3> QED BY <1>0, <2>3, <3>1, <3>2
  <2> QED BY <2>2, <2>3
<1>4. Removable(Q)
  BY <1>3 DEF Removable
<1> QED BY <1>0, <1>1, <1>2, <1>4, RowsAndRemovals

(* A cancelled relay takes its deliveries along. *)
LEMMA CancelStep ==
    ASSUME StoreFacts, StoreFacts', ClaimInv, \A r \in RelayId : RowLife(r), CancelRelay
    PROVE  ClaimInv'
<1>0. /\ ClaimTypeOK /\ TypeOK /\ cycle.now <= clock
      /\ UNCHANGED <<claimed, codeEntries, claimer, sends, inbox, clock, cycle, claimFaults>>
  BY DEF ClaimInv, ClaimTypeOK, Timely, CancelRelay, StoreFacts, StoreInv
<1>1. PICK r \in RelayId :
          DeleteRelay(r) /\ RemoveDeliveries(DeliveriesOf({r}))
  BY DEF CancelRelay
<1>2. /\ relays'[r].status = "deleted"
      /\ \A s \in RelayId \ {r} : relays'[s] = relays[s]
  BY <1>1 DEF DeleteRelay, DeleteRows, DeletedRow
<1>3. \A q \in Request : DeliveryExists(q) =>
          deliveries[q].relay \in RelayId /\ relays[deliveries[q].relay].status \in RowStatus
  BY DEF ClaimInv, DeliveriesRight, Exists
<1>4. Removable(DeliveriesOf({r}))
  BY <1>2, <1>3 DEF Removable, DeliveriesOf
<1>5. /\ cycle' \in [pc : {"idle", "expire", "unknown", "purge"}, now : Nat]
      /\ cycle'.now <= clock /\ claimFaults' \in 0 .. MaxClaimFaults
  BY <1>0 DEF ClaimTypeOK
<1> QED BY <1>0, <1>1, <1>4, <1>5, RowsAndRemovals

(* The worker removes abandoned batches; a batch never had a delivery, but *)
(* the cascade would take it along.                                        *)
LEMMA CycleStartStep ==
    ASSUME StoreFacts, StoreFacts', ClaimInv, \A r \in RelayId : RowLife(r), CycleStart
    PROVE  ClaimInv'
<1> DEFINE before == clock - SessionTTL
           S == StaleCollecting(before)
<1>0. /\ ClaimTypeOK /\ TypeOK /\ clock \in Nat
      /\ UNCHANGED <<claimed, codeEntries, claimer, sends, inbox, clock>>
      /\ cycle' = [pc |-> "expire", now |-> clock] /\ claimFaults' \in 0 .. MaxClaimFaults
  BY DelaysAreNat
     DEF ClaimInv, ClaimTypeOK, CycleStart, ClaimFault, StoreFacts, StoreInv
<1>1. cycle' \in [pc : {"idle", "expire", "unknown", "purge"}, now : Nat] /\ cycle'.now <= clock
  BY <1>0
<1>2. \A q \in Request : DeliveryExists(q) =>
          deliveries[q].relay \in RelayId /\ relays[deliveries[q].relay].status \in RowStatus
  BY DEF ClaimInv, DeliveriesRight, Exists
<1>3. CASE DeleteCollectingRelaysBefore(before) /\ RemoveDeliveries(DeliveriesOf(S))
  <2>1. \A r \in RelayId : /\ r \in S => relays'[r].status = "deleted"
                           /\ r \notin S => relays'[r] = relays[r]
    BY <1>3 DEF DeleteCollectingRelaysBefore, DeleteRows, DeletedRow
  <2>2. Removable(DeliveriesOf(S))
    <3> HIDE DEF S
    <3> QED BY <1>2, <2>1 DEF Removable, DeliveriesOf
  <2> QED BY <1>0, <1>1, <1>3, <2>2, RowsAndRemovals
<1>4. CASE UNCHANGED <<storeVars, deliveries>>
  <2>1. RemoveDeliveries({})
    BY <1>0, <1>4 DEF RemoveDeliveries, ClaimTypeOK
  <2>2. Removable({})
    BY <1>2, <1>4 DEF Removable, storeVars
  <2> QED BY <1>0, <1>1, <2>1, <2>2, RowsAndRemovals
<1> QED BY <1>3, <1>4 DEF CycleStart

(* Steps that touch the handlers all at once, or the code cache.           *)
LEMMA OtherSteps ==
    ASSUME StoreFacts, StoreFacts', ClaimInv, ClaimCrash \/ UploadWarmsCache
    PROVE  ClaimInv'
<1>0. /\ ClaimTypeOK /\ TypeOK' /\ clock \in Nat /\ cycle.now <= clock
      /\ cycle.now \in Nat
  BY DEF ClaimInv, ClaimTypeOK, Timely, StoreFacts, StoreInv
<1>1. CASE ClaimCrash
  <2>1. /\ UNCHANGED <<relays, items, deliveries, claimed, codeEntries, sends, inbox, clock>>
        /\ claimer' = [h \in Claimer |-> IdleClaimer] /\ cycle' = [pc |-> "idle", now |-> 0]
        /\ claimFaults' \in 0 .. MaxClaimFaults
    BY <1>0, <1>1, DelaysAreNat DEF ClaimCrash, RollbackAll, ClaimFault, ClaimTypeOK
  <2>2. IdleClaimer \in ClaimerState /\ IdleClaimer.pc = "idle"
    BY DEF IdleClaimer, ClaimerState, ClaimStep
  <2>3. claimer' \in [Claimer -> ClaimerState]
    BY <2>1, <2>2
  <2>4. \A h \in Claimer : MovesOn(h)
    BY <2>1, <2>2 DEF MovesOn, LookedUp, Sending
  <2>5. codeEntries' \in [Code -> CacheEntry] /\ CacheRight'
    BY <1>0, <2>1 DEF ClaimTypeOK, ClaimInv, CacheRight
  <2>6. cycle' \in [pc : {"idle", "expire", "unknown", "purge"}, now : Nat]
        /\ cycle'.now <= clock
    BY <1>0, <2>1
  <2> QED BY <1>0, <2>1, <2>3, <2>4, <2>5, <2>6, ClaimersMove
<1>2. CASE UploadWarmsCache
  <2>1. UNCHANGED <<relays, items, deliveries, claimed, sends, inbox, clock, cycle, claimer, claimFaults>>
    BY <1>2 DEF UploadWarmsCache, readOnly, storeVars
  <2>2. PICK r \in RelayId, now \in 0 .. clock :
            /\ relays[r].code # NoCode /\ relays[r].expiresAt > now
            /\ codeEntries' = [codeEntries EXCEPT ![relays[r].code] =
                  [relay |-> r, deadline |-> clock + (relays[r].expiresAt - now)]]
    BY <1>2 DEF UploadWarmsCache
  <2>3. relays[r].code \in Code /\ relays[r].expiresAt \in Int
    BY <2>2 DEF StoreFacts, StoreInv, TypeOK, Row
  <2>4. [relay |-> r, deadline |-> clock + (relays[r].expiresAt - now)] \in CacheEntry
    <3>1. clock + (relays[r].expiresAt - now) \in Nat
      BY <1>0, <2>2, <2>3
    <3> QED BY <3>1 DEF CacheEntry
  <2>5. codeEntries' \in [Code -> CacheEntry] /\ CacheRight'
    BY <1>0, <2>1, <2>2, <2>3, <2>4 DEF ClaimTypeOK, ClaimInv, CacheRight
  <2> QED BY <1>0, <2>1, <2>5, ClaimersMove DEF ClaimTypeOK
<1> QED BY <1>1, <1>2

(* A handler's step that writes a claim's row or sends its page. *)
LEMMA WritingSteps ==
    ASSUME StoreFacts, StoreFacts', ClaimInv, NEW h \in Claimer,
           \/ CreateDelivery(h) \/ SendPage(h) \/ MarkSent(h) \/ MarkFailedOrUnknown(h)
           \/ AnswerLost(h)
    PROVE  ClaimInv'
<1>0. claimFaults' \in 0 .. MaxClaimFaults
  BY DelaysAreNat DEF ClaimInv, ClaimTypeOK, CreateDelivery, SendPage, MarkSent,
                      MarkFailedOrUnknown, AnswerLost, ClaimFault
<1>1. CASE CreateDelivery(h) /\ UNCHANGED deliveries
  BY <1>1, ReadingSteps
<1>2. ASSUME claimer[h].pc = "create", ~Requested(claimer[h].req), Exists(claimer[h].relay),
             InsertDelivery(h), ClaimGo(h, "send") \/ ClaimReturn(h),
             UNCHANGED <<relays, items, claimed, codeEntries, sends, inbox, clock, cycle>>
      PROVE  ClaimInv'
  BY <1>0, <1>2, InsertStep
<1>3. CASE CreateDelivery(h)
  BY <1>1, <1>2, <1>3 DEF CreateDelivery, storeVars
<1>4. ASSUME MarkSentEffect(h), ClaimReturn(h),
             UNCHANGED <<relays, items, codeEntries, sends, inbox, clock, cycle>>
      PROVE  ClaimInv'
  BY <1>0, <1>4, MarkStep DEF MarkSentEffect
<1>5. CASE MarkSent(h)
  BY <1>4, <1>5 DEF MarkSent, storeVars
<1>6. CASE MarkFailedOrUnknown(h)
  BY <1>0, <1>6, MarkStep DEF MarkFailedOrUnknown, storeVars
<1>7. CASE AnswerLost(h)
  BY <1>2, <1>4, <1>7 DEF AnswerLost, storeVars
<1>8. CASE SendPage(h)
  BY <1>8, SendStep
<1> QED BY <1>3, <1>5, <1>6, <1>7, <1>8

-----------------------------------------------------------------------------
(* The invariant is inductive. *)

LEMMA InitClaimInv == ClaimInit => StoreFacts /\ ClaimInv
<1> SUFFICES ASSUME ClaimInit PROVE StoreFacts /\ ClaimInv
  OBVIOUS
<1> USE DEF ClaimInit
<1>1. StoreFacts
  BY StoreFactsInit
<1>2. ClaimTypeOK
  <2>1. NoDelivery \in Delivery /\ NoEntry \in CacheEntry /\ IdleClaimer \in ClaimerState
    BY DEF NoDelivery, Delivery, NoEntry, CacheEntry, IdleClaimer, ClaimerState, ClaimStep
  <2>2. TypeOK
    BY <1>1 DEF StoreFacts, StoreInv
  <2> QED BY <2>1, <2>2, DelaysAreNat, LifetimesPositive DEF ClaimTypeOK
<1>3. \A h \in Claimer : claimer[h].pc = "idle"
  BY DEF IdleClaimer
<1>4. \A q \in Request : deliveries[q].status = "none"
  BY DEF NoDelivery
<1>5. Timely /\ LookupsRight /\ CacheRight /\ DeliveriesRight
  BY <1>3, <1>4 DEF Timely, LookupsRight, LookupRight, LookedUp, Sending, CacheRight,
                    DeliveriesRight, DeliveryExists
<1>6. OneSender
  BY <1>3, <1>4 DEF OneSender, Taken, SenderRight, Sending
<1>7. SentMeansReceived /\ NothingClaimedYet
  BY <1>4 DEF SentMeansReceived, NothingClaimedYet
<1>8. CountMatchesDeliveries
  BY DEF CountMatchesDeliveries, StoreInit, UnusedRow
<1> QED BY <1>1, <1>2, <1>5, <1>6, <1>7, <1>8 DEF ClaimInv

LEMMA NextClaimInv ==
    ASSUME StoreFacts, ClaimInv, [ClaimNext]_claimingVars
    PROVE  StoreFacts' /\ ClaimInv'
<1>0. [StoreNext]_storeVars
  BY ClaimStepsStore DEF ClaimInv
<1>1. StoreFacts' /\ \A r \in RelayId : RowLife(r)
  BY <1>0, StoreFactsStep
<1>2. ASSUME NEW h \in Claimer, ReceiveClaim(h) \/ ClaimProceed(h) \/ ClaimFails(h) \/ AnswerLost(h)
      PROVE  ClaimInv'
  BY <1>1, <1>2, ReadingSteps, WritingSteps DEF ClaimProceed
<1>3. CASE RunCycle
  BY <1>1, <1>3, CycleStartStep, UploadAndExpireSteps, MarkUnknownStep, PurgeStep DEF RunCycle
<1>4. CASE Upload
  BY <1>1, <1>4, UploadAndExpireSteps
<1>5. CASE UploadWarmsCache \/ ClaimCrash
  BY <1>1, <1>5, OtherSteps
<1>6. CASE CancelRelay
  BY <1>1, <1>6, CancelStep
<1>7. CASE ClaimTick
  BY <1>1, <1>7, ClaimTickStep
<1>8. CASE UNCHANGED claimingVars
  <2>1. /\ UNCHANGED <<relays, items, deliveries, claimed, sends, inbox, clock, claimer,
                       codeEntries, cycle, claimFaults>>
        /\ ClaimTypeOK /\ TypeOK' /\ cycle.now <= clock
    BY <1>1, <1>8 DEF claimingVars, storeVars, claimVars, ClaimInv, Timely, StoreFacts, StoreInv
  <2>2. codeEntries' \in [Code -> CacheEntry] /\ CacheRight'
    BY <2>1 DEF ClaimTypeOK, ClaimInv, CacheRight
  <2> QED BY <1>1, <2>1, <2>2, ClaimersMove DEF ClaimTypeOK
<1> QED BY <1>1, <1>2, <1>3, <1>4, <1>5, <1>6, <1>7, <1>8 DEF ClaimNext

(* The invariant of claims, with what they rely on of the store, holds for *)
(* every number of handlers, claims, codes, delays and faults: the row of  *)
(* relay_deliveries admits one sender (service.go:692, store.go:388), and  *)
(* when it is purged (store.go:509) nobody is left to send.                *)
THEOREM ClaimInvAlways == ClaimSpec => [](StoreFacts /\ ClaimInv)
<1>1. StoreFacts /\ ClaimInv /\ [ClaimNext]_claimingVars => (StoreFacts /\ ClaimInv)'
  BY NextClaimInv
<1> QED BY InitClaimInv, <1>1, PTL DEF ClaimSpec

(* What claims, uploads and the worker do to relays and their items is     *)
(* what RelayStore allows, so its theorems hold of the whole (store.go).   *)
THEOREM ClaimImplementsStore == ClaimSpec => StoreSpec
<1>1. ClaimInit => StoreInit
  BY DEF ClaimInit
<1>2. ClaimInv /\ [ClaimNext]_claimingVars => [StoreNext]_storeVars
  BY ClaimStepsStore DEF ClaimInv
<1> QED BY <1>1, <1>2, ClaimInvAlways, PTL DEF ClaimSpec, StoreSpec

(* Types of claims, deliveries and the code cache are kept for good. *)
THEOREM ClaimTypesHold == ClaimSpec => []ClaimTypeOK
<1>1. ClaimInv => ClaimTypeOK
  BY DEF ClaimInv
<1> QED BY <1>1, ClaimInvAlways, PTL

(* One claim gets at most one page, whatever is delivered twice, crashes,  *)
(* times out or is purged (service.go:692).                                *)
THEOREM PageSentAtMostOnce == ClaimSpec => []SentAtMostOnce
<1>1. ClaimInv => SentAtMostOnce
  BY DEF ClaimInv, OneSender, SentAtMostOnce
<1> QED BY <1>1, ClaimInvAlways, PTL

(* A delivery recorded as sent has reached the chat, whole (service.go:815). *)
THEOREM SentReallyReceived == ClaimSpec => []SentMeansReceived
<1>1. ClaimInv => SentMeansReceived
  BY DEF ClaimInv
<1> QED BY <1>1, ClaimInvAlways, PTL

(* relays.delivery_count counts the deliveries recorded as sent, whatever  *)
(* answers were lost (store.go:406).                                       *)
THEOREM CountAlwaysMatches == ClaimSpec => []CountMatchesDeliveries
<1>1. ClaimInv => CountMatchesDeliveries
  BY DEF ClaimInv
<1> QED BY <1>1, ClaimInvAlways, PTL

(* A page is sent only for a relay that has the requested code and could   *)
(* be claimed when the claim arrived, though the code cache may name one   *)
(* that has gone (service.go:994, 1005).                                   *)
THEOREM OnlyClaimableServed == ClaimSpec => []ServedWhileClaimable
<1>1. ClaimInv => ServedWhileClaimable
  BY DEF ClaimInv, ServedWhileClaimable, LookupsRight, LookupRight, LookedUp, Sending, CacheRight
<1> QED BY <1>1, ClaimInvAlways, PTL

(* A recorded result stays until the delivery is removed: neither another  *)
(* handler nor the worker's timeout, however late, replaces it             *)
(* (store.go:498).                                                         *)
THEOREM ResultsAreFinal == ClaimSpec => ResultsStay
<1> DEFINE Stays == \A q \in Request :
                       deliveries[q].status \in {"sent", "failed"}
                       => deliveries'[q] = deliveries[q] \/ deliveries'[q] = NoDelivery
<1>1. ASSUME StoreFacts, ClaimInv, ClaimNext PROVE Stays
  <2>0. ClaimTypeOK
    BY <1>1 DEF ClaimInv
  <2>1. ASSUME NEW Q, RemoveDeliveries(Q) PROVE Stays
    BY <2>1 DEF RemoveDeliveries
  <2>2. ASSUME UNCHANGED deliveries PROVE Stays
    BY <2>2
  <2>3. ASSUME NEW h \in Claimer, InsertDelivery(h), ~Requested(claimer[h].req) PROVE Stays
    BY <2>0, <2>3 DEF InsertDelivery, Requested, DeliveryExists, ClaimTypeOK
  <2>4. ASSUME NEW h \in Claimer, NEW status \in {"sent", "failed", "unknown"},
               claimer[h].pc \in Sending, deliveries' = Marked(claimer[h].req, status)
        PROVE  Stays
    <3>1. SenderRight(h)
      BY <1>1 DEF ClaimInv, OneSender
    <3> QED BY <2>0, <2>4, <3>1 DEF SenderRight, Marked, ClaimTypeOK
  <2>5. ASSUME NEW h \in Claimer, MarkSentEffect(h) PROVE Stays
    BY <2>4, <2>5 DEF MarkSentEffect, Sending
  <2>6. ASSUME NEW h \in Claimer, MarkFailedOrUnknown(h) PROVE Stays
    BY <2>4, <2>6 DEF MarkFailedOrUnknown, Sending
  <2>7. ASSUME NEW h \in Claimer, ReceiveClaim(h) \/ ClaimProceed(h) \/ ClaimFails(h) \/ AnswerLost(h)
        PROVE  Stays
    <3>1. CASE CreateDelivery(h)
      BY <2>2, <2>3, <3>1 DEF CreateDelivery
    <3>2. CASE AnswerLost(h)
      BY <2>3, <2>5, <3>2 DEF AnswerLost
    <3>3. CASE MarkSent(h)
      BY <2>5, <3>3 DEF MarkSent
    <3>4. CASE \/ ReceiveClaim(h) \/ LookupCached(h) \/ LookupById(h) \/ LookupByCode(h)
               \/ WarmCache(h) \/ ListItems(h) \/ ReplyNotFound(h) \/ SendPage(h)
               \/ ClaimFails(h)
      <4>1. UNCHANGED deliveries
        BY <3>4 DEF ReceiveClaim, LookupCached, LookupById, LookupByCode, WarmCache, ListItems,
                    ReplyNotFound, SendPage, ClaimFails, readOnly
      <4> QED BY <2>2, <4>1
    <3> QED BY <2>6, <2>7, <3>1, <3>2, <3>3, <3>4 DEF ClaimProceed
  <2>8. CASE RunCycle
    <3>1. CASE CycleStart \/ CycleExpire
      BY <2>1, <2>2, <3>1 DEF CycleStart, CycleExpire, claimVars
    <3>2. CASE CycleMarkUnknown
      <4>1. ASSUME MarkUnknownDeliveriesBefore(cycle.now - StaleAfter) PROVE Stays
        BY <4>1 DEF MarkUnknownDeliveriesBefore, PendingBefore
      <4> QED BY <2>2, <3>2, <4>1 DEF CycleMarkUnknown
    <3>3. CASE CyclePurge
      BY <2>1, <2>2, <3>3 DEF CyclePurge
    <3> QED BY <2>8, <3>1, <3>2, <3>3 DEF RunCycle
  <2>9. CASE Upload \/ UploadWarmsCache \/ ClaimCrash \/ ClaimTick
    <3>1. UNCHANGED deliveries
      BY <2>9 DEF Upload, UploadWarmsCache, ClaimCrash, ClaimTick, readOnly, claimVars
    <3> QED BY <2>2, <3>1
  <2>10. CASE CancelRelay
    BY <2>1, <2>10 DEF CancelRelay
  <2> QED BY <1>1, <2>7, <2>8, <2>9, <2>10 DEF ClaimNext
<1>2. StoreFacts /\ ClaimInv /\ [ClaimNext]_claimingVars => [Stays]_claimingVars
  BY <1>1
<1> QED BY <1>2, ClaimInvAlways, PTL DEF ClaimSpec, ResultsStay

=============================================================================
