-------------------------- MODULE BatchUploadProofs --------------------------
(***************************************************************************)
(* What BatchUpload promises, proved for any number of handlers, chats,    *)
(* uploads, relays and codes, any limits and any number of faults.         *)
(*                                                                         *)
(* The tables change only as RelayStore allows, so the store's invariant   *)
(* holds; BatchInv is inductive on top of it. A step is either one handler *)
(* that moves (OneHandlerMoves, from what each action does, Moved), or the *)
(* worker, the clock or a crash (NobodyMoves).                             *)
(***************************************************************************)
EXTENDS BatchUpload, RelayStoreProofs

-----------------------------------------------------------------------------
(* The tables.                                                             *)

(* A relay keeps its chat and its upload, and as long as it is there it    *)
(* only gets more items. *)
RowGrows(r) ==
    relays[r].status # "unused" =>
        /\ relays'[r].status # "unused"
        /\ relays'[r].chat \in {relays[r].chat, NoChat}
        /\ Exists(r)' => /\ Exists(r) /\ ItemsOf(r) \subseteq ItemsOf(r)'
                         /\ relays'[r].src = relays[r].src
                         /\ relays'[r].chat = relays[r].chat

LEMMA StepsGrowRows ==
    ASSUME StoreInv, [StoreNext]_storeVars, NEW r \in RelayId
    PROVE  RowGrows(r)
<1>0. TypeOK /\ OpenTransactions
  BY DEF StoreInv
<1>1. ASSUME items' = items,
             relays'[r] = relays[r] \/ relays[r].status = "unused"
      PROVE  RowGrows(r)
  BY <1>1 DEF RowGrows, Exists, ItemsOf
<1>2. ASSUME NEW t \in Tx, NEW q \in RelayId, NEW u \in Update, NEW c \in Code,
             NEW chat \in Chat, NEW e \in Time, NEW at \in Time,
             CreateRelayOfFiledUpload(t, q, u, c, chat, e, at)
      PROVE  RowGrows(r)
  BY <1>0, <1>1, <1>2 DEF CreateRelayOfFiledUpload, CreateMayInsert, FreshId, TypeOK
<1>3. ASSUME NEW t \in Tx, CommitInsert(t) PROVE RowGrows(r)
  <2>1. /\ OpenTransaction(t) /\ tx[t].op \in {"add", "create"}
        /\ tx[t] \in TxRecord
    BY <1>0, <1>3, InsertedItem
  <2>2. PICK q \in RelayId, u \in Update, row \in {CommittedRow(t)} :
            /\ tx[t].relay = q /\ tx[t].src = u /\ CommittedRow(t) = row
            /\ tx[t].key = u /\ items[u] = NoItem
    BY <1>0, <1>3, InsertedItem
  <2>3. /\ items[u] = NoItem
        /\ items' = [items EXCEPT ![u] = [relay |-> q, order |-> tx[t].order]]
        /\ relays' = [relays EXCEPT ![q] = row]
    BY <1>3, <2>2 DEF CommitInsert
  <2>4. ItemsOf(r) \subseteq ItemsOf(r)'
    BY <1>0, <2>3, NullsAreNotValues DEF TypeOK, ItemsOf, NoItem
  <2>5. CASE r # q
    BY <1>0, <2>3, <2>4, <2>5 DEF RowGrows, Exists, TypeOK
  <2>6. CASE r = q /\ tx[t].op = "create"
    BY <2>1, <2>2, <2>6 DEF RowGrows, OpenTransaction
  <2>7. CASE r = q /\ tx[t].op = "add"
    <3>1. row = [relays[r] EXCEPT !.updatedAt = tx[t].at] /\ relays[r] \in Row
      BY <1>0, <2>2, <2>7 DEF CommittedRow, TypeOK
    <3>2. row.status = relays[r].status /\ row.chat = relays[r].chat /\ row.src = relays[r].src
      BY <3>1 DEF Row
    <3>3. relays'[r] = row
      BY <1>0, <2>3, <2>7 DEF TypeOK
    <3> QED BY <2>4, <3>2, <3>3 DEF RowGrows, Exists
  <2> QED BY <2>1, <2>5, <2>6, <2>7
<1>4. ASSUME NEW q \in RelayId, NEW chat \in Chat, NEW at \in Time,
             CreateRelayBatch(q, chat, at)
      PROVE  RowGrows(r)
  BY <1>0, <1>1, <1>4 DEF CreateRelayBatch, FreshId, TypeOK
<1>5. ASSUME NEW q \in RelayId, NEW c \in Code, NEW e \in Time, NEW at \in Time,
             FinalizeRelayBatch(q, c, e, at)
      PROVE  RowGrows(r)
  <2>1. /\ relays[q].status = "collecting" /\ items' = items
        /\ relays' = [relays EXCEPT ![q].status = "ready", ![q].code = c,
                                    ![q].expiresAt = e, ![q].updatedAt = at]
    BY <1>5 DEF FinalizeRelayBatch, FinalizeMatches
  <2>2. /\ r # q => relays'[r] = relays[r]
        /\ relays'[q].chat = relays[q].chat /\ relays'[q].src = relays[q].src
        /\ relays'[q].status = "ready"
    BY <1>0, <2>1 DEF TypeOK, Row
  <2> QED BY <1>1, <2>1, <2>2 DEF RowGrows, Exists, ItemsOf, RowStatus
<1>6. ASSUME NEW S \in SUBSET RelayId, DeleteRows(S) PROVE RowGrows(r)
  <2>1. /\ relays'[r] = IF r \in S THEN DeletedRow(relays[r]) ELSE relays[r]
        /\ \A u \in Update : items'[u] = IF items[u].relay \in S THEN NoItem
                                                                 ELSE items[u]
    BY <1>6 DEF DeleteRows
  <2>2. CASE r \in S
    BY <2>1, <2>2 DEF RowGrows, DeletedRow, Exists, RowStatus
  <2>3. CASE r \notin S
    <3>1. ItemsOf(r) \subseteq ItemsOf(r)'
      BY <2>1, <2>3 DEF ItemsOf
    <3> QED BY <2>1, <2>3, <3>1 DEF RowGrows, Exists
  <2> QED BY <2>2, <2>3
<1>7. ASSUME NEW now \in Time, ExpireRelays(now) PROVE RowGrows(r)
  <2>1. /\ items' = items
        /\ relays'[r] = IF relays[r].status = "ready" /\ Due(r, now)
                        THEN [relays[r] EXCEPT !.status = "expired", !.updatedAt = now]
                        ELSE relays[r]
    BY <1>7 DEF ExpireRelays
  <2>2. /\ relays'[r].chat = relays[r].chat /\ relays'[r].src = relays[r].src
        /\ \/ relays'[r].status = relays[r].status
           \/ relays[r].status = "ready" /\ relays'[r].status = "expired"
    BY <1>0, <2>1 DEF TypeOK, Row
  <2> QED BY <2>1, <2>2 DEF RowGrows, Exists, ItemsOf, RowStatus
<1>8. ASSUME NEW t \in Tx, TxNext(t) PROVE RowGrows(r)
  BY <1>1, <1>2, <1>3, <1>8
     DEF TxNext, CreateRelay, AddRelayItem, InsertItem, RollbackInsert
<1>9. CASE StatementNext
  BY <1>1, <1>4, <1>5, <1>6, <1>7, <1>9
     DEF StatementNext, RollbackAll, DeleteRelay, DeleteCollectingRelaysBefore, StaleCollecting
<1> QED BY <1>1, <1>8, <1>9 DEF StoreNext, storeVars

(* What is known of a relay and its number of files stays known. *)
LEMMA OpenedStays ==
    ASSUME NEW r, NEW c, Opened(r, c), RowGrows(r)
    PROVE  Opened(r, c)'
BY DEF Opened, RowGrows

LEMMA CountedStays ==
    ASSUME NEW r, relays[r].status # "unused", RowGrows(r), NEW n \in Nat, Counted(r, n)
    PROVE  Counted(r, n)'
<1> SUFFICES ASSUME Exists(r)' PROVE n <= Cardinality(ItemsOf(r))'
  BY DEF Counted
<1>1. Exists(r) /\ ItemsOf(r) \subseteq ItemsOf(r)'
  BY DEF RowGrows
<1>2. IsFiniteSet(ItemsOf(r)') /\ Cardinality(ItemsOf(r)') \in Nat
  <2>1. ItemsOf(r)' \subseteq Update
    BY DEF ItemsOf
  <2> QED BY <2>1, FiniteUpdates, FS_Subset, FS_CardinalityType
<1>3. Cardinality(ItemsOf(r)) <= Cardinality(ItemsOf(r)') /\ Cardinality(ItemsOf(r)) \in Nat
  BY <1>1, <1>2, FS_Subset, ItemsFinite
<1>4. n <= Cardinality(ItemsOf(r))
  BY <1>1 DEF Counted
<1> QED BY <1>2, <1>3, <1>4

-----------------------------------------------------------------------------
(* The store's part of every step is a step of the store. *)

LEMMA ClockInTime ==
    ASSUME BatchTypeOK, worker.now <= clock, NEW h \in Handler, HandlerRight(h)
    PROVE  /\ clock \in Int /\ clock - SessionTTL \in Time
           /\ worker.now \in Time
           /\ handler[h].now \in Time /\ handler[h].now + RelayTTL \in Time
<1>1. /\ clock \in 0 .. MaxClock /\ worker.now \in Nat /\ handler[h].now \in Nat
      /\ handler[h].now <= clock
  BY DEF BatchTypeOK, WorkerState, HandlerState, HandlerRight, HandlerShape
<1> QED BY <1>1, TimesCovered, LifetimesPositive

(* The calls to the store one step of a handler makes. *)
StoreCall(h) ==
    \/ UNCHANGED storeVars
    \/ TxNext(h)
    \/ \E r \in RelayId, chat \in Chat, at \in Time : CreateRelayBatch(r, chat, at)
    \/ \E r \in RelayId, c \in Code, e \in Time, at \in Time : FinalizeRelayBatch(r, c, e, at)
    \/ /\ At(h, "start", "undo") \/ At(h, "cancel", "delete")
       /\ handler[h].relay \in RelayId
       /\ RemoveRelay(handler[h].relay)

LEMMA HandlersCallStore ==
    ASSUME BatchInv, StoreInv, NEW h \in Handler, Receive(h) \/ Proceed(h) \/ Fail(h)
    PROVE  StoreCall(h)
<1>0. BatchTypeOK /\ worker.now <= clock /\ HandlerRight(h)
  BY DEF BatchInv
<1>1. handler[h].now \in Time /\ handler[h].now + RelayTTL \in Time
  BY <1>0, ClockInTime
<1>2. /\ handler[h].pc # "idle" => handler[h].chat \in Chat
      /\ handler[h].op = "upload" => handler[h].src \in Update
      /\ handler[h].pc \notin NoRelayNeeded => handler[h].relay \in RelayId
      /\ handler[h].pc = "persist" => handler[h].op = "upload"
      /\ handler[h].pc = "delete" => handler[h].op = "cancel"
  BY <1>0 DEF HandlerRight, HandlerShape, HandlerCounts, Opened, OpsAt
<1>4. ASSUME InsertItem(h) \/ CommitInsert(h) \/ RollbackInsert(h) PROVE StoreCall(h)
  BY <1>4 DEF StoreCall, TxNext
<1>5. ASSUME UNCHANGED storeVars PROVE StoreCall(h)
  BY <1>5 DEF StoreCall
<1>6. CASE StartCreate(h)
  BY <1>1, <1>2, <1>6 DEF StartCreate, At, StoreCall
<1>7. CASE StartUndo(h) \/ CancelDelete(h)
  BY <1>2, <1>7 DEF StartUndo, CancelDelete, At, NoRelayNeeded, StoreCall
<1>8. CASE AppendInsert(h)
  BY <1>1, <1>2, <1>5, <1>8 DEF AppendInsert, At, NoRelayNeeded, StoreCall, TxNext
<1>9. CASE FileItem(h) \/ FileConflict(h) \/ AppendCommit(h) \/ CreateCommit(h)
  BY <1>4, <1>9 DEF FileItem, FileConflict, AppendCommit, CreateCommit
<1>10. CASE CreatePersist(h)
  BY <1>1, <1>2, <1>5, <1>10 DEF CreatePersist, At, StoreCall, TxNext
<1>11. CASE FinishFinalize(h)
  BY <1>1, <1>2, <1>5, <1>11 DEF FinishFinalize, At, NoRelayNeeded, StoreCall
<1>12. CASE CallFails(h)
  BY <1>4, <1>5, <1>12 DEF CallFails
<1>13. CASE Receive(h) \/ StartSetFails(h)
  BY <1>5, <1>13 DEF Receive, Begin, StartSetFails
<1>3. CASE CommitAnswerLost(h)
  <2>1. LostCommit(h)
    BY <1>3 DEF CommitAnswerLost
  <2>2. CASE handler[h].pc = "create"
    BY <1>1, <1>2, <2>1, <2>2 DEF LostCommit, StoreCall
  <2>3. CASE handler[h].pc = "persist"
    BY <1>1, <1>2, <2>1, <2>3 DEF LostCommit, StoreCall, TxNext
  <2>4. CASE handler[h].pc = "finalize"
    BY <1>1, <1>2, <2>1, <2>4 DEF LostCommit, StoreCall, NoRelayNeeded
  <2>5. CASE handler[h].pc = "delete"
    BY <1>2, <2>1, <2>5 DEF LostCommit, StoreCall, At, NoRelayNeeded
  <2> QED BY <1>4, <2>1, <2>2, <2>3, <2>4, <2>5 DEF LostCommit
<1>14. CASE Proceed(h)
  BY <1>5, <1>6, <1>7, <1>8, <1>9, <1>10, <1>11, <1>14
     DEF Proceed, LoadSession, CheckSessionRelay, DropStaleSession, StartSetSession,
         AppendRecount, AppendMerge, ProgressLoad, ProgressMerge, CreateLookup,
         CreateQuota, WarmCodeCache, FinishRelist, FinishList, FinishQuota, FinishRecheck,
         FinishClear, CancelClear, InstanceExhausted
<1> QED BY <1>3, <1>12, <1>13, <1>14 DEF Fail

LEMMA CallsStepStore ==
    ASSUME NEW h \in Handler, StoreCall(h)
    PROVE  [StoreNext]_storeVars
<1>1. CASE handler[h].relay \in RelayId /\ RemoveRelay(handler[h].relay)
  BY <1>1 DEF RemoveRelay, StoreNext, StatementNext
<1>2. CASE ~(handler[h].relay \in RelayId /\ RemoveRelay(handler[h].relay))
  BY <1>2 DEF StoreCall, StoreNext, StatementNext, Handler
<1> QED BY <1>1, <1>2

LEMMA BatchStepsStore ==
    ASSUME BatchInv, StoreInv, [BatchNext]_vars
    PROVE  [StoreNext]_storeVars
<1>0. BatchTypeOK /\ worker.now <= clock
  BY DEF BatchInv
<1>1. clock - SessionTTL \in Time /\ worker.now \in Time
  <2>1. clock \in 0 .. MaxClock /\ worker.now \in Nat
    BY <1>0 DEF BatchTypeOK, WorkerState
  <2> QED BY <1>0, <2>1, TimesCovered, LifetimesPositive
<1>2. ASSUME NEW h \in Handler, Receive(h) \/ Proceed(h) \/ Fail(h)
      PROVE  [StoreNext]_storeVars
  BY <1>2, HandlersCallStore, CallsStepStore
<1>3. CASE Maintain
  BY <1>1, <1>3 DEF Maintain, WorkerPurge, WorkerExpire, StoreNext, StatementNext
<1>4. CASE Crash
  BY <1>4 DEF Crash, StoreNext, StatementNext
<1>5. CASE Tick \/ UNCHANGED vars
  BY <1>5 DEF Tick, vars
<1> QED BY <1>2, <1>3, <1>4, <1>5 DEF BatchNext

-----------------------------------------------------------------------------
(* What a step of the store leaves of the invariant.                       *)

(* The tables move as the store lets them. *)
TablesMove ==
    /\ StoreFacts /\ StoreFacts'
    /\ \A r \in RelayId : RowStep(r) /\ RowLife(r) /\ RowGrows(r)
    /\ \A r \in RelayId :
          relays[r].status \in {"ready", "expired"} /\ relays'[r].status # "deleted"
          => ItemsOf(r)' = ItemsOf(r)

LEMMA StoreStepMovesTables ==
    ASSUME StoreFacts, [StoreNext]_storeVars
    PROVE  TablesMove
BY StoreFactsStep, StepsOfARow, StepsGrowRows DEF TablesMove, StoreFacts

(* A handler that does nothing stays right. *)
LEMMA OthersStayRight ==
    ASSUME BatchTypeOK, TablesMove, NEW g \in Handler, HandlerRight(g),
           handler'[g] = handler[g], tx'[g] = tx[g], clock <= clock', clock' \in Nat
    PROVE  HandlerRight(g)'
<1> DEFINE s == handler[g]
<1>0. s \in HandlerState /\ clock \in Nat /\ s.now \in Nat /\ s.count \in Nat
  BY LimitsPositive DEF BatchTypeOK, HandlerState
<1>1. HandlerShape(g)'
  BY <1>0 DEF HandlerRight, HandlerShape
<1>2. ASSUME s.relay # NoRelay
      PROVE  /\ Opened(s.relay, s.chat) /\ Opened(s.relay, s.chat)'
             /\ Counted(s.relay, s.count)'
             /\ RowKept(s.relay)
  <2>1. Opened(s.relay, s.chat) /\ Counted(s.relay, s.count)
    BY <1>2 DEF HandlerRight, HandlerCounts
  <2>2. s.relay \in RelayId /\ relays[s.relay].status # "unused"
    BY <2>1 DEF Opened
  <2>3. RowGrows(s.relay) /\ RowKept(s.relay)
    BY <2>2 DEF TablesMove, RowLife
  <2> QED BY <1>0, <2>1, <2>2, <2>3, OpenedStays, CountedStays
<1>3. HandlerCounts(g)'
  BY <1>2 DEF HandlerRight, HandlerCounts
<1>4. HandlerCode(g)'
  <2>1. s.pc \in {"relist", "warm", "clear"} => s.relay # NoRelay
    BY DEF HandlerRight, HandlerShape, NoRelayNeeded
  <2> QED BY <1>2, <2>1 DEF HandlerRight, HandlerCode, RowKept
<1>5. HandlerTx(g)'
  BY DEF HandlerRight, HandlerTx
<1> QED BY <1>1, <1>3, <1>4, <1>5 DEF HandlerRight

(* A session nobody touches, or that is dropped, stays right. *)
LEMMA SessionsStayRight ==
    ASSUME BatchTypeOK, TablesMove, NEW c \in Chat, SessionRight(c),
           session'[c] \in {session[c], NoSession}
    PROVE  SessionRight(c)'
<1>1. CASE session'[c] = NoSession
  BY <1>1 DEF SessionRight, NoSession
<1>2. CASE session'[c] = session[c] /\ session[c].relay = NoRelay
  BY <1>2 DEF SessionRight
<1>3. CASE session'[c] = session[c] /\ session[c].relay # NoRelay
  <2> DEFINE s == session[c]
  <2>1. Opened(s.relay, c) /\ Counted(s.relay, s.count) /\ s.count \in Nat
    BY <1>3 DEF SessionRight, BatchTypeOK, Session
  <2>2. relays[s.relay].status # "unused" /\ RowGrows(s.relay)
    BY <2>1 DEF Opened, TablesMove
  <2>3. Opened(s.relay, c)' /\ Counted(s.relay, s.count)'
    BY <1>3, <2>1, <2>2, OpenedStays, CountedStays
  <2> QED BY <1>3, <2>3 DEF SessionRight
<1> QED BY <1>1, <1>2, <1>3

(* An entry of the code cache that is not written stays right. *)
CacheMoves ==
    /\ codeCache' \in [Code -> RelayId \cup {NoRelay}]
    /\ \A c \in Code : codeCache'[c] # codeCache[c] => relays'[codeCache'[c]].code = c

LEMMA CacheStaysRight ==
    ASSUME BatchTypeOK, TablesMove, CodesAgree, CacheMoves, NEW c \in Code,
           codeCache'[c] # NoRelay
    PROVE  relays'[codeCache'[c]].code = c
<1>1. CASE codeCache'[c] # codeCache[c]
  BY <1>1 DEF CacheMoves
<1>2. CASE codeCache'[c] = codeCache[c]
  <2>1. codeCache[c] \in RelayId /\ relays[codeCache[c]].code = c
    BY <1>2 DEF CodesAgree, BatchTypeOK
  <2>2. c # NoCode /\ RowKept(codeCache[c])
    BY <2>1, NullsAreNotValues DEF TablesMove, RowLife
  <2> QED BY <1>2, <2>1, <2>2 DEF RowKept
<1> QED BY <1>1, <1>2

-----------------------------------------------------------------------------
(* One handler moves.                                                      *)

NewlyReady(r) == relays[r].status # "ready" /\ relays'[r].status = "ready"

(* The handler h goes on, and is right where it gets to. *)
HandlerMoves(h) ==
    /\ handler' \in [Handler -> HandlerState]
    /\ \A g \in Handler \ {h} : handler'[g] = handler[g] /\ tx'[g] = tx[g]
    /\ HandlerRight(h)'

(* It leaves the sessions, drops them, or writes a right one. *)
SessionsMove(h) ==
    /\ session' \in [Chat -> Session]
    /\ \A c \in Chat : session'[c] \in {session[c], NoSession} \/ SessionRight(c)'

(* A relay becomes ready only by a handler that has passed the cap, and    *)
(* with that it is done. *)
HandlerSeals(h) ==
    /\ \A r \in RelayId : NewlyReady(r) =>
          /\ handler[h].pc \in PastQuotaSteps /\ handler'[h].pc \notin PastQuotaSteps
          /\ relays'[r].chat = handler[h].chat
          /\ relays'[r].src # NoUpdate \/ ItemsOf(r)' # {}
          /\ relays[r].status = "unused" \/ r = handler[h].relay
    /\ \A q, r \in RelayId : NewlyReady(q) /\ NewlyReady(r) => q = r

(* It passes the cap only when it has looked at it. *)
HandlerPasses(h) ==
    handler'[h].pc \in PastQuotaSteps =>
        /\ handler'[h].chat = handler[h].chat
        /\ \/ handler[h].pc \in PastQuotaSteps
           \/ ~AtCap(h) /\ UNCHANGED storeVars

Moved(h) ==
    /\ HandlerMoves(h) /\ SessionsMove(h) /\ HandlerSeals(h) /\ HandlerPasses(h)
    /\ CacheMoves
    /\ clock' = clock /\ worker' = worker /\ faults' \in 0 .. MaxFaults

(* Sets of relays and of handlers can be counted. *)
LEMMA CapSetsFinite ==
    ASSUME NEW chat, NEW now
    PROVE  /\ IsFiniteSet(ActiveRelays(chat, now)) /\ Cardinality(ActiveRelays(chat, now)) \in Nat
           /\ IsFiniteSet(PastQuota(chat)) /\ Cardinality(PastQuota(chat)) \in Nat
           /\ IsFiniteSet(Handler) /\ Cardinality(Handler) \in Nat
           /\ Cardinality(PastQuota(chat)) <= Cardinality(Handler)
<1>1. ActiveRelays(chat, now) \subseteq RelayId
  BY DEF ActiveRelays
<1>2. PastQuota(chat) \subseteq Handler
  BY DEF PastQuota
<1>3. IsFiniteSet(Handler)
  BY FiniteHandlers DEF Handler
<1>4. IsFiniteSet(ActiveRelays(chat, now)) /\ IsFiniteSet(PastQuota(chat))
  BY <1>1, <1>2, <1>3, FiniteRelays, FS_Subset
<1> QED BY <1>2, <1>3, <1>4, FS_Subset, FS_CardinalityType

(* A relay is active because it was or because it has just become ready. *)
LEMMA ActiveOrNew ==
    ASSUME TablesMove, clock \in Int, clock' \in Int, clock <= clock', NEW chat,
           NEW r \in ActiveRelays(chat, clock)'
    PROVE  \/ r \in ActiveRelays(chat, clock)
           \/ r \in RelayId /\ NewlyReady(r) /\ relays'[r].chat = chat
<1>1. /\ r \in RelayId /\ relays'[r].chat = chat /\ relays'[r].status = "ready"
      /\ relays'[r].expiresAt > clock'
  BY DEF ActiveRelays
<1>2. CASE NewlyReady(r)
  BY <1>1, <1>2
<1>3. CASE ~NewlyReady(r)
  <2>1. relays'[r] = relays[r]
    BY <1>1, <1>3 DEF NewlyReady, TablesMove, RowStep
  <2>2. relays[r].expiresAt \in Int
    BY <1>1 DEF TablesMove, StoreFacts, StoreInv, TypeOK, Row
  <2> QED BY <1>1, <2>1, <2>2 DEF ActiveRelays
<1> QED BY <1>2, <1>3

(* A handler that adds a relay gives up its place past the cap for it. *)
LEMMA CapKept ==
    ASSUME BatchTypeOK, TablesMove, ActiveCapSlack, NEW h \in Handler, Moved(h),
           HandlerRight(h)
    PROVE  ActiveCapSlack'
<1> SUFFICES ASSUME NEW chat \in Chat
             PROVE  Cardinality(ActiveRelays(chat, clock)') + Cardinality(PastQuota(chat)')
                    <= MaxActiveRelays - 1 + Cardinality(Handler)
  BY DEF ActiveCapSlack
<1> DEFINE A == ActiveRelays(chat, clock)
           P == PastQuota(chat)
<1>0. /\ clock \in Int /\ clock' = clock /\ MaxActiveRelays \in Nat
      /\ handler[h].now \in Int /\ handler[h].now <= clock
  BY LimitsPositive DEF BatchTypeOK, HandlerState, Moved, HandlerRight, HandlerShape
<1>1. /\ IsFiniteSet(A) /\ IsFiniteSet(P) /\ Cardinality(A) \in Nat /\ Cardinality(P) \in Nat
      /\ Cardinality(Handler) \in Nat
      /\ Cardinality(A) + Cardinality(P) <= MaxActiveRelays - 1 + Cardinality(Handler)
  BY CapSetsFinite DEF ActiveCapSlack
<1>2. /\ IsFiniteSet(A') /\ IsFiniteSet(P') /\ Cardinality(A') \in Nat
      /\ Cardinality(P') \in Nat /\ Cardinality(P') <= Cardinality(Handler)
  <2>1. A' \subseteq RelayId /\ P' \subseteq Handler
    BY DEF ActiveRelays, PastQuota
  <2> QED BY <2>1, FiniteRelays, FiniteHandlers, FS_Subset, FS_CardinalityType DEF Handler
<1>3. \A g \in Handler : g # h => handler'[g] = handler[g]
  BY DEF Moved, HandlerMoves
<1>4. CASE /\ handler'[h].pc \in PastQuotaSteps /\ handler[h].pc \notin PastQuotaSteps
           /\ handler'[h].chat = chat
  <2>1. UNCHANGED storeVars /\ ~AtCap(h) /\ handler[h].chat = chat
    BY <1>4 DEF Moved, HandlerPasses
  <2> DEFINE B == ActiveRelays(chat, handler[h].now)
  <2>2. A' \subseteq B
    <3>1. \A r \in RelayId : relays[r].expiresAt \in Int
      BY DEF BatchTypeOK, TypeOK, Row
    <3> QED BY <1>0, <2>1, <3>1 DEF ActiveRelays, storeVars
  <2>3. Cardinality(A') <= Cardinality(B) /\ Cardinality(B) \in Nat
    BY <2>2, CapSetsFinite, FS_Subset
  <2>4. Cardinality(B) < MaxActiveRelays
    BY <1>0, <2>1, <2>3 DEF AtCap
  <2> QED BY <1>0, <1>1, <1>2, <2>3, <2>4
<1>5. CASE ~(/\ handler'[h].pc \in PastQuotaSteps /\ handler[h].pc \notin PastQuotaSteps
             /\ handler'[h].chat = chat)
  <2>1. P' \subseteq P
    BY <1>3, <1>5 DEF PastQuota, Moved, HandlerPasses
  <2>2. CASE \A r \in RelayId : ~(NewlyReady(r) /\ relays'[r].chat = chat)
    <3>1. A' \subseteq A
      BY <1>0, <2>2, ActiveOrNew
    <3> QED BY <1>0, <1>1, <1>2, <2>1, <3>1, FS_Subset
  <2>3. ASSUME NEW q \in RelayId, NewlyReady(q), relays'[q].chat = chat
        PROVE  Cardinality(A') + Cardinality(P') <= MaxActiveRelays - 1 + Cardinality(Handler)
    <3>1. \A r \in RelayId \ {q} : ~(NewlyReady(r) /\ relays'[r].chat = chat)
      BY <2>3 DEF Moved, HandlerSeals
    <3>2. A' \subseteq A \cup {q}
      BY <1>0, <3>1, ActiveOrNew
    <3>3. h \in P /\ h \notin P'
      BY <2>3 DEF Moved, HandlerSeals, PastQuota
    <3>4. Cardinality(A') <= Cardinality(A) + 1
      <4>1. /\ IsFiniteSet(A \cup {q})
            /\ Cardinality(A \cup {q}) = IF q \in A THEN Cardinality(A) ELSE Cardinality(A) + 1
        BY <1>1, FS_AddElement
      <4>2. Cardinality(A') <= Cardinality(A \cup {q})
        BY <3>2, <4>1, FS_Subset
      <4> QED BY <1>1, <1>2, <4>1, <4>2
    <3>5. Cardinality(P') <= Cardinality(P) - 1
      <4>1. P' \subseteq P \ {h}
        BY <2>1, <3>3
      <4>2. IsFiniteSet(P \ {h}) /\ Cardinality(P \ {h}) = Cardinality(P) - 1
        BY <1>1, <3>3, FS_RemoveElement
      <4> QED BY <4>1, <4>2, FS_Subset
    <3> QED BY <1>0, <1>1, <1>2, <3>4, <3>5
  <2> QED BY <2>2, <2>3
<1> QED BY <1>4, <1>5

(* What one handler does to its own part keeps the whole invariant. *)
LEMMA OneHandlerMoves ==
    ASSUME BatchInv, TablesMove, NEW h \in Handler, Moved(h)
    PROVE  BatchInv'
<1>0. /\ BatchTypeOK /\ worker.now <= clock /\ CodesAgree /\ ActiveCapSlack
      /\ FinishedBatchNotEmpty
      /\ \A g \in Handler : HandlerRight(g)
      /\ \A c \in Chat : SessionRight(c)
  BY DEF BatchInv
<1>1. /\ HandlerMoves(h) /\ SessionsMove(h) /\ HandlerSeals(h) /\ CacheMoves
      /\ clock' = clock /\ worker' = worker /\ faults' \in 0 .. MaxFaults
  BY DEF Moved
<1>2. clock \in Nat /\ clock' \in Nat /\ clock <= clock'
  BY <1>0, <1>1, LimitsPositive DEF BatchTypeOK
<1>3. BatchTypeOK' /\ worker'.now <= clock'
  <2>1. TypeOK'
    BY DEF TablesMove, StoreFacts, StoreInv
  <2> QED BY <1>0, <1>1, <2>1 DEF BatchTypeOK, HandlerMoves, SessionsMove, CacheMoves
<1>4. \A g \in Handler : HandlerRight(g)'
  <2> SUFFICES ASSUME NEW g \in Handler PROVE HandlerRight(g)'
    OBVIOUS
  <2>1. CASE g = h
    BY <1>1, <2>1 DEF HandlerMoves
  <2>2. CASE g # h
    <3>1. handler'[g] = handler[g] /\ tx'[g] = tx[g]
      BY <1>1, <2>2 DEF HandlerMoves
    <3> QED BY <1>0, <1>2, <3>1, OthersStayRight
  <2> QED BY <2>1, <2>2
<1>5. \A c \in Chat : SessionRight(c)'
  <2> SUFFICES ASSUME NEW c \in Chat PROVE SessionRight(c)'
    OBVIOUS
  <2> QED BY <1>0, <1>1, SessionsStayRight DEF SessionsMove
<1>6. CodesAgree'
  <2>1. \A c \in Code : codeCache'[c] # NoRelay => relays'[codeCache'[c]].code = c
    BY <1>0, <1>1, CacheStaysRight
  <2> QED BY <1>4, <2>1 DEF CodesAgree, HandlerRight, HandlerCode
<1>7. ActiveCapSlack'
  BY <1>0, CapKept
<1>8. FinishedBatchNotEmpty'
  <2> SUFFICES ASSUME NEW r \in RelayId, relays'[r].status \in {"ready", "expired"},
                      relays'[r].src = NoUpdate
               PROVE  ItemsOf(r)' # {}
    BY DEF FinishedBatchNotEmpty
  <2>1. CASE NewlyReady(r)
    BY <1>1, <2>1 DEF HandlerSeals
  <2>2. CASE ~NewlyReady(r)
    <3>1. relays[r].status \in {"ready", "expired"}
      BY <2>2 DEF TablesMove, RowStep, NewlyReady
    <3>2. relays[r].src = NoUpdate /\ ItemsOf(r)' = ItemsOf(r)
      BY <3>1 DEF TablesMove, RowGrows, Exists, RowStatus
    <3> QED BY <1>0, <3>1, <3>2 DEF FinishedBatchNotEmpty
  <2> QED BY <2>1, <2>2
<1> QED BY <1>3, <1>4, <1>5, <1>6, <1>7, <1>8 DEF BatchInv

-----------------------------------------------------------------------------
(* Nobody moves: the worker, the clock or a crash.                         *)

(* The worker and the clock make no relay ready, a crash only forgets what *)
(* handlers held, and the clock only drops sessions and active relays.     *)
NobodyMoved ==
    /\ \A r \in RelayId : ~NewlyReady(r)
    /\ \A g \in Handler : \/ handler'[g] = handler[g] /\ tx'[g] = tx[g]
                          \/ handler'[g] = Idle /\ tx'[g] = NoTx
    /\ handler' \in [Handler -> HandlerState]
    /\ session' \in [Chat -> Session]
    /\ \A c \in Chat : session'[c] \in {session[c], NoSession}
    /\ codeCache' = codeCache
    /\ clock' \in 0 .. MaxClock /\ clock <= clock'
    /\ worker' \in WorkerState /\ worker'.now <= clock'
    /\ faults' \in 0 .. MaxFaults

(* A handler that has been stopped is right. *)
LEMMA IdleIsRight ==
    ASSUME NEW g \in Handler, handler'[g] = Idle, tx'[g] = NoTx, clock' \in Nat
    PROVE  HandlerRight(g)'
<1>1. HandlerShape(g)'
  BY DEF HandlerShape, Idle, OpsAt, NoRelayNeeded
<1>2. HandlerCounts(g)' /\ HandlerCode(g)' /\ HandlerTx(g)'
  BY DEF HandlerCounts, HandlerCode, HandlerTx, Idle, NoTx
<1> QED BY <1>1, <1>2 DEF HandlerRight

LEMMA NobodyMoves ==
    ASSUME BatchInv, TablesMove, NobodyMoved
    PROVE  BatchInv'
<1>0. /\ BatchTypeOK /\ worker.now <= clock /\ CodesAgree /\ ActiveCapSlack
      /\ FinishedBatchNotEmpty
      /\ \A g \in Handler : HandlerRight(g)
      /\ \A c \in Chat : SessionRight(c)
  BY DEF BatchInv
<1>1. /\ clock \in Int /\ clock' \in Int /\ clock' \in Nat /\ clock <= clock'
      /\ MaxActiveRelays \in Nat
  BY <1>0, LimitsPositive DEF BatchTypeOK, NobodyMoved
<1>2. BatchTypeOK' /\ worker'.now <= clock'
  <2>1. TypeOK'
    BY DEF TablesMove, StoreFacts, StoreInv
  <2> QED BY <1>0, <2>1 DEF BatchTypeOK, NobodyMoved
<1>3. \A g \in Handler : HandlerRight(g)'
  <2> SUFFICES ASSUME NEW g \in Handler PROVE HandlerRight(g)'
    OBVIOUS
  <2>1. CASE handler'[g] = handler[g] /\ tx'[g] = tx[g]
    BY <1>0, <1>1, <2>1, OthersStayRight
  <2>2. CASE handler'[g] = Idle /\ tx'[g] = NoTx
    BY <1>1, <2>2, IdleIsRight
  <2> QED BY <2>1, <2>2 DEF NobodyMoved
<1>4. \A c \in Chat : SessionRight(c)'
  BY <1>0, SessionsStayRight DEF NobodyMoved
<1>5. CodesAgree'
  <2>1. CacheMoves
    BY <1>0 DEF NobodyMoved, CacheMoves, BatchTypeOK
  <2>2. \A c \in Code : codeCache'[c] # NoRelay => relays'[codeCache'[c]].code = c
    BY <1>0, <2>1, CacheStaysRight
  <2> QED BY <1>3, <2>2 DEF CodesAgree, HandlerRight, HandlerCode
<1>6. ActiveCapSlack'
  <2> SUFFICES ASSUME NEW chat \in Chat
               PROVE  Cardinality(ActiveRelays(chat, clock)') + Cardinality(PastQuota(chat)')
                      <= MaxActiveRelays - 1 + Cardinality(Handler)
    BY DEF ActiveCapSlack
  <2> DEFINE A == ActiveRelays(chat, clock)
             P == PastQuota(chat)
  <2>1. A' \subseteq A
    BY <1>1, ActiveOrNew DEF NobodyMoved
  <2>2. P' \subseteq P
    BY DEF PastQuota, NobodyMoved, Idle, PastQuotaSteps
  <2>3. IsFiniteSet(A) /\ IsFiniteSet(P) /\ Cardinality(Handler) \in Nat
    BY CapSetsFinite
  <2>4. /\ Cardinality(A') <= Cardinality(A) /\ Cardinality(P') <= Cardinality(P)
        /\ Cardinality(A') \in Nat /\ Cardinality(P') \in Nat
        /\ Cardinality(A) \in Nat /\ Cardinality(P) \in Nat
    BY <2>1, <2>2, <2>3, FS_Subset, FS_CardinalityType
  <2>5. Cardinality(A) + Cardinality(P) <= MaxActiveRelays - 1 + Cardinality(Handler)
    BY <1>0 DEF ActiveCapSlack
  <2> QED BY <1>1, <2>3, <2>4, <2>5
<1>7. FinishedBatchNotEmpty'
  <2> SUFFICES ASSUME NEW r \in RelayId, relays'[r].status \in {"ready", "expired"},
                      relays'[r].src = NoUpdate
               PROVE  ItemsOf(r)' # {}
    BY DEF FinishedBatchNotEmpty
  <2>1. relays[r].status \in {"ready", "expired"}
    BY DEF TablesMove, RowStep, NewlyReady, NobodyMoved
  <2>2. relays[r].src = NoUpdate /\ ItemsOf(r)' = ItemsOf(r)
    BY <2>1 DEF TablesMove, RowGrows, Exists, RowStatus
  <2> QED BY <1>0, <2>1, <2>2 DEF FinishedBatchNotEmpty
<1> QED BY <1>2, <1>3, <1>4, <1>5, <1>6, <1>7 DEF BatchInv

(* Deletions and expiries, and the steps of the clock, make nothing ready. *)
LEMMA MaintenanceMovesNobody ==
    ASSUME BatchInv, TablesMove, Maintain \/ Crash \/ Tick \/ UNCHANGED vars
    PROVE  NobodyMoved
<1>0. /\ BatchTypeOK /\ worker.now <= clock
      /\ clock \in 0 .. MaxClock /\ clock \in Nat /\ faults \in 0 .. MaxFaults
      /\ worker.now \in Nat
      /\ handler \in [Handler -> HandlerState] /\ session \in [Chat -> Session]
      /\ worker \in WorkerState
  BY DEF BatchInv, BatchTypeOK, WorkerState
<1>1. Idle \in HandlerState /\ NoSession \in Session
  BY DEF Idle, HandlerState, Operation, Step, NoSession, Session
<1>2. Fault => faults' \in 0 .. MaxFaults
  BY <1>0, LimitsPositive DEF Fault
<1>3. ASSUME relays' = relays \/ \E S \in SUBSET RelayId : DeleteRows(S)
      PROVE  \A r \in RelayId : ~NewlyReady(r)
  BY <1>3 DEF NewlyReady, DeleteRows, DeletedRow
<1>4. CASE WorkerPurge
  <2>1. \A r \in RelayId : ~NewlyReady(r)
    BY <1>3, <1>4 DEF WorkerPurge, DeleteCollectingRelaysBefore, StaleCollecting, storeVars
  <2>2. tx' = tx
    BY <1>4 DEF WorkerPurge, DeleteCollectingRelaysBefore, DeleteRows, storeVars
  <2> QED BY <1>0, <1>2, <1>4, <2>1, <2>2 DEF WorkerPurge, NobodyMoved, WorkerState
<1>5. CASE WorkerExpire
  <2>1. \A r \in RelayId : ~NewlyReady(r)
    <3>1. CASE ExpireRelays(worker.now)
      <4>1. \A r \in RelayId : relays[r] \in Row
        BY <1>0 DEF BatchTypeOK, TypeOK
      <4> QED BY <3>1, <4>1 DEF ExpireRelays, NewlyReady, Row
    <3> QED BY <1>3, <1>5, <3>1 DEF WorkerExpire, storeVars
  <2>2. tx' = tx
    BY <1>5 DEF WorkerExpire, ExpireRelays, storeVars
  <2> QED BY <1>0, <1>2, <1>5, <2>1, <2>2 DEF WorkerExpire, NobodyMoved, WorkerState
<1>6. CASE Crash
  BY <1>0, <1>1, <1>2, <1>3, <1>6
     DEF Crash, RollbackAll, NobodyMoved, WorkerState, Handler
<1>7. CASE Tick
  <2>1. \A c \in Chat : session'[c] \in {session[c], NoSession}
    BY <1>7 DEF Tick
  <2>2. session' \in [Chat -> Session]
    BY <1>0, <1>1, <1>7 DEF Tick
  <2>3. clock' \in 0 .. MaxClock /\ clock <= clock'
    BY <1>0, <1>7, LifetimesPositive DEF Tick
  <2> QED BY <1>0, <1>3, <1>7, <2>1, <2>2, <2>3 DEF Tick, NobodyMoved, storeVars
<1>8. CASE UNCHANGED vars
  BY <1>0, <1>3, <1>8 DEF vars, batchVars, storeVars, NobodyMoved
<1> QED BY <1>4, <1>5, <1>6, <1>7, <1>8 DEF Maintain

-----------------------------------------------------------------------------
(* Codes of ready relays.                                                  *)

(* A relay that is or was ready has a code. *)
ReadyHasCode ==
    \A r \in RelayId : relays[r].status \in {"ready", "expired"} => relays[r].code # NoCode

LEMMA ReadyKeepsCode ==
    ASSUME StoreFacts, ReadyHasCode, [StoreNext]_storeVars
    PROVE  ReadyHasCode'
<1> SUFFICES ASSUME NEW r \in RelayId, relays'[r].status \in {"ready", "expired"}
             PROVE  relays'[r].code # NoCode
  BY DEF ReadyHasCode
<1>0. TypeOK /\ OpenTransactions /\ CodesUnique /\ RowStep(r)
  BY StepsOfARow DEF StoreFacts, StoreInv
<1>1. CASE relays[r].status \in {"ready", "expired"}
  BY <1>0, <1>1 DEF RowStep, ReadyHasCode
<1>2. ASSUME relays[r].status \in {"unused", "collecting"}
      PROVE  relays'[r].code # NoCode
  <2>0. NoCode \notin Code /\ relays'[r].status = "ready" /\ relays[r] \in Row
    BY <1>0, <1>2, NullsAreNotValues DEF RowStep, TypeOK
  <2>1. ASSUME NEW t \in Tx, NEW q \in RelayId, NEW u \in Update, NEW c \in Code,
               NEW chat \in Chat, NEW e \in Time, NEW at \in Time,
               CreateRelayOfFiledUpload(t, q, u, c, chat, e, at)
        PROVE  relays'[r].code # NoCode
    BY <1>0, <1>2, <2>0, <2>1 DEF CreateRelayOfFiledUpload, ReadyRow, TypeOK
  <2>2. ASSUME NEW t \in Tx, CommitInsert(t) PROVE relays'[r].code # NoCode
    <3>1. /\ relays' = [relays EXCEPT ![tx[t].relay] = CommittedRow(t)]
          /\ tx[t].op \in {"add", "create"} /\ tx[t].relay \in RelayId
      BY <1>0, <2>2, InsertedItem DEF CommitInsert
    <3>2. tx[t].op = "create" /\ r = tx[t].relay
      <4>1. ASSUME tx[t].op = "add", r = tx[t].relay PROVE FALSE
        <5>1. relays'[r] = [relays[r] EXCEPT !.updatedAt = tx[t].at]
          BY <1>0, <3>1, <4>1 DEF CommittedRow, TypeOK
        <5> QED BY <1>2, <2>0, <5>1 DEF Row
      <4>2. r # tx[t].relay => relays'[r] = relays[r]
        BY <1>0, <3>1 DEF TypeOK
      <4> QED BY <1>2, <2>0, <3>1, <4>1, <4>2
    <3>3. relays'[r] = tx[t].row
      BY <1>0, <3>1, <3>2 DEF CommittedRow, TypeOK
    <3> QED BY <1>0, <2>0, <3>2, <3>3 DEF CodesUnique
  <2>3. ASSUME NEW q \in RelayId, NEW c \in Code, NEW e \in Time, NEW at \in Time,
               FinalizeRelayBatch(q, c, e, at)
        PROVE  relays'[r].code # NoCode
    <3>1. /\ relays' = [relays EXCEPT ![q].status = "ready", ![q].code = c,
                                      ![q].expiresAt = e, ![q].updatedAt = at]
      BY <2>3 DEF FinalizeRelayBatch
    <3>2. r = q
      BY <1>0, <1>2, <2>0, <3>1 DEF TypeOK
    <3>3. relays'[r].code = c
      BY <1>0, <3>1, <3>2 DEF TypeOK, Row
    <3> QED BY <2>0, <3>3
  <2>4. ASSUME NEW q \in RelayId, NEW chat \in Chat, NEW at \in Time,
               CreateRelayBatch(q, chat, at)
        PROVE  FALSE
    BY <1>0, <1>2, <2>0, <2>4 DEF CreateRelayBatch, TypeOK
  <2>5. ASSUME NEW S \in SUBSET RelayId, DeleteRows(S) PROVE FALSE
    BY <1>2, <2>0, <2>5 DEF DeleteRows, DeletedRow
  <2>6. ASSUME NEW now \in Time, ExpireRelays(now) PROVE FALSE
    BY <1>2, <2>0, <2>6 DEF ExpireRelays
  <2>7. relays' # relays
    BY <1>2, <2>0
  <2>8. ASSUME NEW t \in Tx, TxNext(t) PROVE relays'[r].code # NoCode
    BY <2>1, <2>2, <2>7, <2>8
       DEF TxNext, CreateRelay, AddRelayItem, InsertItem, RollbackInsert
  <2>9. CASE StatementNext
    BY <2>3, <2>4, <2>5, <2>6, <2>7, <2>9
       DEF StatementNext, RollbackAll, DeleteRelay, DeleteCollectingRelaysBefore,
           StaleCollecting
  <2> QED BY <2>7, <2>8, <2>9 DEF StoreNext, storeVars
<1>3. relays[r].status # "deleted"
  BY <1>0 DEF RowStep, Exists, RowStatus
<1>4. relays[r].status \in RowStatus \cup {"unused", "deleted"}
  BY <1>0 DEF TypeOK, Row
<1> QED BY <1>1, <1>2, <1>3, <1>4 DEF RowStatus

-----------------------------------------------------------------------------
(* What each action of a handler does: first, what it leaves alone.        *)

LEMMA NextSteps ==
    /\ \A op \in {"start", "upload", "finish", "cancel"} :
          WithoutSession(op) = IF op = "start" THEN "create"
                               ELSE IF op = "upload" THEN "lookup" ELSE "idle"
    /\ \A op \in {"start", "upload", "finish", "cancel"} : \A status :
          AfterCheck(op, status) =
              IF status = "collecting"
              THEN IF op = "start" THEN "idle" ELSE IF op = "upload" THEN "insert"
                   ELSE IF op = "finish" THEN "list" ELSE "delete"
              ELSE IF status = "ready" /\ op = "finish" THEN "relist" ELSE "drop"
BY DEF WithoutSession, AfterCheck

(* AddRelayItem inserts, or has nothing to do, for one of four reasons. *)
LEMMA AppendOutcomes ==
    ASSUME StoreFacts, NEW h \in Handler, handler[h].relay \in RelayId, AppendInsert(h)
    PROVE  \/ /\ AddRelayItem(h, handler[h].relay, handler[h].src, handler[h].now)
              /\ Go(h, "file")
           \/ /\ UNCHANGED storeVars
              /\ Go(h, "lookup") \/ Go(h, "recount") \/ Return(h)
<1>1. relays[handler[h].relay].status \in RowStatus \cup {"unused", "deleted"}
  BY DEF StoreFacts, StoreInv, TypeOK, Row
<1>2. AddRelayItemResult(handler[h].relay, handler[h].src)
        \in {"relay_not_found", "not_collecting", "duplicate", "item_limit", "insert"}
  BY <1>1 DEF AddRelayItemResult, RowStatus
<1> QED BY <1>2 DEF AppendInsert

(* Only h moves. *)
Alone(h) ==
    /\ handler' \in [Handler -> HandlerState]
    /\ \A g \in Handler \ {h} : handler'[g] = handler[g] /\ tx'[g] = tx[g]
    /\ clock' = clock /\ worker' = worker /\ faults' \in 0 .. MaxFaults

LEMMA HandlersMoveAlone ==
    ASSUME BatchInv, StoreFacts, NEW h \in Handler, Receive(h) \/ Proceed(h) \/ Fail(h)
    PROVE  Alone(h)
<1> DEFINE s == handler[h]
           OneChanges == /\ handler' \in [Handler -> HandlerState]
                         /\ \A g \in Handler \ {h} : handler'[g] = handler[g]
<1>0. /\ handler \in [Handler -> HandlerState] /\ s \in HandlerState
      /\ clock \in Nat /\ faults \in 0 .. MaxFaults /\ MaxFaults \in Nat
      /\ session \in [Chat -> Session]
      /\ tx \in [Tx -> TxRecord]
      /\ HandlerRight(h)
  BY LimitsPositive DEF BatchInv, BatchTypeOK, TypeOK
<1>1. /\ s.pc # "idle" => s.chat \in Chat
      /\ s.op = "upload" => s.src \in Update
      /\ s.pc \notin NoRelayNeeded => s.relay \in RelayId
      /\ s.pc \in {"load", "check", "drop"} => s.op \in {"start", "upload", "finish", "cancel"}
  BY <1>0 DEF HandlerRight, HandlerShape, HandlerCounts, Opened, OpsAt
<1>2. Idle \in HandlerState
  BY DEF Idle, HandlerState, Operation, Step
<1>3. ASSUME Return(h) PROVE OneChanges
  BY <1>0, <1>2, <1>3 DEF Return
<1>4. ASSUME NEW pc \in Step, Go(h, pc) PROVE OneChanges
  BY <1>0, <1>4 DEF Go, HandlerState
<1>5. ASSUME NEW pc \in Step, Continue(h, pc) PROVE OneChanges
  BY <1>3, <1>4, <1>5 DEF Continue
<1>6. Fault => faults' \in 0 .. MaxFaults
  BY <1>0 DEF Fault
<1>7. CASE Receive(h)
  <2> SUFFICES ASSUME NEW op \in {"start", "finish", "cancel", "upload"}, NEW chat \in Chat,
                      NEW u \in Update \cup {NoUpdate}, Begin(h, op, chat, u, "load")
               PROVE  Alone(h)
    BY <1>7 DEF Receive
  <2> DEFINE now == IF op = "cancel" THEN 0 ELSE clock
  <2>1. [Idle EXCEPT !.op = op, !.pc = "load", !.chat = chat, !.src = u, !.now = now]
           \in HandlerState
    <3>1. now \in Nat /\ op \in Operation /\ "load" \in Step
      BY <1>0 DEF Operation, Step
    <3> QED BY <1>2, <3>1 DEF HandlerState
  <2>2. OneChanges
    BY <1>0, <2>1 DEF Begin
  <2> QED BY <1>0, <2>2 DEF Begin, Alone, storeVars
<1>8. CASE LoadSession(h)
  <2>1. s.op \in {"start", "upload", "finish", "cancel"} /\ s.chat \in Chat
    BY <1>1, <1>8 DEF LoadSession
  <2>2. WithoutSession(s.op) \in Step
    BY <2>1, NextSteps DEF Step
  <2>3. session[s.chat].relay \in RelayId \cup {NoRelay}
    BY <1>0, <2>1 DEF Session
  <2>4. OneChanges
    <3>1. CASE Continue(h, WithoutSession(s.op))
      BY <1>5, <2>2, <3>1
    <3>2. CASE ~Continue(h, WithoutSession(s.op))
      <4>1. PICK r \in RelayId \cup {NoRelay} : r = session[s.chat].relay
        BY <2>3
      <4>2. handler' = [handler EXCEPT ![h].pc = "check", ![h].relay = r]
        BY <1>8, <3>2, <4>1 DEF LoadSession
      <4>3. [s EXCEPT !.pc = "check", !.relay = r] \in HandlerState
        BY <1>0 DEF HandlerState, Step
      <4> QED BY <1>0, <4>2, <4>3
    <3> QED BY <3>1, <3>2
  <2> QED BY <1>0, <1>8, <2>4 DEF LoadSession, Alone, storeVars
<1>9. CASE CheckSessionRelay(h)
  <2>1. AfterCheck(s.op, relays[s.relay].status) \in Step
    BY <1>1, <1>9, NextSteps DEF CheckSessionRelay, Step
  <2> QED BY <1>0, <1>5, <1>9, <2>1 DEF CheckSessionRelay, Alone, storeVars
<1>10. CASE DropStaleSession(h)
  <2>1. WithoutSession(s.op) \in Step
    BY <1>1, <1>10, NextSteps DEF DropStaleSession, Step
  <2> QED BY <1>0, <1>5, <1>6, <1>10, <2>1
          DEF DropStaleSession, DeleteSession, Alone, storeVars
<1>11. ASSUME StartCreate(h) \/ StartSetSession(h) \/ StartUndo(h) \/ StartSetFails(h)
       PROVE  Alone(h)
  <2>1. CASE StartCreate(h)
    <3>1. PICK r \in RelayId :
              /\ CreateRelayBatch(r, s.chat, s.now)
              /\ handler' = [handler EXCEPT ![h].pc = "set", ![h].relay = r, ![h].count = 0]
      BY <2>1 DEF StartCreate
    <3>2. OneChanges
      BY <1>0, <3>1 DEF HandlerState, Step
    <3> QED BY <1>0, <2>1, <3>1, <3>2 DEF StartCreate, CreateRelayBatch, Alone
  <2>2. CASE StartSetSession(h) \/ StartSetFails(h)
    BY <1>0, <1>3, <1>4, <1>6, <2>2
       DEF StartSetSession, StartSetFails, Alone, storeVars, Step
  <2>3. CASE StartUndo(h)
    BY <1>0, <1>3, <2>3 DEF StartUndo, RemoveRelay, DeleteRelay, DeleteRows, Alone, storeVars
  <2> QED BY <1>11, <2>1, <2>2, <2>3
<1>12. InsertItem(h) \/ CommitInsert(h) \/ RollbackInsert(h) \/ tx' = tx
          => \A g \in Handler \ {h} : tx'[g] = tx[g]
  BY <1>0 DEF InsertItem, CommitInsert, RollbackInsert, Released, Handler
<1>13. ASSUME AppendInsert(h) \/ AppendRecount(h) PROVE Alone(h)
  <2>1. CASE AppendInsert(h)
    <3>0. s.relay \in RelayId
      BY <1>1, <2>1 DEF AppendInsert, At, NoRelayNeeded
    <3>1. OneChanges
      BY <1>3, <1>4, <2>1, <3>0, AppendOutcomes DEF Step
    <3>2. \A g \in Handler \ {h} : tx'[g] = tx[g]
      BY <1>0, <2>1 DEF AppendInsert, AddRelayItem, storeVars, Handler
    <3> QED BY <1>0, <2>1, <3>1, <3>2 DEF AppendInsert, Alone
  <2>2. CASE AppendRecount(h)
    <3>1. OneChanges
      BY <1>0, <2>2, ItemsFinite DEF AppendRecount, HandlerState, Step
    <3> QED BY <1>0, <2>2, <3>1 DEF AppendRecount, Alone, storeVars
  <2> QED BY <1>13, <2>1, <2>2
<1>14. ASSUME \/ FileItem(h) \/ FileConflict(h) \/ AppendCommit(h) \/ CreateCommit(h)
              \/ CommitAnswerLost(h) \/ CallFails(h)
       PROVE  Alone(h)
  <2>1. tx[h] \in TxRecord
    BY <1>0 DEF Handler
  <2>2. OneChanges
    <3>1. CASE AppendCommit(h)
      BY <1>0, <2>1, <3>1 DEF AppendCommit, HandlerState, Step, TxRecord
    <3>2. CASE CreateCommit(h)
      BY <1>0, <2>1, <3>2 DEF CreateCommit, HandlerState, Step, TxRecord, Row
    <3>3. CASE ~(AppendCommit(h) \/ CreateCommit(h))
      BY <1>3, <1>4, <1>14, <3>3
         DEF FileItem, FileConflict, CommitAnswerLost, CallFails, Step
    <3> QED BY <3>1, <3>2, <3>3
  <2>3. LostCommit(h) => CommitInsert(h) \/ tx' = tx
    BY DEF LostCommit, CreateRelayBatch, CreateRelayOfFiledUpload, FinalizeRelayBatch,
           RemoveRelay, DeleteRelay, DeleteRows, storeVars
  <2>4. \A g \in Handler \ {h} : tx'[g] = tx[g]
    BY <1>12, <1>14, <2>3
       DEF FileItem, FileConflict, AppendCommit, CreateCommit, CommitAnswerLost, CallFails,
           storeVars
  <2>5. clock' = clock /\ worker' = worker /\ faults' \in 0 .. MaxFaults
    BY <1>0, <1>6, <1>14
       DEF FileItem, FileConflict, AppendCommit, CreateCommit, CommitAnswerLost, CallFails
  <2> QED BY <2>2, <2>4, <2>5 DEF Alone
<1>15. ASSUME \/ AppendMerge(h) \/ ProgressLoad(h) \/ ProgressMerge(h) \/ CreateLookup(h)
              \/ CreateQuota(h) \/ WarmCodeCache(h) \/ InstanceExhausted(h)
       PROVE  Alone(h)
  <2>1. OneChanges
    <3>1. CASE ProgressLoad(h)
      <4>1. ProgressLoad(h) => s.chat \in Chat
        BY <1>1 DEF ProgressLoad
      <4>2. session[s.chat].count \in Nat
        BY <1>0, <3>1, <4>1 DEF Session
      <4> QED BY <1>0, <1>3, <3>1, <4>2 DEF ProgressLoad, HandlerState, Step
    <3>2. CASE CreateLookup(h)
      BY <1>0, <1>3, <3>2 DEF CreateLookup, HandlerState, Step
    <3>3. CASE ~(ProgressLoad(h) \/ CreateLookup(h))
      BY <1>3, <1>4, <1>15, <3>3
         DEF AppendMerge, ProgressMerge, CreateQuota, WarmCodeCache, InstanceExhausted, Step
    <3> QED BY <3>1, <3>2, <3>3
  <2> QED BY <1>0, <1>6, <1>15, <2>1
          DEF AppendMerge, ProgressLoad, ProgressMerge, CreateLookup, CreateQuota,
              WarmCodeCache, InstanceExhausted, Alone, storeVars
<1>16. ASSUME CreatePersist(h) PROVE Alone(h)
  <2>1. OneChanges
    <3>1. ASSUME NEW r \in RelayId, NEW c \in Code,
                 handler' = [handler EXCEPT ![h].pc = "warm", ![h].relay = r, ![h].code = c]
          PROVE  OneChanges
      BY <1>0, <3>1 DEF HandlerState, Step
    <3> QED BY <1>3, <1>4, <1>16, <3>1 DEF CreatePersist, Step
  <2>2. \A g \in Handler \ {h} : tx'[g] = tx[g]
    BY <1>0, <1>16
       DEF CreatePersist, CreateRelay, CreateRelayOfFiledUpload, storeVars, Handler
  <2> QED BY <1>0, <1>16, <2>1, <2>2 DEF CreatePersist, Alone
<1>17. ASSUME \/ FinishRelist(h) \/ FinishList(h) \/ FinishQuota(h) \/ FinishRecheck(h)
              \/ FinishFinalize(h) \/ FinishClear(h)
       PROVE  Alone(h)
  <2>0. s.relay \in RelayId => relays[s.relay].code \in Code \cup {NoCode}
    BY DEF StoreFacts, StoreInv, TypeOK, Row
  <2>1. CASE FinishRelist(h)
    <3>1. s.relay \in RelayId
      BY <1>1, <2>1 DEF FinishRelist, At, NoRelayNeeded
    <3>2. OneChanges
      BY <1>0, <2>0, <2>1, <3>1, ItemsFinite DEF FinishRelist, HandlerState, Step
    <3> QED BY <1>0, <2>1, <3>2 DEF FinishRelist, Alone, storeVars
  <2>2. CASE FinishList(h) \/ FinishQuota(h) \/ FinishClear(h)
    <3>1. OneChanges
      BY <1>0, <1>3, <1>4, <2>2, ItemsFinite
         DEF FinishList, FinishQuota, FinishClear, HandlerState, Step
    <3> QED BY <1>0, <1>6, <2>2, <3>1
            DEF FinishList, FinishQuota, FinishClear, DeleteSession, Alone, storeVars
  <2>3. CASE FinishRecheck(h)
    <3>1. s.relay \in RelayId
      BY <1>1, <2>3 DEF FinishRecheck, At, NoRelayNeeded
    <3>2. OneChanges
      BY <1>0, <1>3, <2>0, <2>3, <3>1 DEF FinishRecheck, HandlerState, Step
    <3> QED BY <1>0, <2>3, <3>2 DEF FinishRecheck, Alone, storeVars
  <2>4. CASE FinishFinalize(h)
    <3>1. s.relay \in RelayId
      BY <1>1, <2>4 DEF FinishFinalize, At, NoRelayNeeded
    <3>2. OneChanges
      BY <1>0, <1>3, <2>0, <2>4, <3>1 DEF FinishFinalize, HandlerState, Step
    <3> QED BY <1>0, <2>4, <3>2 DEF FinishFinalize, FinalizeRelayBatch, Alone, storeVars
  <2> QED BY <1>17, <2>1, <2>2, <2>3, <2>4
<1>18. ASSUME CancelDelete(h) \/ CancelClear(h) PROVE Alone(h)
  <2>1. OneChanges
    BY <1>3, <1>4, <1>18 DEF CancelDelete, CancelClear, Step
  <2> QED BY <1>0, <1>6, <1>18, <2>1
          DEF CancelDelete, CancelClear, DeleteSession, RemoveRelay, DeleteRelay, DeleteRows,
              Alone, storeVars
<1> QED BY <1>7, <1>8, <1>9, <1>10, <1>11, <1>13, <1>14, <1>15, <1>16, <1>17, <1>18
        DEF Proceed, Fail

(* The facts about a handler and its relay that every action starts from. *)
Poised(h) ==
    /\ handler \in [Handler -> HandlerState] /\ handler[h] \in HandlerState
    /\ session \in [Chat -> Session]
    /\ tx[h] \in TxRecord /\ OpenTransaction(h) /\ HandlerRight(h)
    /\ handler[h].pc # "idle" => handler[h].chat \in Chat
    /\ handler[h].op = "upload" => handler[h].src \in Update
    /\ handler[h].pc \notin NoRelayNeeded =>
          /\ handler[h].relay \in RelayId
          /\ Opened(handler[h].relay, handler[h].chat)
          /\ Counted(handler[h].relay, handler[h].count)
    /\ handler[h].pc \in {"load", "check", "drop"} =>
          handler[h].op \in {"start", "upload", "finish", "cancel"}
    /\ handler[h].now \in Time /\ handler[h].now + RelayTTL \in Time
    /\ clock \in Nat /\ SessionTTL \in Nat

LEMMA HandlersPoised ==
    ASSUME BatchInv, StoreFacts, NEW h \in Handler
    PROVE  Poised(h)
<1>1. /\ BatchTypeOK /\ worker.now <= clock /\ HandlerRight(h) /\ OpenTransaction(h)
  BY DEF BatchInv, StoreFacts, StoreInv, OpenTransactions, Handler
<1>2. handler[h].now \in Time /\ handler[h].now + RelayTTL \in Time
  BY <1>1, ClockInTime
<1>3. /\ handler \in [Handler -> HandlerState] /\ handler[h] \in HandlerState
      /\ session \in [Chat -> Session] /\ tx[h] \in TxRecord
      /\ clock \in Nat /\ SessionTTL \in Nat
  BY <1>1, LimitsPositive, LifetimesPositive DEF BatchTypeOK, TypeOK, Handler
<1>4. /\ handler[h].pc # "idle" => handler[h].chat \in Chat
      /\ handler[h].op = "upload" => handler[h].src \in Update
      /\ handler[h].pc \in {"load", "check", "drop"} =>
            handler[h].op \in {"start", "upload", "finish", "cancel"}
  BY <1>1 DEF HandlerRight, HandlerShape, OpsAt
<1>5. handler[h].pc \notin NoRelayNeeded =>
          /\ Opened(handler[h].relay, handler[h].chat)
          /\ Counted(handler[h].relay, handler[h].count)
  BY <1>1 DEF HandlerRight, HandlerShape, HandlerCounts
<1> QED BY <1>1, <1>2, <1>3, <1>4, <1>5 DEF Poised, Opened

(* Only the handlers past the cap make a relay ready. *)
LEMMA HandlersSeal ==
    ASSUME BatchInv, StoreFacts, TablesMove, NEW h \in Handler,
           Receive(h) \/ Proceed(h) \/ Fail(h)
    PROVE  HandlerSeals(h)
<1> DEFINE s == handler[h]
           Sealed(r) == /\ s.pc \in PastQuotaSteps /\ handler'[h].pc \notin PastQuotaSteps
                        /\ relays'[r].chat = s.chat
                        /\ relays'[r].src # NoUpdate \/ ItemsOf(r)' # {}
                        /\ relays[r].status = "unused" \/ r = s.relay
<1>0. Poised(h)
  BY HandlersPoised
<1>1. /\ \A r \in RelayId : relays[r] \in Row
      /\ relays \in [RelayId -> Row]
      /\ NoUpdate \notin Update
  BY NullsAreNotValues DEF StoreFacts, StoreInv, TypeOK
<1>2. ASSUME relays' = relays \/ \E S \in SUBSET RelayId : DeleteRows(S)
      PROVE  HandlerSeals(h)
  <2>1. \A r \in RelayId : ~NewlyReady(r)
    BY <1>2 DEF NewlyReady, DeleteRows, DeletedRow
  <2> QED BY <2>1 DEF HandlerSeals
<1>3. ASSUME NEW q \in RelayId, Sealed(q), \A r \in RelayId \ {q} : ~NewlyReady(r)
      PROVE  HandlerSeals(h)
  <2>1. \A r \in RelayId : NewlyReady(r) => r = q
    BY <1>3
  <2> QED BY <1>3, <2>1 DEF HandlerSeals
<1>4. Return(h) => handler'[h].pc = "idle"
  BY <1>0 DEF Return, Idle, Poised
<1>5. ASSUME CommitInsert(h), tx[h].op = "add" PROVE HandlerSeals(h)
  <2>1. /\ relays' = [relays EXCEPT ![tx[h].relay] =
                         [relays[tx[h].relay] EXCEPT !.updatedAt = tx[h].at]]
        /\ tx[h].relay \in RelayId
    BY <1>0, <1>5 DEF CommitInsert, CommittedRow, Poised, OpenTransaction
  <2>2. \A r \in RelayId : ~NewlyReady(r)
    BY <1>1, <2>1 DEF NewlyReady, Row
  <2> QED BY <2>2 DEF HandlerSeals
<1>6. ASSUME CommitInsert(h), tx[h].op = "create", s.pc = "publish",
             handler'[h].pc \notin PastQuotaSteps
      PROVE  HandlerSeals(h)
  <2>0. PICK q \in RelayId : q = tx[h].relay
    BY <1>0, <1>6 DEF Poised, OpenTransaction
  <2>1. /\ relays' = [relays EXCEPT ![q] = tx[h].row] /\ q \in RelayId
        /\ relays[q].status = "unused"
        /\ tx[h].row.src \in Update /\ tx[h].row.chat = s.chat
    BY <1>0, <1>6, <2>0
       DEF CommitInsert, CommittedRow, Poised, OpenTransaction, HandlerRight, HandlerTx
  <2>2. Sealed(q)
    BY <1>1, <1>6, <2>1 DEF PastQuotaSteps
  <2>3. \A r \in RelayId \ {q} : ~NewlyReady(r)
    BY <1>1, <2>1 DEF NewlyReady
  <2> QED BY <1>3, <2>1, <2>2, <2>3
<1>7. ASSUME CommitInsert(h), s.pc \in {"commit", "publish"},
             handler'[h].pc \notin PastQuotaSteps
      PROVE  HandlerSeals(h)
  BY <1>0, <1>5, <1>6, <1>7 DEF Poised, HandlerRight, HandlerTx
<1>8. CASE AppendCommit(h) \/ CreateCommit(h)
  <2>1. handler'[h].pc \notin PastQuotaSteps
    BY <1>0, <1>8 DEF AppendCommit, CreateCommit, PastQuotaSteps, Poised, HandlerState
  <2> QED BY <1>7, <1>8, <2>1 DEF AppendCommit, CreateCommit, At
<1>9. ASSUME NEW q \in RelayId, NEW c \in Code, s.pc = "persist",
             handler'[h].pc \notin PastQuotaSteps,
             CreateRelayOfFiledUpload(h, q, s.src, c, s.chat, s.now + RelayTTL, s.now)
      PROVE  HandlerSeals(h)
  <2>1. /\ relays' = [relays EXCEPT
                         ![q] = ReadyRow(s.src, c, s.chat, s.now + RelayTTL, s.now)]
        /\ relays[q].status = "unused"
    BY <1>9 DEF CreateRelayOfFiledUpload, CreateMayInsert, FreshId
  <2>2. s.src \in Update
    BY <1>0, <1>9 DEF Poised, HandlerRight, HandlerShape, OpsAt
  <2>3. Sealed(q)
    BY <1>1, <1>9, <2>1, <2>2 DEF ReadyRow, PastQuotaSteps
  <2>4. \A r \in RelayId \ {q} : ~NewlyReady(r)
    BY <1>1, <2>1 DEF NewlyReady
  <2> QED BY <1>3, <2>3, <2>4
<1>10. ASSUME NEW q \in RelayId, q = s.relay, NEW c \in Code, s.pc = "finalize",
              handler'[h].pc \notin PastQuotaSteps,
              FinalizeRelayBatch(q, c, s.now + RelayTTL, s.now)
       PROVE  HandlerSeals(h)
  <2>1. /\ relays' = [relays EXCEPT ![q].status = "ready", ![q].code = c,
                         ![q].expiresAt = s.now + RelayTTL, ![q].updatedAt = s.now]
        /\ items' = items /\ relays[q].status = "collecting"
    BY <1>10 DEF FinalizeRelayBatch, FinalizeMatches
  <2>2. Opened(q, s.chat) /\ Counted(q, s.count) /\ s.count \in Nat /\ s.count > 0
    BY <1>0, <1>10
       DEF Poised, HandlerState, NoRelayNeeded, HandlerRight, HandlerShape, OpsAt, HandlerCounts
  <2>3. relays'[q].chat = relays[q].chat
    BY <1>1, <2>1 DEF Row
  <2>4. relays[q].chat = s.chat /\ s.count <= Cardinality(ItemsOf(q))
    BY <2>1, <2>2 DEF Opened, Counted, Exists, RowStatus
  <2>5. ItemsOf(q) # {} /\ ItemsOf(q)' = ItemsOf(q)
    <3>1. ItemsOf(q) # {}
      BY <2>2, <2>4, FS_EmptySet
    <3>2. ItemsOf(q)' = ItemsOf(q)
      BY <2>1 DEF ItemsOf
    <3> QED BY <3>1, <3>2
  <2>6. Sealed(q)
    BY <1>10, <2>3, <2>4, <2>5 DEF PastQuotaSteps
  <2>7. \A r \in RelayId \ {q} : ~NewlyReady(r)
    BY <1>1, <2>1 DEF NewlyReady
  <2> QED BY <1>3, <2>6, <2>7
<1>11. ASSUME NEW q \in RelayId, NEW chat, NEW at, CreateRelayBatch(q, chat, at)
       PROVE  HandlerSeals(h)
  <2>1. \A r \in RelayId : ~NewlyReady(r)
    BY <1>1, <1>11 DEF CreateRelayBatch, NewlyReady
  <2> QED BY <2>1 DEF HandlerSeals
<1>12. ASSUME NEW q \in RelayId, RemoveRelay(q) PROVE HandlerSeals(h)
  BY <1>2, <1>12 DEF RemoveRelay, DeleteRelay, storeVars
<1>15. s.pc \notin NoRelayNeeded => s.relay \in RelayId
  BY <1>0 DEF Poised
<1>16. CASE CreatePersist(h) \/ FinishFinalize(h)
  <2>1. CASE relays' = relays
    BY <1>2, <2>1
  <2>2. ASSUME NEW q \in RelayId, NEW c \in Code,
               CreateRelayOfFiledUpload(h, q, s.src, c, s.chat, s.now + RelayTTL, s.now),
               handler' = [handler EXCEPT ![h].pc = "warm", ![h].relay = q, ![h].code = c],
               s.pc = "persist"
        PROVE  HandlerSeals(h)
    <3>1. handler'[h].pc = "warm"
      BY <1>0, <2>2 DEF Poised, HandlerState
    <3> QED BY <1>9, <2>2, <3>1 DEF PastQuotaSteps
  <2>3. ASSUME NEW c \in Code, FinalizeRelayBatch(s.relay, c, s.now + RelayTTL, s.now),
               handler' = [handler EXCEPT ![h].pc = "warm", ![h].code = c],
               s.pc = "finalize"
        PROVE  HandlerSeals(h)
    <3>1. handler'[h].pc = "warm"
      BY <1>0, <2>3 DEF Poised, HandlerState
    <3> QED BY <1>10, <1>15, <2>3, <3>1 DEF PastQuotaSteps, NoRelayNeeded
  <2>4. CASE CreatePersist(h)
    BY <2>1, <2>2, <2>4 DEF CreatePersist, CreateRelay, At, storeVars
  <2>5. CASE FinishFinalize(h)
    BY <2>1, <2>3, <2>5 DEF FinishFinalize, At, storeVars
  <2> QED BY <1>16, <2>4, <2>5
<1>17. CASE CommitAnswerLost(h)
  <2>1. LostCommit(h) /\ handler'[h].pc \notin PastQuotaSteps
    BY <1>4, <1>17 DEF CommitAnswerLost, PastQuotaSteps
  <2>2. CASE s.pc \in {"commit", "publish"}
    BY <1>7, <2>1, <2>2 DEF LostCommit
  <2>3. CASE s.pc = "create"
    BY <1>11, <2>1, <2>3 DEF LostCommit
  <2>4. CASE s.pc = "persist"
    BY <1>9, <2>1, <2>4 DEF LostCommit
  <2>5. CASE s.pc = "finalize"
    BY <1>10, <1>15, <2>1, <2>5 DEF LostCommit, NoRelayNeeded
  <2>6. CASE s.pc = "delete"
    BY <1>12, <1>15, <2>1, <2>6 DEF LostCommit, NoRelayNeeded
  <2> QED BY <2>1, <2>2, <2>3, <2>4, <2>5, <2>6 DEF LostCommit
<1>18. CASE StartCreate(h) \/ StartUndo(h) \/ CancelDelete(h)
  BY <1>11, <1>12, <1>15, <1>18
     DEF StartCreate, StartUndo, CancelDelete, At, NoRelayNeeded
<1>13. CASE \/ Receive(h) \/ LoadSession(h) \/ CheckSessionRelay(h) \/ DropStaleSession(h)
            \/ StartSetSession(h) \/ StartSetFails(h) \/ AppendInsert(h) \/ FileItem(h)
            \/ FileConflict(h) \/ AppendRecount(h) \/ AppendMerge(h) \/ ProgressLoad(h)
            \/ ProgressMerge(h) \/ CreateLookup(h) \/ CreateQuota(h) \/ WarmCodeCache(h)
  <2>1. relays' = relays
    BY <1>13
       DEF Receive, Begin, LoadSession, CheckSessionRelay, DropStaleSession, StartSetSession,
           StartSetFails, AppendInsert, AddRelayItem, FileItem, InsertItem, FileConflict,
           AppendRecount, AppendMerge, ProgressLoad, ProgressMerge, CreateLookup, CreateQuota,
           WarmCodeCache, RollbackInsert, storeVars
  <2> QED BY <1>2, <2>1
<1>14. CASE \/ FinishRelist(h) \/ FinishList(h) \/ FinishQuota(h) \/ FinishRecheck(h)
            \/ FinishClear(h) \/ CancelClear(h) \/ InstanceExhausted(h) \/ CallFails(h)
  <2>1. relays' = relays
    BY <1>14
       DEF FinishRelist, FinishList, FinishQuota, FinishRecheck, FinishClear, CancelClear,
           InstanceExhausted, CallFails, RollbackInsert, storeVars
  <2> QED BY <1>2, <2>1
<1> QED BY <1>8, <1>13, <1>14, <1>16, <1>17, <1>18 DEF Proceed, Fail

(* The cap is looked at once, and remembered by the step after it. *)
LEMMA HandlersPass ==
    ASSUME BatchInv, StoreFacts, NEW h \in Handler, Receive(h) \/ Proceed(h) \/ Fail(h)
    PROVE  HandlerPasses(h)
<1> DEFINE s == handler[h]
           Early == {"start", "upload", "finish", "cancel"}
           Short == {"create", "lookup", "idle", "insert", "list", "delete", "relist", "drop"}
<1>0. Poised(h)
  BY HandlersPoised
<1>1. ASSUME Return(h) PROVE HandlerPasses(h)
  BY <1>0, <1>1 DEF Poised, Return, Idle, PastQuotaSteps, HandlerPasses
<1>2. ASSUME NEW pc \in Step, Go(h, pc), pc \in PastQuotaSteps =>
                \/ s.pc \in PastQuotaSteps
                \/ ~AtCap(h) /\ UNCHANGED storeVars
      PROVE  HandlerPasses(h)
  BY <1>0, <1>2 DEF Poised, Go, HandlerState, HandlerPasses
<1>3. ASSUME NEW pc \in Step \ PastQuotaSteps, Go(h, pc) PROVE HandlerPasses(h)
  BY <1>2, <1>3
<1>4. ASSUME NEW pc \in Short, Continue(h, pc) PROVE HandlerPasses(h)
  BY <1>1, <1>3, <1>4 DEF Continue, Step, PastQuotaSteps
<1>5. ASSUME handler'[h].pc \notin PastQuotaSteps PROVE HandlerPasses(h)
  BY <1>5 DEF HandlerPasses
<1>6. CASE Receive(h)
  <2> SUFFICES ASSUME NEW op, NEW chat, NEW u, Begin(h, op, chat, u, "load")
               PROVE  HandlerPasses(h)
    BY <1>6 DEF Receive
  <2>1. handler'[h].pc = "load"
    BY <1>0 DEF Begin, Idle, Poised
  <2> QED BY <1>5, <2>1 DEF PastQuotaSteps
<1>7. CASE LoadSession(h)
  <2>1. s.op \in Early
    BY <1>0, <1>7 DEF LoadSession, Poised
  <2>2. WithoutSession(s.op) \in Short
    BY <2>1, NextSteps
  <2>3. CASE handler' = [handler EXCEPT ![h].pc = "check", ![h].relay = session[s.chat].relay]
    BY <1>0, <1>5, <2>3 DEF Poised, HandlerState, PastQuotaSteps
  <2> QED BY <1>4, <1>7, <2>2, <2>3 DEF LoadSession
<1>8. CASE CheckSessionRelay(h) \/ DropStaleSession(h)
  <2>1. s.op \in Early
    BY <1>0, <1>8 DEF CheckSessionRelay, DropStaleSession, Poised
  <2>2. /\ WithoutSession(s.op) \in Short
        /\ AfterCheck(s.op, relays[s.relay].status) \in Short
    BY <2>1, NextSteps
  <2> QED BY <1>4, <1>8, <2>2 DEF CheckSessionRelay, DropStaleSession
<1>9. CASE StartCreate(h) \/ AppendCommit(h) \/ AppendRecount(h)
  <2>1. ASSUME NEW q, handler' = [handler EXCEPT ![h].pc = "set", ![h].relay = q, ![h].count = 0]
        PROVE  HandlerPasses(h)
    BY <1>0, <1>5, <2>1 DEF Poised, HandlerState, PastQuotaSteps
  <2>2. ASSUME NEW n, handler' = [handler EXCEPT ![h].pc = "merge", ![h].count = n]
        PROVE  HandlerPasses(h)
    BY <1>0, <1>5, <2>2 DEF Poised, HandlerState, PastQuotaSteps
  <2> QED BY <1>9, <2>1, <2>2 DEF StartCreate, AppendCommit, AppendRecount
<1>10. CASE AppendInsert(h)
  <2>1. s.relay \in RelayId
    BY <1>0, <1>10 DEF AppendInsert, At, NoRelayNeeded, Poised
  <2> QED BY <1>1, <1>3, <1>10, <2>1, AppendOutcomes DEF Step, PastQuotaSteps
<1>11. CASE CreateQuota(h) \/ FinishQuota(h)
  <2>1. /\ UNCHANGED storeVars
        /\ \/ Return(h) \/ Go(h, "recheck")
           \/ ~AtCap(h) /\ (Go(h, "persist") \/ Go(h, "finalize"))
    BY <1>11 DEF CreateQuota, FinishQuota
  <2> QED BY <1>1, <1>2, <1>3, <2>1 DEF Step, PastQuotaSteps
<1>12. CASE CreatePersist(h)
  <2>1. s.pc \in PastQuotaSteps
    BY <1>12 DEF CreatePersist, At, PastQuotaSteps
  <2>2. ASSUME NEW q \in RelayId, NEW c \in Code,
               handler' = [handler EXCEPT ![h].pc = "warm", ![h].relay = q, ![h].code = c]
        PROVE  HandlerPasses(h)
    BY <1>0, <1>5, <2>2 DEF Poised, HandlerState, PastQuotaSteps
  <2> QED BY <1>1, <1>2, <1>12, <2>1, <2>2 DEF CreatePersist, Step
<1>13. CASE CreateCommit(h) \/ FinishRelist(h)
  BY <1>0, <1>5, <1>13 DEF CreateCommit, FinishRelist, Poised, HandlerState, PastQuotaSteps
<1>14. CASE CreateLookup(h) \/ ProgressLoad(h) \/ FinishList(h) \/ FinishRecheck(h)
  BY <1>0, <1>1, <1>5, <1>14
     DEF CreateLookup, ProgressLoad, FinishList, FinishRecheck, Poised, HandlerState, PastQuotaSteps
<1>15. CASE FinishFinalize(h)
  <2>1. ASSUME NEW c, handler' = [handler EXCEPT ![h].pc = "warm", ![h].code = c]
        PROVE  HandlerPasses(h)
    BY <1>0, <1>5, <2>1 DEF Poised, HandlerState, PastQuotaSteps
  <2> QED BY <1>1, <1>15, <2>1 DEF FinishFinalize
<1>16. CASE \/ StartSetSession(h) \/ StartUndo(h) \/ FileConflict(h) \/ AppendMerge(h)
            \/ ProgressMerge(h) \/ StartSetFails(h)
            \/ WarmCodeCache(h) \/ FinishClear(h) \/ CancelDelete(h)
            \/ CancelClear(h) \/ InstanceExhausted(h) \/ CallFails(h) \/ CommitAnswerLost(h)
  <2>1. \/ Return(h)
        \/ \E pc \in {"progress", "clear", "undo"} : Go(h, pc)
    BY <1>16
       DEF StartSetSession, StartUndo, FileConflict, AppendMerge, ProgressMerge,
           StartSetFails, WarmCodeCache, FinishClear,
           CancelDelete, CancelClear, InstanceExhausted, CallFails, CommitAnswerLost
  <2> QED BY <1>1, <1>3, <2>1 DEF Step, PastQuotaSteps
<1>17. CASE FileItem(h)
  <2>1. Go(h, "commit") \/ (s.pc \in PastQuotaSteps /\ Go(h, "publish"))
    BY <1>17 DEF FileItem, At, PastQuotaSteps
  <2> QED BY <1>2, <1>3, <2>1 DEF Step, PastQuotaSteps
<1> QED BY <1>6, <1>7, <1>8, <1>9, <1>10, <1>11, <1>12, <1>13, <1>14, <1>15, <1>16, <1>17
        DEF Proceed, Fail

(* What is known of a relay stays known. *)
LEMMA KnownStays ==
    ASSUME TablesMove, NEW r \in RelayId, NEW c, NEW n \in Nat, Opened(r, c)
    PROVE  Opened(r, c)' /\ (Counted(r, n) => Counted(r, n)')
BY OpenedStays, CountedStays DEF TablesMove, Opened

(* Sessions are dropped, or written with the handler's own relay and a     *)
(* count that is true of it. *)
LEMMA HandlersWriteSessions ==
    ASSUME BatchInv, StoreFacts, TablesMove, NEW h \in Handler,
           Receive(h) \/ Proceed(h) \/ Fail(h)
    PROVE  SessionsMove(h)
<1> DEFINE s == handler[h]
<1>0. Poised(h)
  BY HandlersPoised
<1>1. \A c \in Chat : SessionRight(c)
  BY DEF BatchInv
<1>2. NoSession \in Session
  BY DEF NoSession, Session
<1>3. ASSUME session' = session PROVE SessionsMove(h)
  BY <1>0, <1>3 DEF Poised, SessionsMove
<1>4. ASSUME DeleteSession(h) PROVE SessionsMove(h)
  BY <1>0, <1>2, <1>4 DEF Poised, SessionsMove, DeleteSession
<1>5. Return(h) => handler'[h].pc = "idle"
  BY <1>0 DEF Return, Idle, Poised
<1>6. ASSUME NEW n \in Nat, NEW d \in Nat, NEW r \in RelayId, NEW chat \in Chat,
             s.relay = r, s.chat = chat, Opened(r, chat), Counted(r, n),
             session' = [session EXCEPT ![chat] = [relay |-> r, count |-> n, deadline |-> d]]
      PROVE  SessionsMove(h)
  <2>1. session' \in [Chat -> Session]
    BY <1>0, <1>6 DEF Poised, Session
  <2>2. Opened(r, chat)' /\ Counted(r, n)'
    BY <1>6, KnownStays
  <2>3. /\ session'[chat] = [relay |-> r, count |-> n, deadline |-> d]
        /\ \A c \in Chat \ {chat} : session'[c] = session[c]
    BY <1>0, <1>6 DEF Poised
  <2>4. SessionRight(chat)'
    BY <2>2, <2>3, NullsAreNotValues DEF SessionRight
  <2> QED BY <1>6, <2>1, <2>3, <2>4 DEF SessionsMove
<1>7. ASSUME MergeSession(h), s.pc \notin NoRelayNeeded PROVE SessionsMove(h)
  <2>1. PICK r \in RelayId, chat \in Chat : s.relay = r /\ s.chat = chat
    BY <1>0, <1>7 DEF Poised, NoRelayNeeded
  <2>2. /\ Opened(r, chat) /\ Counted(r, s.count) /\ s.count \in Nat
        /\ session[chat].count \in Nat /\ session[chat] \in Session
    BY <1>0, <1>7, <2>1 DEF Poised, HandlerState, Session
  <2>3. CASE session[chat] # NoSession /\ session[chat].relay # r
    <3>1. session' = session
      BY <1>0, <1>7, <2>1, <2>3 DEF MergeSession, MergedSession, Poised
    <3> QED BY <1>3, <3>1
  <2>4. CASE session[chat] = NoSession \/ session[chat].relay = r
    <3>1. Counted(r, session[chat].count)
      <4>1. CASE session[chat] = NoSession
        BY <4>1, ItemsFinite DEF Counted, NoSession
      <4>2. CASE session[chat].relay = r
        BY <1>1, <2>1, <4>2, NullsAreNotValues DEF SessionRight
      <4> QED BY <2>4, <4>1, <4>2
    <3>2. PICK n \in Nat : n = IF s.count > session[chat].count THEN s.count
                                                               ELSE session[chat].count
      BY <2>2
    <3>3. Counted(r, n)
      BY <2>2, <3>1, <3>2
    <3>4. PICK d \in Nat : d = clock + SessionTTL
      BY <1>0 DEF Poised
    <3>5. session' = [session EXCEPT ![chat] = [relay |-> r, count |-> n, deadline |-> d]]
      BY <1>7, <2>1, <2>4, <3>2, <3>4 DEF MergeSession, MergedSession
    <3> QED BY <1>6, <1>7, <2>1, <2>2, <3>3, <3>5
  <2> QED BY <2>3, <2>4
<1>8. CASE StartSetSession(h) \/ StartSetFails(h)
  <2>1. s.pc = "set" /\ (session' = session \/ session' = StartedSession(h))
    BY <1>8 DEF StartSetSession, StartSetFails, At
  <2>2. PICK r \in RelayId, chat \in Chat : s.relay = r /\ s.chat = chat
    BY <1>0, <2>1 DEF Poised, NoRelayNeeded
  <2>3. Opened(r, chat) /\ Counted(r, 0)
    BY <1>0, <2>1, <2>2, ItemsFinite DEF Poised, NoRelayNeeded, Counted
  <2>4. PICK d \in Nat : d = clock + SessionTTL
    BY <1>0 DEF Poised
  <2> QED BY <1>3, <1>6, <2>1, <2>2, <2>3, <2>4 DEF StartedSession
<1>10. CASE AppendMerge(h) \/ ProgressMerge(h)
  BY <1>7, <1>10 DEF AppendMerge, ProgressMerge, At, NoRelayNeeded
<1>11. CASE DropStaleSession(h) \/ FinishClear(h) \/ CancelClear(h)
  BY <1>4, <1>11 DEF DropStaleSession, FinishClear, CancelClear
<1>12. CASE \/ Receive(h) \/ LoadSession(h) \/ CheckSessionRelay(h) \/ StartCreate(h)
            \/ StartUndo(h) \/ AppendInsert(h) \/ FileItem(h) \/ FileConflict(h)
            \/ AppendCommit(h) \/ AppendRecount(h) \/ ProgressLoad(h) \/ CreateLookup(h)
            \/ CreateQuota(h) \/ CreatePersist(h) \/ CreateCommit(h)
            \/ WarmCodeCache(h) \/ FinishRelist(h) \/ FinishList(h) \/ FinishQuota(h)
            \/ FinishRecheck(h) \/ FinishFinalize(h) \/ CancelDelete(h)
            \/ InstanceExhausted(h) \/ CallFails(h) \/ CommitAnswerLost(h)
  <2>1. session' = session
    BY <1>12
       DEF Receive, Begin, LoadSession, CheckSessionRelay, StartCreate, StartUndo,
           AppendInsert, FileItem, FileConflict, AppendCommit, AppendRecount,
           ProgressLoad, CreateLookup, CreateQuota, CreatePersist, CreateCommit,
           WarmCodeCache, FinishRelist, FinishList, FinishQuota,
           FinishRecheck, FinishFinalize, CancelDelete, InstanceExhausted, CallFails,
           CommitAnswerLost
  <2> QED BY <1>3, <2>1
<1> QED BY <1>8, <1>10, <1>11, <1>12 DEF Proceed, Fail

(* The code cache gets a code and the relay that has it. *)
LEMMA CachesMove ==
    ASSUME BatchInv, StoreFacts, NEW h \in Handler, Receive(h) \/ Proceed(h) \/ Fail(h)
    PROVE  CacheMoves
<1> DEFINE s == handler[h]
<1>0. Poised(h) /\ codeCache \in [Code -> RelayId \cup {NoRelay}]
  BY HandlersPoised DEF BatchInv, BatchTypeOK
<1>1. ASSUME codeCache' = codeCache PROVE CacheMoves
  BY <1>0, <1>1 DEF CacheMoves
<1>2. CASE WarmCodeCache(h)
  <2>1. /\ s.relay \in RelayId /\ relays[s.relay].code = s.code /\ s.code \in Code
        /\ relays' = relays
    <3>1. s.pc = "warm" /\ relays' = relays
      BY <1>2 DEF WarmCodeCache, storeVars
    <3>2. s.relay \in RelayId
      BY <1>0, <3>1 DEF Poised, NoRelayNeeded
    <3>3. s.op # "cancel"
      BY <1>0, <3>1 DEF Poised, HandlerRight, HandlerShape, OpsAt
    <3> QED BY <1>0, <3>1, <3>2, <3>3 DEF Poised, HandlerRight, HandlerCode, HandlerState
  <2>2. CASE codeCache' = [codeCache EXCEPT ![s.code] = s.relay]
    BY <1>0, <2>1, <2>2 DEF CacheMoves
  <2> QED BY <1>1, <1>2, <2>2 DEF WarmCodeCache
<1>3. CASE ~WarmCodeCache(h)
  <2>1. codeCache' = codeCache
    BY <1>3
       DEF Receive, Begin, Proceed, Fail, LoadSession, CheckSessionRelay, DropStaleSession,
           StartCreate, StartSetSession, StartUndo, StartSetFails, AppendInsert, FileItem,
           FileConflict, AppendCommit, AppendRecount, AppendMerge, ProgressLoad,
           ProgressMerge, CreateLookup, CreateQuota, CreatePersist, CreateCommit,
           FinishRelist, FinishList, FinishQuota, FinishRecheck,
           FinishFinalize, FinishClear, CancelDelete, CancelClear, InstanceExhausted,
           CallFails, CommitAnswerLost
  <2> QED BY <1>1, <2>1
<1> QED BY <1>2, <1>3

(* Where a handler has a transaction open. *)
TxSteps == {"file", "commit", "fill", "publish"}

(* A handler that returns has given up its transaction. *)
LEMMA ReturnIsRight ==
    ASSUME BatchInv, StoreFacts, NEW h \in Handler, Return(h), clock' = clock,
           \/ handler[h].pc \notin TxSteps /\ tx'[h] = tx[h]
           \/ tx' = Released(h)
    PROVE  HandlerRight(h)'
<1>0. Poised(h) /\ tx \in [Tx -> TxRecord]
  BY HandlersPoised DEF StoreFacts, StoreInv, TypeOK
<1>1. handler'[h] = Idle /\ clock' \in Nat
  BY <1>0 DEF Poised, Return
<1>2. tx'[h] = NoTx
  BY <1>0 DEF Poised, HandlerRight, HandlerTx, OpenTransaction, Released, Handler, TxSteps
<1> QED BY <1>1, <1>2, IdleIsRight

(* The handler goes on with the update it is at, its clock reading that of *)
(* before or a fresh one. *)
SameJob(h) ==
    /\ handler'[h].op = handler[h].op /\ handler'[h].chat = handler[h].chat
    /\ handler'[h].src = handler[h].src /\ handler'[h].now \in {handler[h].now, clock}

GoNow(h, pc) == handler' = [handler EXCEPT ![h].pc = pc, ![h].now = clock]

(* What a step to pc with the count n takes. *)
CountFits(h, pc, n) ==
    /\ \/ pc = "load"
       \/ handler[h].op = "upload" /\ pc \notin {"merge", "progress", "progressMerge", "warm"}
       => n = 0
    /\ handler[h].op = "finish" /\ pc \in {"quota", "recheck", "finalize"} => n > 0

(* A handler with a relay is right when its step fits its operation, and   *)
(* its count and its code are those of the relay. *)
LEMMA RightWithRelay ==
    ASSUME BatchInv, StoreFacts, NEW h \in Handler, NEW pc \in Step \ {"idle"},
           NEW n \in Nat, NEW c \in Code \cup {NoCode}, NEW r \in RelayId, NEW chat \in Chat,
           handler[h].pc # "idle", handler[h].chat = chat, SameJob(h),
           handler'[h].pc = pc, handler'[h].relay = r, handler'[h].count = n,
           handler'[h].code = c, clock' = clock,
           handler[h].op \in OpsAt(pc), CountFits(h, pc, n),
           Opened(r, chat)', Counted(r, n)', HandlerTx(h)',
           pc = "relist" => relays'[r].code # NoCode,
           pc \in {"warm", "clear"} /\ handler[h].op # "cancel"
              => c # NoCode /\ relays'[r].code = c
    PROVE  HandlerRight(h)'
<1>0. Poised(h)
  BY HandlersPoised
<1>1. HandlerShape(h)'
  BY <1>0, NullsAreNotValues DEF Poised, HandlerRight, HandlerShape, SameJob
<1>2. HandlerCounts(h)'
  BY DEF HandlerCounts, SameJob, CountFits
<1>3. HandlerCode(h)'
  BY DEF HandlerCode, SameJob
<1> QED BY <1>1, <1>2, <1>3 DEF HandlerRight

(* So is one that goes on with what it has. *)
LEMMA GoIsRight ==
    ASSUME BatchInv, StoreFacts, TablesMove, NEW h \in Handler, NEW pc \in Step \ {"idle"},
           handler[h].pc # "idle", Go(h, pc) \/ GoNow(h, pc), clock' = clock,
           handler[h].op \in OpsAt(pc), CountFits(h, pc, handler[h].count), HandlerTx(h)',
           \/ pc \notin NoRelayNeeded
           \/ handler[h].op = "finish" /\ pc = "quota"
           => handler[h].relay # NoRelay,
           pc = "relist" => relays[handler[h].relay].code # NoCode,
           pc \in {"warm", "clear"} /\ handler[h].op # "cancel" => handler[h].pc = "warm"
    PROVE  HandlerRight(h)'
<1> DEFINE s == handler[h]
<1>0. Poised(h)
  BY HandlersPoised
<1>1. /\ SameJob(h) /\ handler'[h].pc = pc /\ handler'[h].relay = s.relay
      /\ handler'[h].count = s.count /\ handler'[h].code = s.code
  BY <1>0 DEF Poised, Go, GoNow, HandlerState, SameJob
<1>2. HandlerShape(h)'
  BY <1>0, <1>1 DEF Poised, HandlerRight, HandlerShape, SameJob
<1>3. ASSUME s.relay # NoRelay
      PROVE  /\ Opened(s.relay, s.chat)' /\ Counted(s.relay, s.count)'
             /\ relays[s.relay].code # NoCode => relays'[s.relay].code = relays[s.relay].code
  <2>1. PICK r \in RelayId, chat \in Chat, n \in Nat :
            s.relay = r /\ s.chat = chat /\ s.count = n
    BY <1>0, <1>3 DEF Poised, HandlerRight, HandlerCounts, Opened, HandlerState
  <2>2. Opened(r, chat) /\ Counted(r, n)
    BY <1>0, <1>3, <2>1 DEF Poised, HandlerRight, HandlerCounts
  <2>3. Opened(r, chat)' /\ Counted(r, n)'
    BY <2>2, KnownStays
  <2>4. relays[r].code # NoCode => relays'[r].code = relays[r].code
    BY DEF TablesMove, RowLife, RowKept
  <2>5. /\ handler'[h].relay = r /\ handler'[h].chat = chat /\ handler'[h].count = n
    BY <1>1, <2>1 DEF SameJob
  <2> QED BY <2>1, <2>3, <2>4, <2>5
<1>4. HandlerCounts(h)'
  BY <1>1, <1>3 DEF HandlerCounts, SameJob, CountFits
<1>5. HandlerCode(h)'
  <2>1. CASE pc = "relist"
    BY <1>1, <1>3, <2>1 DEF HandlerCode, NoRelayNeeded
  <2>2. CASE pc \in {"warm", "clear"} /\ s.op # "cancel"
    <3>1. s.code # NoCode /\ relays[s.relay].code = s.code
      BY <1>0, <2>2 DEF Poised, HandlerRight, HandlerCode
    <3> QED BY <1>1, <1>3, <2>2, <3>1 DEF HandlerCode, NoRelayNeeded
  <2>3. CASE pc # "relist" /\ ~(pc \in {"warm", "clear"} /\ s.op # "cancel")
    BY <1>1, <2>3 DEF HandlerCode, SameJob
  <2> QED BY <2>1, <2>2, <2>3
<1> QED BY <1>2, <1>4, <1>5 DEF HandlerRight

(* Each action, looking up what it needs, leaves the handler right: first  *)
(* the session and the relay it names. *)
LEMMA SessionStepsRight ==
    ASSUME BatchInv, StoreFacts, ReadyHasCode, TablesMove, NEW h \in Handler,
           \/ Receive(h) \/ LoadSession(h) \/ CheckSessionRelay(h) \/ DropStaleSession(h)
    PROVE  HandlerRight(h)'
<1> DEFINE s == handler[h]
           Early == {"start", "upload", "finish", "cancel"}
<1>0. Poised(h)
  BY HandlersPoised
<1>1. s.pc \notin TxSteps
  <2>1. Idle.pc = "idle"
    BY DEF Idle
  <2>2. Receive(h) => s.pc = "idle"
    BY <2>1 DEF Receive, Begin
  <2> QED BY <2>2 DEF LoadSession, CheckSessionRelay, DropStaleSession, TxSteps
<1>2. /\ tx'[h] = tx[h] /\ clock' = clock /\ relays' = relays
  BY DEF Receive, Begin, LoadSession, CheckSessionRelay, DropStaleSession, storeVars
<1>3. ASSUME handler'[h].pc \notin TxSteps PROVE HandlerTx(h)'
  BY <1>0, <1>1, <1>2, <1>3 DEF Poised, HandlerRight, HandlerTx, TxSteps
<1>4. CASE Receive(h)
  <2> SUFFICES ASSUME NEW op \in Early, NEW chat \in Chat,
                      NEW u \in Update \cup {NoUpdate}, op = "upload" => u \in Update,
                      Begin(h, op, chat, u, "load")
               PROVE  HandlerRight(h)'
    BY <1>4 DEF Receive
  <2>1. /\ handler'[h].op = op /\ handler'[h].pc = "load" /\ handler'[h].chat = chat
        /\ handler'[h].src = u /\ handler'[h].now = IF op = "cancel" THEN 0 ELSE clock
        /\ handler'[h].relay = NoRelay /\ handler'[h].count = 0
    BY <1>0 DEF Begin, Poised, Idle
  <2>2. HandlerShape(h)'
    BY <1>0, <1>2, <2>1 DEF HandlerShape, OpsAt, NoRelayNeeded, Poised
  <2>3. HandlerCounts(h)' /\ HandlerCode(h)'
    BY <2>1 DEF HandlerCounts, HandlerCode
  <2> QED BY <1>3, <2>1, <2>2, <2>3 DEF HandlerRight, TxSteps
<1>5. ASSUME s.pc \in {"load", "check", "drop"}
      PROVE  s.op \in Early /\ s.chat \in Chat
  BY <1>0, <1>5 DEF Poised
<1>6. ASSUME s.pc \in {"load", "drop"}, s.op \in Early, Continue(h, WithoutSession(s.op))
      PROVE  HandlerRight(h)'
  <2>1. s.op = "upload" => s.count = 0
    BY <1>0, <1>6 DEF Poised, HandlerRight, HandlerCounts
  <2>2. Return(h) \/ (s.op = "start" /\ Go(h, "create")) \/ (s.op = "upload" /\ Go(h, "lookup"))
    BY <1>6, NextSteps DEF Continue
  <2>3. CASE Return(h)
    BY <1>1, <1>2, <2>3, ReturnIsRight
  <2>4. CASE s.op = "start" /\ Go(h, "create")
    <3>1. handler'[h].pc = "create" /\ CountFits(h, "create", s.count)
      BY <1>0, <2>4 DEF Go, Poised, HandlerState, CountFits
    <3>2. HandlerTx(h)'
      BY <1>3, <3>1 DEF TxSteps
    <3> QED BY <1>2, <1>6, <2>4, <3>1, <3>2, GoIsRight DEF OpsAt, Step, NoRelayNeeded
  <2>5. CASE s.op = "upload" /\ Go(h, "lookup")
    <3>1. handler'[h].pc = "lookup" /\ CountFits(h, "lookup", s.count)
      BY <1>0, <2>1, <2>5 DEF Go, Poised, HandlerState, CountFits
    <3>2. HandlerTx(h)'
      BY <1>3, <3>1 DEF TxSteps
    <3> QED BY <1>2, <1>6, <2>5, <3>1, <3>2, GoIsRight DEF OpsAt, Step, NoRelayNeeded
  <2> QED BY <2>2, <2>3, <2>4, <2>5
<1>7. CASE LoadSession(h)
  <2>1. s.pc = "load" /\ s.op \in Early /\ s.chat \in Chat /\ s.count = 0
    BY <1>0, <1>5, <1>7 DEF LoadSession, Poised, HandlerRight, HandlerCounts
  <2>2. CASE session[s.chat] # NoSession
    <3>1. PICK chat \in Chat : chat = s.chat
      BY <2>1
    <3>2. SessionRight(chat)
      BY DEF BatchInv
    <3>3. PICK r \in RelayId : r = session[chat].relay /\ Opened(r, chat)
      BY <2>2, <3>1, <3>2 DEF SessionRight, Opened
    <3>4. /\ handler' = [handler EXCEPT ![h].pc = "check", ![h].relay = r]
      BY <1>7, <2>2, <3>1, <3>3 DEF LoadSession
    <3>5. /\ SameJob(h) /\ handler'[h].pc = "check" /\ handler'[h].relay = r
          /\ handler'[h].count = 0 /\ handler'[h].code = s.code
      BY <1>0, <2>1, <3>4 DEF Poised, HandlerState, SameJob
    <3>6. Opened(r, chat)' /\ Counted(r, 0)'
      <4>1. Counted(r, 0)
        BY ItemsFinite DEF Counted
      <4> QED BY <3>3, <4>1, KnownStays
    <3>7. HandlerTx(h)' /\ CountFits(h, "check", 0) /\ s.code \in Code \cup {NoCode}
      BY <1>0, <1>3, <3>5 DEF CountFits, Poised, HandlerState, TxSteps
    <3> QED BY <1>2, <2>1, <3>1, <3>5, <3>6, <3>7, RightWithRelay DEF OpsAt, Step
  <2>3. CASE session[s.chat] = NoSession
    BY <1>6, <1>7, <2>1, <2>3 DEF LoadSession
  <2> QED BY <2>2, <2>3
<1>8. CASE DropStaleSession(h)
  BY <1>5, <1>6, <1>8 DEF DropStaleSession
<1>9. CASE CheckSessionRelay(h)
  <2>1. s.pc = "check" /\ s.op \in Early
    BY <1>5, <1>9 DEF CheckSessionRelay
  <2>2. s.op = "upload" => s.count = 0
    BY <1>0, <2>1 DEF Poised, HandlerRight, HandlerCounts
  <2>3. s.relay \in RelayId /\ s.relay # NoRelay
    BY <1>0, <2>1, NullsAreNotValues DEF Poised, NoRelayNeeded
  <2>4. CASE Return(h)
    BY <1>1, <1>2, <2>4, ReturnIsRight
  <2>5. ASSUME NEW pc \in {"insert", "list", "delete", "relist", "drop"}, Go(h, pc),
               s.op \in OpsAt(pc), pc = "relist" => relays[s.relay].status = "ready"
        PROVE  HandlerRight(h)'
    <3>1. handler'[h].pc = pc /\ CountFits(h, pc, s.count)
      BY <1>0, <2>2, <2>5 DEF Go, Poised, HandlerState, CountFits
    <3>2. HandlerTx(h)'
      BY <1>3, <3>1 DEF TxSteps
    <3>3. pc = "relist" => relays[s.relay].code # NoCode
      BY <2>3, <2>5 DEF ReadyHasCode
    <3>4. pc \in Step \ {"idle"} /\ pc \notin {"warm", "clear"}
      BY DEF Step
    <3> QED BY <1>2, <2>1, <2>3, <2>5, <3>1, <3>2, <3>3, <3>4, GoIsRight
  <2>6. \/ Return(h)
        \/ \E pc \in {"insert", "list", "delete", "relist", "drop"} :
              /\ Go(h, pc) /\ s.op \in OpsAt(pc)
              /\ pc = "relist" => relays[s.relay].status = "ready"
    BY <1>9, <2>1, NextSteps DEF CheckSessionRelay, Continue, OpsAt
  <2> QED BY <2>4, <2>5, <2>6
<1> QED BY <1>4, <1>7, <1>8, <1>9

(* The steps of /batch_start, of an append and of the progress message. *)
LEMMA BatchStepsRight ==
    ASSUME BatchInv, StoreFacts, TablesMove, NEW h \in Handler,
           \/ StartCreate(h) \/ StartSetSession(h) \/ StartSetFails(h) \/ StartUndo(h)
           \/ AppendInsert(h) \/ AppendCommit(h) \/ FileItem(h) \/ FileConflict(h)
           \/ AppendRecount(h) \/ AppendMerge(h) \/ ProgressLoad(h) \/ ProgressMerge(h)
    PROVE  HandlerRight(h)'
<1> DEFINE s == handler[h]
<1>0. /\ Poised(h) /\ tx \in [Tx -> TxRecord] /\ relays \in [RelayId -> Row]
      /\ items \in [Update -> Item] /\ OrderGapFree
  BY HandlersPoised DEF StoreFacts, StoreInv, TypeOK
<1>1. clock' = clock
  BY DEF StartCreate, StartSetSession, StartSetFails, StartUndo, AppendInsert, AppendCommit,
         FileItem, FileConflict, AppendRecount, AppendMerge, ProgressLoad, ProgressMerge
<1>2. s.pc # "idle"
  BY DEF StartCreate, StartSetSession, StartSetFails, StartUndo, AppendInsert, AppendCommit,
         FileItem, FileConflict, AppendRecount, AppendMerge, ProgressLoad, ProgressMerge, At
<1>3. ASSUME tx'[h] = tx[h], s.pc \notin TxSteps, handler'[h].pc \notin TxSteps
      PROVE  HandlerTx(h)'
  BY <1>0, <1>3 DEF Poised, HandlerRight, HandlerTx, TxSteps
<1>4. s.pc \notin {"create", "fill"} => s.relay \in RelayId /\ s.relay # NoRelay
  BY <1>0, <1>2, NullsAreNotValues
     DEF StartCreate, StartSetSession, StartSetFails, StartUndo, AppendInsert, AppendCommit,
         FileItem, FileConflict, AppendRecount, AppendMerge, ProgressLoad, ProgressMerge, At,
         Poised, NoRelayNeeded
<1>5. ASSUME NEW pc \in {"undo", "progress", "lookup", "recount"}, Go(h, pc),
             tx'[h] = tx[h], s.pc \notin TxSteps, s.relay # NoRelay, s.op \in OpsAt(pc),
             pc \in {"lookup", "recount"} => s.count = 0
      PROVE  HandlerRight(h)'
  <2>1. handler'[h].pc = pc
    BY <1>0, <1>5 DEF Go, Poised, HandlerState
  <2>2. HandlerTx(h)' /\ CountFits(h, pc, s.count)
    BY <1>3, <1>5, <2>1 DEF CountFits, OpsAt, TxSteps
  <2>3. pc \in Step \ {"idle"} /\ pc \notin {"warm", "clear", "relist"}
    BY DEF Step
  <2> QED BY <1>1, <1>2, <1>5, <2>1, <2>2, <2>3, GoIsRight
<1>6. CASE StartCreate(h)
  <2>1. s.pc = "create" /\ s.op = "start"
    BY <1>6 DEF StartCreate, At
  <2>2. PICK chat \in Chat : chat = s.chat
    BY <1>0, <1>2 DEF Poised
  <2>3. PICK r \in RelayId :
            /\ CreateRelayBatch(r, chat, s.now)
            /\ handler' = [handler EXCEPT ![h].pc = "set", ![h].relay = r, ![h].count = 0]
    BY <1>6, <2>2 DEF StartCreate
  <2>4. /\ SameJob(h) /\ handler'[h].pc = "set" /\ handler'[h].relay = r
        /\ handler'[h].count = 0 /\ handler'[h].code = s.code /\ s.code \in Code \cup {NoCode}
    BY <1>0, <2>3 DEF Poised, HandlerState, SameJob
  <2>5. Opened(r, chat)' /\ tx'[h] = tx[h]
    BY <1>0, <2>3 DEF CreateRelayBatch, Opened
  <2>6. Counted(r, 0)'
    <3>1. /\ IsFiniteSet(ItemsOf(r)') /\ Cardinality(ItemsOf(r)') \in Nat
      <4>1. ItemsOf(r)' \subseteq Update
        BY DEF ItemsOf
      <4> QED BY <4>1, FiniteUpdates, FS_Subset, FS_CardinalityType
    <3> QED BY <3>1 DEF Counted
  <2>7. HandlerTx(h)' /\ CountFits(h, "set", 0)
    BY <1>3, <2>1, <2>4, <2>5 DEF CountFits, TxSteps
  <2> QED BY <1>1, <2>1, <2>2, <2>4, <2>5, <2>6, <2>7, RightWithRelay DEF OpsAt, Step
<1>7. CASE StartSetSession(h) \/ StartSetFails(h)
  <2>1. s.pc = "set" /\ s.op = "start" /\ tx'[h] = tx[h]
    BY <1>7 DEF StartSetSession, StartSetFails, At, storeVars
  <2>2. Return(h) \/ Go(h, "progress") \/ Go(h, "undo")
    BY <1>7 DEF StartSetSession, StartSetFails
  <2>3. CASE Return(h)
    BY <1>1, <2>1, <2>3, ReturnIsRight DEF TxSteps
  <2> QED BY <1>4, <1>5, <2>1, <2>2, <2>3 DEF OpsAt, TxSteps
<1>8. CASE StartUndo(h)
  <2>1. s.pc = "undo" /\ tx' = tx /\ Return(h)
    BY <1>8 DEF StartUndo, At, RemoveRelay, DeleteRelay, DeleteRows, storeVars
  <2> QED BY <1>1, <2>1, ReturnIsRight DEF TxSteps
<1>9. CASE AppendInsert(h)
  <2>1. /\ s.pc = "insert" /\ s.op = "upload" /\ s.count = 0
    BY <1>0, <1>9 DEF AppendInsert, At, Poised, HandlerRight, HandlerCounts
  <2>2. CASE AddRelayItem(h, s.relay, s.src, s.now) /\ Go(h, "file")
    <3>1. /\ handler'[h].pc = "file" /\ handler'[h].relay = s.relay
          /\ handler'[h].src = s.src /\ CountFits(h, "file", s.count)
      BY <1>0, <2>1, <2>2 DEF Go, Poised, HandlerState, CountFits
    <3>2. /\ tx'[h].op = "add" /\ tx'[h].relay = s.relay /\ tx'[h].src = s.src
          /\ tx'[h].key = NoUpdate
      BY <1>0, <2>2 DEF AddRelayItem, Handler
    <3>3. HandlerTx(h)'
      BY <3>1, <3>2 DEF HandlerTx
    <3> QED BY <1>1, <1>4, <2>1, <2>2, <3>1, <3>3, GoIsRight DEF OpsAt, Step
  <2>3. CASE Return(h) /\ UNCHANGED storeVars
    BY <1>1, <2>1, <2>3, ReturnIsRight DEF storeVars, TxSteps
  <2>4. CASE (Go(h, "lookup") \/ Go(h, "recount")) /\ UNCHANGED storeVars
    BY <1>4, <1>5, <2>1, <2>4 DEF OpsAt, storeVars, TxSteps
  <2> QED BY <1>4, <1>9, <2>1, <2>2, <2>3, <2>4, AppendOutcomes
<1>10. CASE FileConflict(h)
  BY <1>1, <1>10, ReturnIsRight DEF FileConflict, RollbackInsert
<1>15. CASE FileItem(h)
  <2>1. /\ s.op = "upload" /\ InsertItem(h) /\ s.pc \in {"file", "fill"}
    BY <1>15 DEF FileItem, At
  <2>2. PICK pc \in {"commit", "publish"} :
            Go(h, pc) /\ s.pc = IF pc = "commit" THEN "file" ELSE "fill"
    BY <1>15 DEF FileItem, At
  <2>3. s.count = 0 /\ HandlerTx(h)
    BY <1>0, <2>1 DEF Poised, HandlerRight, HandlerCounts
  <2>4. /\ handler'[h].pc = pc /\ handler'[h].relay = s.relay /\ handler'[h].src = s.src
        /\ handler'[h].chat = s.chat /\ CountFits(h, pc, s.count)
    BY <1>0, <2>1, <2>2, <2>3 DEF Go, Poised, HandlerState, CountFits
  <2>5. /\ tx'[h].op = tx[h].op /\ tx'[h].relay = tx[h].relay /\ tx'[h].src = tx[h].src
        /\ tx'[h].row = tx[h].row /\ tx'[h].key = tx[h].src
    BY <1>0, <2>1 DEF InsertItem, Poised, TxRecord, Handler
  <2>6. HandlerTx(h)'
    BY <2>2, <2>3, <2>4, <2>5 DEF HandlerTx
  <2>7. pc = "commit" => s.relay # NoRelay
    BY <1>4, <2>2
  <2>8. pc \in Step \ {"idle"} /\ pc \notin {"relist", "warm", "clear", "quota"}
    BY DEF Step
  <2> QED BY <1>1, <1>2, <2>1, <2>2, <2>4, <2>6, <2>7, <2>8, GoIsRight
           DEF OpsAt, NoRelayNeeded
<1>11. CASE AppendCommit(h)
  <2>1. /\ s.pc = "commit" /\ s.op = "upload" /\ CommitInsert(h)
    BY <1>11 DEF AppendCommit, At
  <2>2. PICK chat \in Chat, r \in RelayId, u \in Update, n \in Nat :
            /\ chat = s.chat /\ r = s.relay /\ r = tx[h].relay /\ u = tx[h].src
            /\ n = tx[h].order
    BY <1>0, <1>2, <1>4, <2>1 DEF Poised, HandlerRight, HandlerTx, OpenTransaction, TxRecord
  <2>3. tx[h].op = "add" /\ n = Cardinality(ItemsOf(r)) + 1
    BY <1>0, <2>1, <2>2 DEF Poised, HandlerRight, HandlerTx, OpenTransaction
  <2>4. /\ items[u] = NoItem
        /\ items' = [items EXCEPT ![u] = [relay |-> r, order |-> n]]
        /\ tx' = Released(h)
    <3>1. tx[h].key = u /\ items[u] = NoItem
      BY <1>0, <2>1, <2>2, InsertedItem DEF StoreFacts, StoreInv, Handler
    <3> QED BY <2>1, <2>2, <3>1 DEF CommitInsert
  <2>5. items[u].relay = NoRelay
    BY <2>4 DEF NoItem
  <2>6. Cardinality(ItemsOf(r)') = n
    BY <1>0, <2>3, <2>4, <2>5, FilingKeepsOrder, NullsAreNotValues DEF StoreFacts, StoreInv
  <2>7. Opened(r, chat)' /\ Counted(r, n)'
    <3>1. Opened(r, chat)
      BY <1>0, <2>1, <2>2 DEF Poised, NoRelayNeeded
    <3>2. Opened(r, chat)'
      BY <3>1, KnownStays
    <3> QED BY <2>6, <3>2 DEF Counted
  <2>8. /\ SameJob(h) /\ handler'[h].pc = "merge" /\ handler'[h].relay = r
        /\ handler'[h].count = n /\ handler'[h].code = s.code /\ s.code \in Code \cup {NoCode}
    BY <1>0, <1>11, <2>2 DEF AppendCommit, Poised, HandlerState, SameJob
  <2>9. HandlerTx(h)' /\ CountFits(h, "merge", n)
    <3>1. tx'[h].op = "none" /\ tx'[h].key = NoUpdate
      BY <1>0, <2>4 DEF Released, NoTx, Handler
    <3> QED BY <2>1, <2>8, <3>1 DEF HandlerTx, CountFits
  <2> QED BY <1>1, <2>1, <2>2, <2>7, <2>8, <2>9, RightWithRelay DEF OpsAt, Step
<1>12. CASE AppendRecount(h) \/ ProgressLoad(h)
  <2>1. /\ s.pc \in {"recount", "progress"} /\ tx'[h] = tx[h]
    BY <1>12 DEF AppendRecount, ProgressLoad, At, storeVars
  <2>2. PICK chat \in Chat, r \in RelayId : chat = s.chat /\ r = s.relay
    BY <1>0, <1>2, <1>4, <2>1 DEF Poised
  <2>3. Opened(r, chat)
    BY <1>0, <2>1, <2>2 DEF Poised, NoRelayNeeded
  <2>4. CASE Return(h)
    BY <1>1, <2>1, <2>4, ReturnIsRight DEF TxSteps
  <2>5. ASSUME NEW n \in Nat, NEW pc \in {"merge", "progressMerge"}, Counted(r, n),
               s.op \in OpsAt(pc),
               handler' = [handler EXCEPT ![h].pc = pc, ![h].count = n]
        PROVE  HandlerRight(h)'
    <3>1. /\ SameJob(h) /\ handler'[h].pc = pc /\ handler'[h].relay = r
          /\ handler'[h].count = n /\ handler'[h].code = s.code
          /\ s.code \in Code \cup {NoCode}
      BY <1>0, <2>2, <2>5 DEF Poised, HandlerState, SameJob
    <3>2. Opened(r, chat)' /\ Counted(r, n)'
      BY <2>3, <2>5, KnownStays
    <3>3. HandlerTx(h)' /\ CountFits(h, pc, n)
      BY <1>3, <2>1, <2>5, <3>1 DEF CountFits, TxSteps
    <3>4. pc \in Step \ {"idle"} /\ pc \notin {"relist", "warm", "clear"}
      BY DEF Step
    <3> QED BY <1>1, <1>2, <2>2, <2>5, <3>1, <3>2, <3>3, <3>4, RightWithRelay
  <2>6. CASE AppendRecount(h)
    <3>1. PICK n \in Nat : n = Cardinality(ItemsOf(s.relay))
      BY ItemsFinite
    <3>2. Counted(r, n) /\ s.op = "upload"
      BY <2>2, <2>6, <3>1 DEF Counted, AppendRecount, At
    <3> QED BY <2>5, <2>6, <3>1, <3>2 DEF AppendRecount, OpsAt
  <2>7. CASE ProgressLoad(h) /\ ~Return(h)
    <3>1. /\ session[chat].relay = r /\ session[chat] # NoSession
          /\ handler' = [handler EXCEPT ![h].pc = "progressMerge",
                                        ![h].count = session[chat].count]
      BY <2>2, <2>7 DEF ProgressLoad
    <3>2. SessionRight(chat)
      BY DEF BatchInv
    <3>3. PICK n \in Nat : n = session[chat].count
      BY <1>0 DEF Poised, Session
    <3>4. Counted(r, n)
      BY <3>1, <3>2, <3>3, NullsAreNotValues DEF SessionRight
    <3>5. s.op \in OpsAt("progressMerge")
      BY <1>0, <2>7 DEF ProgressLoad, Poised, HandlerRight, HandlerShape, OpsAt
    <3> QED BY <2>5, <3>1, <3>3, <3>4, <3>5
  <2> QED BY <1>12, <2>4, <2>6, <2>7
<1>13. CASE AppendMerge(h)
  <2>1. s.pc = "merge" /\ s.op = "upload" /\ tx'[h] = tx[h] /\ (Return(h) \/ Go(h, "progress"))
    BY <1>13 DEF AppendMerge, At, storeVars
  <2>2. CASE Return(h)
    BY <1>1, <2>1, <2>2, ReturnIsRight DEF TxSteps
  <2> QED BY <1>4, <1>5, <2>1, <2>2 DEF OpsAt, TxSteps
<1>14. CASE ProgressMerge(h)
  BY <1>1, <1>14, ReturnIsRight DEF ProgressMerge, storeVars, TxSteps
<1> QED BY <1>6, <1>7, <1>8, <1>9, <1>10, <1>11, <1>12, <1>13, <1>14,
           <1>15

(* The steps of a file on its own, of /batch_done and of /batch_cancel. *)
LEMMA RelayStepsRight ==
    ASSUME BatchInv, StoreFacts, ReadyHasCode, TablesMove, NEW h \in Handler,
           \/ CreateLookup(h) \/ CreateQuota(h) \/ CreatePersist(h) \/ CreateCommit(h)
           \/ WarmCodeCache(h) \/ FinishRelist(h) \/ FinishList(h)
           \/ FinishQuota(h) \/ FinishRecheck(h) \/ FinishFinalize(h) \/ FinishClear(h)
           \/ CancelDelete(h) \/ CancelClear(h) \/ InstanceExhausted(h) \/ CallFails(h)
           \/ CommitAnswerLost(h)
    PROVE  HandlerRight(h)'
<1> DEFINE s == handler[h]
<1>0. /\ Poised(h) /\ tx \in [Tx -> TxRecord] /\ relays \in [RelayId -> Row]
      /\ items \in [Update -> Item]
  BY HandlersPoised DEF StoreFacts, StoreInv, TypeOK
<1>1. clock' = clock
  BY DEF CreateLookup, CreateQuota, CreatePersist, CreateCommit, WarmCodeCache,
         FinishRelist, FinishList, FinishQuota, FinishRecheck,
         FinishFinalize, FinishClear, CancelDelete, CancelClear, InstanceExhausted,
         CallFails, CommitAnswerLost
<1>2. ASSUME tx'[h] = tx[h], s.pc \notin TxSteps, handler'[h].pc \notin TxSteps
      PROVE  HandlerTx(h)'
  BY <1>0, <1>2 DEF Poised, HandlerRight, HandlerTx, TxSteps
<1>3. s.pc # "idle" => s.chat \in Chat
  BY <1>0 DEF Poised
<1>4. s.pc \notin NoRelayNeeded => s.relay \in RelayId /\ s.relay # NoRelay
  BY <1>0, NullsAreNotValues DEF Poised
<1>5. ASSUME NEW pc \in {"quota", "persist", "recheck", "finalize", "clear"},
             Go(h, pc) \/ GoNow(h, pc), s.pc # "idle", s.pc \notin TxSteps, tx'[h] = tx[h],
             s.op \in OpsAt(pc), CountFits(h, pc, s.count),
             \/ pc \in {"recheck", "finalize", "clear"}
             \/ s.op = "finish" /\ pc = "quota"
             => s.relay # NoRelay,
             pc = "clear" /\ s.op # "cancel" => s.pc = "warm"
      PROVE  HandlerRight(h)'
  <2>1. handler'[h].pc = pc
    BY <1>0, <1>5 DEF Go, GoNow, Poised, HandlerState
  <2>2. HandlerTx(h)'
    BY <1>2, <1>5, <2>1 DEF TxSteps
  <2>3. pc \in Step \ {"idle"} /\ pc \notin {"warm", "relist"}
    BY DEF Step
  <2> QED BY <1>1, <1>5, <2>2, <2>3, GoIsRight DEF NoRelayNeeded
<1>6. CASE CreateLookup(h) \/ CreateQuota(h)
  <2>1. /\ s.pc \in {"lookup", "quota"} /\ s.op = "upload" /\ tx'[h] = tx[h]
        /\ Return(h) \/ GoNow(h, "quota") \/ Go(h, "persist")
    BY <1>6 DEF CreateLookup, CreateQuota, At, GoNow, storeVars
  <2>2. s.count = 0
    BY <1>0, <2>1 DEF Poised, HandlerRight, HandlerCounts
  <2>3. CASE Return(h)
    BY <1>1, <2>1, <2>3, ReturnIsRight DEF TxSteps
  <2> QED BY <1>5, <2>1, <2>2, <2>3 DEF OpsAt, CountFits, TxSteps
<1>8. CASE CreatePersist(h)
  <2>1. s.pc = "persist" /\ s.op = "upload" /\ s.count = 0 /\ s.src \in Update
    BY <1>0, <1>8 DEF CreatePersist, At, Poised, HandlerRight, HandlerCounts
  <2>2. CASE Return(h) /\ UNCHANGED storeVars
    BY <1>1, <2>1, <2>2, ReturnIsRight DEF storeVars, TxSteps
  <2>3. ASSUME NEW r \in RelayId, NEW c \in Code,
               CreateRelay(h, r, s.src, c, s.chat, s.now + RelayTTL, s.now),
               Go(h, "fill")
        PROVE  HandlerRight(h)'
    <3>1. /\ handler'[h].pc = "fill" /\ handler'[h].chat = s.chat
          /\ handler'[h].src = s.src /\ CountFits(h, "fill", s.count)
      BY <1>0, <2>1, <2>3 DEF Go, Poised, HandlerState, CountFits
    <3>2. /\ tx'[h].op = "create" /\ tx'[h].row.chat = s.chat /\ tx'[h].src = s.src
          /\ tx'[h].key = NoUpdate
      BY <1>0, <2>3 DEF CreateRelay, ReadyRow, Handler
    <3>3. HandlerTx(h)'
      BY <3>1, <3>2 DEF HandlerTx
    <3> QED BY <1>1, <2>1, <2>3, <3>1, <3>3, GoIsRight DEF OpsAt, Step, NoRelayNeeded
  <2>4. ASSUME NEW r \in RelayId, NEW c \in Code,
               CreateRelayOfFiledUpload(h, r, s.src, c, s.chat, s.now + RelayTTL, s.now),
               handler' = [handler EXCEPT ![h].pc = "warm", ![h].relay = r, ![h].code = c]
        PROVE  HandlerRight(h)'
    <3>1. /\ SameJob(h) /\ handler'[h].pc = "warm" /\ handler'[h].relay = r
          /\ handler'[h].count = 0 /\ handler'[h].code = c /\ handler'[h].chat = s.chat
      BY <1>0, <2>1, <2>4 DEF Poised, HandlerState, SameJob
    <3>2. /\ relays'[r] = ReadyRow(s.src, c, s.chat, s.now + RelayTTL, s.now)
          /\ tx'[h] = tx[h]
      BY <1>0, <2>4 DEF CreateRelayOfFiledUpload
    <3>3. PICK chat \in Chat : chat = s.chat
      BY <1>3, <2>1
    <3>4. Opened(r, chat)' /\ relays'[r].code = c
      BY <3>2, <3>3 DEF Opened, ReadyRow
    <3>5. Counted(r, 0)'
      <4>1. ItemsOf(r)' \subseteq Update
        BY DEF ItemsOf
      <4>2. Cardinality(ItemsOf(r)') \in Nat
        BY <4>1, FiniteUpdates, FS_Subset, FS_CardinalityType
      <4> QED BY <4>2 DEF Counted
    <3>6. HandlerTx(h)' /\ CountFits(h, "warm", 0) /\ c # NoCode
      BY <1>2, <2>1, <3>1, <3>2, NullsAreNotValues DEF CountFits, TxSteps
    <3> QED BY <1>1, <2>1, <3>1, <3>3, <3>4, <3>5, <3>6, RightWithRelay DEF OpsAt, Step
  <2> QED BY <1>8, <2>2, <2>3, <2>4 DEF CreatePersist
<1>9. CASE CreateCommit(h)
  <2>1. s.pc = "publish" /\ s.op = "upload" /\ CommitInsert(h) /\ s.count = 0
    BY <1>0, <1>9 DEF CreateCommit, At, Poised, HandlerRight, HandlerCounts
  <2>2. tx[h].op = "create" /\ tx[h].row.chat = s.chat /\ tx[h].row.code \in Code
    <3>1. tx[h].op = "create" /\ tx[h].row.chat = s.chat
      BY <1>0, <2>1 DEF Poised, HandlerRight, HandlerTx
    <3> QED BY <3>1 DEF StoreFacts, CodesUnique, Handler
  <2>3. PICK chat \in Chat, r \in RelayId, c \in Code :
            chat = s.chat /\ r = tx[h].relay /\ c = tx[h].row.code
    BY <1>0, <1>3, <2>1, <2>2 DEF Poised, OpenTransaction
  <2>4. /\ relays'[r] = tx[h].row /\ tx[h].row.status = "ready"
        /\ tx'[h].op = "none" /\ tx'[h].key = NoUpdate
    BY <1>0, <2>1, <2>2, <2>3
       DEF CommitInsert, CommittedRow, Released, NoTx, Handler, Poised, OpenTransaction
  <2>5. /\ SameJob(h) /\ handler'[h].pc = "warm" /\ handler'[h].relay = r
        /\ handler'[h].count = 0 /\ handler'[h].code = c
    BY <1>0, <1>9, <2>1, <2>3 DEF CreateCommit, Poised, HandlerState, SameJob
  <2>6. Opened(r, chat)' /\ relays'[r].code = c
    BY <2>2, <2>3, <2>4 DEF Opened
  <2>7. Counted(r, 0)'
    <3>1. ItemsOf(r)' \subseteq Update
      BY DEF ItemsOf
    <3>2. Cardinality(ItemsOf(r)') \in Nat
      BY <3>1, FiniteUpdates, FS_Subset, FS_CardinalityType
    <3> QED BY <3>2 DEF Counted
  <2>8. HandlerTx(h)' /\ CountFits(h, "warm", 0) /\ c # NoCode
    BY <2>4, <2>5, NullsAreNotValues DEF HandlerTx, CountFits
  <2> QED BY <1>1, <2>1, <2>3, <2>5, <2>6, <2>7, <2>8, RightWithRelay DEF OpsAt, Step
<1>10. CASE CommitAnswerLost(h)
  <2>1. Return(h) /\ LostCommit(h)
    BY <1>10 DEF CommitAnswerLost
  <2>2. CASE s.pc \in {"commit", "publish"} /\ CommitInsert(h)
    BY <1>1, <2>1, <2>2, ReturnIsRight DEF CommitInsert
  <2>3. CASE s.pc \in {"create", "persist", "finalize", "delete"} /\ tx' = tx
    BY <1>1, <2>1, <2>3, ReturnIsRight DEF TxSteps
  <2> QED BY <2>1, <2>2, <2>3
           DEF LostCommit, CreateRelayBatch, CreateRelayOfFiledUpload, FinalizeRelayBatch,
               RemoveRelay, DeleteRelay, DeleteRows, storeVars
<1>11. CASE WarmCodeCache(h)
  <2>1. s.pc = "warm" /\ tx'[h] = tx[h] /\ s.relay # NoRelay /\ s.op \in {"upload", "finish"}
    BY <1>0, <1>4, <1>11
       DEF WarmCodeCache, storeVars, NoRelayNeeded, Poised, HandlerRight, HandlerShape, OpsAt
  <2>2. CASE Return(h)
    BY <1>1, <2>1, <2>2, ReturnIsRight DEF TxSteps
  <2> QED BY <1>5, <1>11, <2>1, <2>2 DEF WarmCodeCache, OpsAt, CountFits, TxSteps
<1>12. ASSUME NEW r \in RelayId, NEW n \in Nat, NEW c \in Code, NEW chat \in Chat,
              s.relay = r, s.chat = chat, s.op = "finish",
              s.pc \in {"relist", "recheck", "finalize"},
              tx'[h] = tx[h], relays'[r].code = c, Opened(r, chat), Counted(r, n),
              SameJob(h), handler'[h].pc = "warm", handler'[h].relay = r,
              handler'[h].count = n, handler'[h].code = c
       PROVE  HandlerRight(h)'
  <2>1. Opened(r, chat)' /\ Counted(r, n)'
    BY <1>12, KnownStays
  <2>2. HandlerTx(h)' /\ CountFits(h, "warm", n) /\ c # NoCode
    BY <1>2, <1>12, NullsAreNotValues DEF CountFits, TxSteps
  <2> QED BY <1>1, <1>12, <2>1, <2>2, RightWithRelay DEF OpsAt, Step
<1>13. CASE FinishRelist(h) \/ FinishRecheck(h) \/ FinishFinalize(h)
  <2>1. s.op = "finish" /\ s.pc \in {"relist", "recheck", "finalize"}
    BY <1>13 DEF FinishRelist, FinishRecheck, FinishFinalize, At
  <2>2. PICK chat \in Chat, r \in RelayId, n \in Nat : chat = s.chat /\ r = s.relay /\ n = s.count
    BY <1>0, <1>3, <1>4, <2>1 DEF NoRelayNeeded, Poised, HandlerState
  <2>3. Opened(r, chat) /\ Counted(r, n)
    BY <1>0, <2>1, <2>2 DEF Poised, NoRelayNeeded
  <2>4. tx'[h] = tx[h]
    BY <1>13 DEF FinishRelist, FinishRecheck, FinishFinalize, FinalizeRelayBatch, storeVars
  <2>5. CASE Return(h)
    BY <1>1, <2>1, <2>4, <2>5, ReturnIsRight DEF TxSteps
  <2>6. ASSUME NEW c \in Code, relays'[r].code = c,
               handler' = [handler EXCEPT ![h].pc = "warm", ![h].code = c]
        PROVE  HandlerRight(h)'
    <3>1. /\ SameJob(h) /\ handler'[h].pc = "warm" /\ handler'[h].relay = r
          /\ handler'[h].count = n /\ handler'[h].code = c
      BY <1>0, <2>2, <2>6 DEF Poised, HandlerState, SameJob
    <3> QED BY <1>12, <2>1, <2>2, <2>3, <2>4, <2>6, <3>1
  <2>7. ASSUME relays[r].status = "ready", UNCHANGED storeVars,
               handler' = [handler EXCEPT ![h].pc = "warm", ![h].code = relays[r].code]
        PROVE  HandlerRight(h)'
    <3>1. PICK c \in Code : c = relays[r].code
      BY <1>0, <2>7 DEF ReadyHasCode, Row
    <3> QED BY <2>6, <2>7, <3>1 DEF storeVars
  <2>8. CASE FinishRelist(h)
    <3>1. PICK k \in Nat : k = Cardinality(ItemsOf(r))
      BY ItemsFinite
    <3>2. PICK c \in Code : c = relays[r].code
      BY <1>0, <2>2, <2>8 DEF FinishRelist, At, Poised, HandlerRight, HandlerCode, Row
    <3>3. /\ SameJob(h) /\ handler'[h].pc = "warm" /\ handler'[h].relay = r
          /\ handler'[h].count = k /\ handler'[h].code = c /\ relays' = relays
      BY <1>0, <2>2, <2>8, <3>1, <3>2
         DEF FinishRelist, Poised, HandlerState, SameJob, storeVars
    <3>4. Counted(r, k)
      BY <3>1 DEF Counted
    <3> QED BY <1>12, <2>1, <2>2, <2>3, <2>4, <3>2, <3>3, <3>4
  <2>9. CASE FinishRecheck(h)
    BY <2>2, <2>5, <2>7, <2>9 DEF FinishRecheck
  <2>10. CASE FinishFinalize(h)
    <3>1. ASSUME NEW c \in Code, FinalizeRelayBatch(r, c, s.now + RelayTTL, s.now)
          PROVE  relays'[r].code = c
      BY <1>0, <3>1 DEF FinalizeRelayBatch, Row
    <3> QED BY <2>2, <2>5, <2>6, <2>7, <2>10, <3>1 DEF FinishFinalize
  <2> QED BY <1>13, <2>8, <2>9, <2>10
<1>14. CASE FinishList(h)
  <2>1. s.op = "finish" /\ s.pc = "list" /\ tx'[h] = tx[h]
    BY <1>14 DEF FinishList, At, storeVars
  <2>2. PICK chat \in Chat, r \in RelayId : chat = s.chat /\ r = s.relay
    BY <1>3, <1>4, <2>1 DEF NoRelayNeeded
  <2>3. PICK n \in Nat : n = Cardinality(ItemsOf(r))
    BY ItemsFinite
  <2>4. CASE Return(h)
    BY <1>1, <2>1, <2>4, ReturnIsRight DEF TxSteps
  <2>5. CASE n # 0 /\ handler' = [handler EXCEPT ![h].pc = "quota", ![h].count = n]
    <3>1. Opened(r, chat) /\ Counted(r, n)
      BY <1>0, <2>1, <2>2, <2>3 DEF Poised, NoRelayNeeded, Counted
    <3>2. Opened(r, chat)' /\ Counted(r, n)'
      BY <3>1, KnownStays
    <3>3. /\ SameJob(h) /\ handler'[h].pc = "quota" /\ handler'[h].relay = r
          /\ handler'[h].count = n /\ handler'[h].code = s.code
          /\ s.code \in Code \cup {NoCode}
      BY <1>0, <2>2, <2>5 DEF Poised, HandlerState, SameJob
    <3>4. HandlerTx(h)' /\ CountFits(h, "quota", n)
      BY <1>2, <2>1, <2>5, <3>3 DEF CountFits, TxSteps
    <3> QED BY <1>1, <2>1, <2>2, <3>2, <3>3, <3>4, RightWithRelay DEF OpsAt, Step
  <2> QED BY <1>14, <2>2, <2>3, <2>4, <2>5 DEF FinishList
<1>15. CASE FinishQuota(h)
  <2>1. /\ s.op = "finish" /\ s.pc = "quota" /\ tx'[h] = tx[h]
        /\ Go(h, "recheck") \/ Go(h, "finalize")
    BY <1>15 DEF FinishQuota, At, storeVars
  <2>2. s.count > 0
    BY <1>0, <2>1 DEF Poised, HandlerRight, HandlerCounts
  <2>3. s.relay # NoRelay
    BY <1>0, <2>1 DEF Poised, HandlerRight, HandlerShape
  <2> QED BY <1>5, <2>1, <2>2, <2>3 DEF OpsAt, CountFits, TxSteps
<1>16. CASE FinishClear(h) \/ CancelClear(h)
  BY <1>1, <1>16, ReturnIsRight DEF FinishClear, CancelClear, At, storeVars, TxSteps
<1>17. CASE CancelDelete(h)
  <2>1. s.pc = "delete" /\ s.op = "cancel" /\ tx'[h] = tx[h] /\ Go(h, "clear")
    BY <1>17 DEF CancelDelete, At, RemoveRelay, DeleteRelay, DeleteRows, storeVars
  <2> QED BY <1>4, <1>5, <2>1 DEF OpsAt, CountFits, NoRelayNeeded, TxSteps
<1>18. CASE InstanceExhausted(h)
  BY <1>1, <1>18, ReturnIsRight DEF InstanceExhausted, storeVars, TxSteps
<1>19. CASE CallFails(h)
  <2>1. CASE tx[h] = NoTx
    <3>1. s.pc \notin TxSteps
      BY <1>0, <2>1 DEF Poised, HandlerRight, HandlerTx, NoTx, TxSteps
    <3> QED BY <1>1, <1>19, <2>1, <3>1, ReturnIsRight DEF CallFails, storeVars
  <2>2. CASE tx[h] # NoTx
    BY <1>1, <1>19, <2>2, ReturnIsRight DEF CallFails, RollbackInsert
  <2> QED BY <2>1, <2>2
<1> QED BY <1>6, <1>8, <1>9, <1>10, <1>11, <1>13, <1>14, <1>15, <1>16, <1>17, <1>18, <1>19

LEMMA HandlersMove ==
    ASSUME BatchInv, StoreFacts, ReadyHasCode, TablesMove, NEW h \in Handler,
           Receive(h) \/ Proceed(h) \/ Fail(h)
    PROVE  Moved(h)
<1>1. HandlerRight(h)'
  BY SessionStepsRight, BatchStepsRight, RelayStepsRight DEF Proceed, Fail
<1>2. Alone(h)
  BY HandlersMoveAlone
<1>3. HandlerMoves(h)
  BY <1>1, <1>2 DEF HandlerMoves, Alone
<1> QED BY <1>2, <1>3, HandlersWriteSessions, HandlersSeal, HandlersPass, CachesMove
        DEF Moved, Alone

-----------------------------------------------------------------------------
(* The invariant, and what follows from it.                                *)

(* What uploads keep of the tables and of their own state, together. *)
UploadFacts == StoreFacts /\ ReadyHasCode /\ BatchInv

LEMMA UploadFactsInit == BatchInit => UploadFacts
<1> SUFFICES ASSUME BatchInit PROVE UploadFacts
  OBVIOUS
<1>1. StoreFacts /\ ReadyHasCode
  BY StoreFactsInit DEF BatchInit, StoreInit, ReadyHasCode, UnusedRow
<1>2. BatchTypeOK /\ worker.now <= clock
  <2>1. TypeOK
    BY <1>1 DEF StoreFacts, StoreInv
  <2>2. Idle \in HandlerState /\ NoSession \in Session /\ [pc |-> "idle", now |-> 0] \in WorkerState
    BY DEF Idle, HandlerState, Operation, Step, NoSession, Session, WorkerState
  <2> QED BY <2>1, <2>2, LimitsPositive, LifetimesPositive DEF BatchInit, BatchTypeOK
<1>3. ASSUME NEW h \in Handler PROVE HandlerRight(h)
  <2>1. handler[h] = Idle /\ tx[h] = NoTx /\ clock = 0
    BY DEF BatchInit, StoreInit, Handler
  <2>2. HandlerShape(h)
    BY <2>1 DEF HandlerShape, Idle, OpsAt, NoRelayNeeded
  <2>3. HandlerCounts(h) /\ HandlerCode(h) /\ HandlerTx(h)
    BY <2>1 DEF HandlerCounts, HandlerCode, HandlerTx, Idle, NoTx
  <2> QED BY <2>2, <2>3 DEF HandlerRight
<1>4. \A c \in Chat : SessionRight(c)
  BY DEF BatchInit, SessionRight, NoSession
<1>5. CodesAgree
  BY DEF BatchInit, CodesAgree, Idle
<1>6. ActiveCapSlack
  <2> SUFFICES ASSUME NEW chat \in Chat
               PROVE  Cardinality(ActiveRelays(chat, clock)) + Cardinality(PastQuota(chat))
                      <= MaxActiveRelays - 1 + Cardinality(Handler)
    BY DEF ActiveCapSlack
  <2>1. ActiveRelays(chat, clock) = {}
    BY DEF BatchInit, StoreInit, ActiveRelays, UnusedRow
  <2>2. PastQuota(chat) = {}
    BY DEF BatchInit, PastQuota, PastQuotaSteps, Idle
  <2>3. Cardinality({}) = 0 /\ Cardinality(Handler) \in Nat
    BY FS_EmptySet, CapSetsFinite
  <2> QED BY <2>1, <2>2, <2>3, LimitsPositive
<1>7. FinishedBatchNotEmpty
  BY DEF BatchInit, StoreInit, FinishedBatchNotEmpty, UnusedRow
<1> QED BY <1>1, <1>2, <1>3, <1>4, <1>5, <1>6, <1>7 DEF UploadFacts, BatchInv

LEMMA UploadFactsStep ==
    ASSUME UploadFacts, [BatchNext]_vars
    PROVE  UploadFacts' /\ TablesMove
<1>0. StoreFacts /\ ReadyHasCode /\ BatchInv
  BY DEF UploadFacts
<1>1. [StoreNext]_storeVars
  BY <1>0, BatchStepsStore DEF StoreFacts
<1>2. TablesMove /\ ReadyHasCode'
  BY <1>0, <1>1, StoreStepMovesTables, ReadyKeepsCode
<1>3. BatchInv'
  <2>1. ASSUME NEW h \in Handler, Receive(h) \/ Proceed(h) \/ Fail(h) PROVE BatchInv'
    BY <1>0, <1>2, <2>1, HandlersMove, OneHandlerMoves
  <2>2. CASE Maintain \/ Crash \/ Tick \/ UNCHANGED vars
    BY <1>0, <1>2, <2>2, MaintenanceMovesNobody, NobodyMoves
  <2> QED BY <2>1, <2>2 DEF BatchNext
<1> QED BY <1>2, <1>3 DEF UploadFacts, TablesMove

(* What handlers hold, the sessions and the code cache agree with the      *)
(* tables at every moment, for any number of handlers, limits, failures    *)
(* and crashes (service.go:82-581).                                        *)
THEOREM UploadFactsAlways == BatchSpec => []UploadFacts
<1> QED BY UploadFactsInit, UploadFactsStep, PTL DEF BatchSpec

(* The invariant of the runs is among them. *)
THEOREM BatchInvAlways == BatchSpec => []BatchInv
<1>1. UploadFacts => BatchInv
  BY DEF UploadFacts
<1> QED BY <1>1, UploadFactsAlways, PTL

(* Uploading uses the tables as RelayStore lets its callers, so everything *)
(* proved of the store holds of every execution of the handlers, with the  *)
(* worker and crashes: store.go is called with nothing it does not expect. *)
THEOREM UploadsImplementStore == BatchSpec => StoreSpec
<1>1. BatchInit => StoreInit
  BY DEF BatchInit
<1>2. UploadFacts /\ [BatchNext]_vars => [StoreNext]_storeVars
  BY BatchStepsStore DEF UploadFacts, StoreFacts
<1> QED BY <1>1, <1>2, UploadFactsAlways, PTL DEF BatchSpec, StoreSpec

(* Whoever ends a batch, or finds it ended, answers with the relay's code, *)
(* and the code cache leads every code to its own relay, whatever races    *)
(* (service.go:498-523).                                                   *)
THEOREM CodesAlwaysAgree == BatchSpec => []CodesAgree
<1>1. UploadFacts => CodesAgree
  BY DEF UploadFacts, BatchInv
<1> QED BY <1>1, UploadFactsAlways, PTL

(* The cap on active relays is passed by at most one relay for each        *)
(* handler under way, however long the system runs (service.go:122, 475).  *)
THEOREM CapSlackBounded == BatchSpec => []ActiveCapSlack
<1>1. UploadFacts => ActiveCapSlack
  BY DEF UploadFacts, BatchInv
<1> QED BY <1>1, UploadFactsAlways, PTL

(* No race of appends, a cancel, the worker and /batch_done finishes an    *)
(* empty batch (service.go:459).                                           *)
THEOREM NoEmptyBatchFinished == BatchSpec => []FinishedBatchNotEmpty
<1>1. UploadFacts => FinishedBatchNotEmpty
  BY DEF UploadFacts, BatchInv
<1> QED BY <1>1, UploadFactsAlways, PTL

(* Counts carried by handlers and merged in any order never exceed what    *)
(* the batch holds (rediscache.go, service.go:337).                        *)
THEOREM CountsAlwaysHonest == BatchSpec => []CountsHonest
<1>1. UploadFacts => CountsHonest
  <2> SUFFICES ASSUME UploadFacts PROVE CountsHonest
    OBVIOUS
  <2>1. /\ \A h \in Handler : HandlerRight(h)
        /\ \A c \in Chat : SessionRight(c)
    BY DEF UploadFacts, BatchInv
  <2>2. ASSUME NEW c \in Chat, session[c] # NoSession, Exists(session[c].relay)
        PROVE  session[c].count <= Cardinality(ItemsOf(session[c].relay))
    BY <2>1, <2>2 DEF SessionRight, Counted
  <2>3. ASSUME NEW h \in Handler, handler[h].pc \in {"warm", "clear"}, Exists(handler[h].relay)
        PROVE  handler[h].count <= Cardinality(ItemsOf(handler[h].relay))
    BY <2>1, <2>3 DEF HandlerRight, HandlerShape, HandlerCounts, NoRelayNeeded, Counted
  <2> QED BY <2>2, <2>3 DEF CountsHonest
<1> QED BY <1>1, UploadFactsAlways, PTL

(* Nobody waits in a circle. Who waits for a row or for a new relay waits  *)
(* for an open transaction, also for one that waits itself: its INSERT     *)
(* waits for a rival's uncommitted item of the same upload. But who has    *)
(* inserted its item has nothing left to wait for. No transaction waited   *)
(* for is of a handler that has returned (store.go:125, 161, 192).         *)
THEOREM WaitsAlwaysEnd == BatchSpec => []WaitsEnd
<1> DEFINE Inserted(h) == handler[h].pc \in {"commit", "publish"}
           Inserting(h) == handler[h].pc \in {"file", "fill"}
<1>1. ASSUME UploadFacts, NEW h \in Handler, NEW g \in Handler, WaitsFor(h, g)
      PROVE  /\ ~Inserted(h)
             /\ handler[g].pc \in TxSteps
             /\ Inserting(h) => Inserted(g)
  <2>1. HandlerTx(g) /\ HandlerShape(h)
    BY <1>1 DEF UploadFacts, BatchInv, HandlerRight
  <2>2. Inserting(h) => handler[h].src \in Update /\ handler[h].src # NoUpdate
    BY <2>1, NullsAreNotValues DEF HandlerShape, OpsAt
  <2> QED BY <1>1, <2>1, <2>2 DEF WaitsFor, HoldsRow, CreatesFrom, HoldsKey, HandlerTx, TxSteps
<1>2. ASSUME UploadFacts, NEW S \in (SUBSET Handler) \ {{}}
      PROVE  \E h \in S : \A g \in S : ~WaitsFor(h, g)
  <2>1. CASE \E h \in S : Inserted(h)
    BY <1>1, <1>2, <2>1
  <2>2. CASE (\E h \in S : Inserting(h)) /\ (\A g \in S : ~Inserted(g))
    BY <1>1, <1>2, <2>2
  <2>3. CASE \A g \in S : ~Inserting(g) /\ ~Inserted(g)
    <3>1. \A g \in S : handler[g].pc \notin TxSteps
      BY <2>3 DEF TxSteps
    <3>2. PICK h \in S : h \in Handler
      BY <1>2
    <3>3. ASSUME NEW g \in S PROVE ~WaitsFor(h, g)
      <4>1. g \in Handler
        BY <1>2
      <4> QED BY <1>1, <1>2, <3>1, <3>2, <4>1
    <3> QED BY <3>3
  <2> QED BY <2>1, <2>2, <2>3
<1>3. UploadFacts => WaitsEnd
  BY <1>1, <1>2 DEF WaitsEnd, TxSteps
<1> QED BY <1>3, UploadFactsAlways, PTL

-----------------------------------------------------------------------------
(* What may end a relay that can be claimed.                               *)

(* Transactions, a new batch and the end of another keep a ready relay. *)
LEMMA ReadyRowsKept ==
    ASSUME StoreFacts, NEW h \in Handler, StoreCall(h), NEW r \in RelayId,
           relays[r].status = "ready",
           ~((At(h, "cancel", "delete") \/ At(h, "start", "undo")) /\ handler[h].relay = r)
    PROVE  relays'[r].status = "ready"
<1>0. /\ TypeOK /\ OpenTransaction(h) /\ relays \in [RelayId -> Row] /\ relays[r] \in Row
      /\ tx[h] \in TxRecord
  BY DEF StoreFacts, StoreInv, OpenTransactions, TypeOK, Handler
<1>1. CASE TxNext(h)
  <2>1. ASSUME NEW q \in RelayId, NEW u \in Update, NEW c \in Code,
               NEW chat \in Chat, NEW e \in Time, NEW at \in Time,
               CreateRelayOfFiledUpload(h, q, u, c, chat, e, at)
        PROVE  relays'[r].status = "ready"
    BY <1>0, <2>1 DEF CreateRelayOfFiledUpload, CreateMayInsert, FreshId
  <2>2. CASE CommitInsert(h)
    <3>1. /\ relays' = [relays EXCEPT ![tx[h].relay] = CommittedRow(h)]
          /\ tx[h].op \in {"add", "create"}
      BY <1>0, <2>2, InsertedItem DEF CommitInsert, Handler, StoreFacts, StoreInv
    <3> QED BY <1>0, <3>1 DEF OpenTransaction
  <2> QED BY <1>1, <2>1, <2>2
           DEF TxNext, CreateRelay, AddRelayItem, InsertItem, RollbackInsert
<1>2. ASSUME NEW q \in RelayId, NEW chat \in Chat, NEW at \in Time,
             CreateRelayBatch(q, chat, at)
      PROVE  relays'[r].status = "ready"
  BY <1>0, <1>2 DEF CreateRelayBatch, FreshId
<1>3. ASSUME NEW q \in RelayId, NEW c \in Code, NEW e \in Time, NEW at \in Time,
             FinalizeRelayBatch(q, c, e, at)
      PROVE  relays'[r].status = "ready"
  BY <1>0, <1>3 DEF FinalizeRelayBatch, FinalizeMatches
<1>4. ASSUME NEW q \in RelayId, q # r, RemoveRelay(q) PROVE relays'[r].status = "ready"
  BY <1>4 DEF RemoveRelay, DeleteRelay, DeleteRows, storeVars
<1> QED BY <1>1, <1>2, <1>3, <1>4 DEF StoreCall, storeVars

(* A claimable relay ends early only by a deletion that a /batch_done has  *)
(* overtaken: of a /batch_cancel, or of a /batch_start whose SET of the    *)
(* session failed. Not by any other step, nor by the worker with an old    *)
(* clock value, nor by any retry (service.go:256-260, 563-581,             *)
(* runner.go:70).                                                          *)
THEOREM ReadyRelaysStay == BatchSpec => OnlyOvertakenRemovesReady
<1> DEFINE Stays == \A r \in RelayId :
                       relays[r].status = "ready" /\ relays[r].expiresAt > clock
                       /\ relays'[r].status # "ready"
                       => \E h \in Handler :
                             /\ At(h, "cancel", "delete") \/ At(h, "start", "undo")
                             /\ handler[h].relay = r
<1>1. ASSUME UploadFacts, BatchNext, NEW r \in RelayId, relays[r].status = "ready",
             relays[r].expiresAt > clock, relays'[r].status # "ready"
      PROVE  \E h \in Handler : /\ At(h, "cancel", "delete") \/ At(h, "start", "undo")
                                /\ handler[h].relay = r
  <2>0. /\ StoreFacts /\ BatchInv /\ StoreInv /\ worker.now <= clock
        /\ clock \in Int /\ worker.now \in Int /\ relays[r].expiresAt \in Int
    BY <1>1 DEF UploadFacts, StoreFacts, StoreInv, TypeOK, Row, BatchInv, BatchTypeOK, WorkerState
  <2>1. ASSUME NEW h \in Handler, Receive(h) \/ Proceed(h) \/ Fail(h)
        PROVE  /\ At(h, "cancel", "delete") \/ At(h, "start", "undo")
               /\ handler[h].relay = r
    <3>1. StoreCall(h)
      BY <2>0, <2>1, HandlersCallStore
    <3> QED BY <1>1, <2>0, <3>1, ReadyRowsKept
  <2>2. CASE WorkerPurge
    <3>1. \/ relays' = relays
          \/ DeleteRows(StaleCollecting(clock - SessionTTL))
      BY <2>2 DEF WorkerPurge, DeleteCollectingRelaysBefore, storeVars
    <3>2. r \notin StaleCollecting(clock - SessionTTL)
      BY <1>1 DEF StaleCollecting
    <3> QED BY <1>1, <3>1, <3>2 DEF DeleteRows
  <2>3. CASE WorkerExpire
    <3>1. ~Due(r, worker.now)
      BY <1>1, <2>0 DEF Due
    <3>2. CASE ExpireRelays(worker.now)
      BY <1>1, <3>1, <3>2 DEF ExpireRelays
    <3> QED BY <1>1, <2>3, <3>2 DEF WorkerExpire, storeVars
  <2>4. CASE Crash \/ Tick
    BY <1>1, <2>4 DEF Crash, RollbackAll, Tick, storeVars
  <2> QED BY <1>1, <2>1, <2>2, <2>3, <2>4 DEF BatchNext, Maintain
<1>2. UploadFacts /\ [BatchNext]_vars => [Stays]_vars
  BY <1>1
<1> QED BY <1>2, UploadFactsAlways, PTL DEF BatchSpec, OnlyOvertakenRemovesReady

=============================================================================
