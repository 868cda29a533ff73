---------------------------- MODULE RelayBotProofs ----------------------------
(***************************************************************************)
(* The two halves of the bot, proved to be what each of them assumes of    *)
(* the other: every step of the bot is a step of BatchUpload and a step of *)
(* ClaimDelivery, so that all that is proved of either holds of the bot,   *)
(* and what is promised to an uploader is what a claimer gets.             *)
(*                                                                         *)
(* That a step is one of BatchUpload shows in its form. That it is one of  *)
(* ClaimDelivery needs the invariant of the uploads: a handler's clock     *)
(* reading is not of the future, what it finalizes has files, the code it  *)
(* caches is its relay's, and whatever it does to the tables deletes at    *)
(* most one relay, with which its deliveries go.                           *)
(***************************************************************************)
EXTENDS RelayBot, BatchUploadProofs, ClaimDeliveryProofs

(* What the bot keeps at every moment. *)
BotFacts == UploadFacts /\ ClaimInv /\ OneWorker

-----------------------------------------------------------------------------
(* What each kind of step leaves alone. *)

LEMMA ClaimersLeave ==
    ASSUME NEW h \in Claimer, ReceiveClaim(h) \/ ClaimProceed(h) \/ ClaimFails(h) \/ AnswerLost(h)
    PROVE  UNCHANGED <<storeVars, clock, cycle>>
BY DEF ReceiveClaim, ClaimProceed, ClaimFails, AnswerLost, LookupCached, LookupById,
       LookupByCode, WarmCache, ListItems, CreateDelivery, ReplyNotFound, SendPage,
       MarkSent, MarkFailedOrUnknown, readOnly

LEMMA HandlersLeave ==
    ASSUME NEW h \in Handler, Receive(h) \/ Proceed(h) \/ Fail(h)
    PROVE  UNCHANGED <<clock, worker>>
<1>1. CASE Receive(h) \/ Fail(h)
  BY <1>1 DEF Receive, Begin, Fail, StartSetFails, CallFails, CommitAnswerLost
<1>2. CASE Proceed(h)
  BY <1>2 DEF Proceed, LoadSession, CheckSessionRelay, DropStaleSession, StartCreate,
      StartSetSession, StartUndo, AppendInsert, FileItem, FileConflict, AppendCommit,
      AppendRecount, AppendMerge, ProgressLoad, ProgressMerge, CreateLookup, CreateQuota, CreatePersist,
      CreateCommit, WarmCodeCache, FinishRelist, FinishList, FinishQuota,
      FinishRecheck, FinishFinalize, FinishClear, CancelDelete, CancelClear, InstanceExhausted
<1> QED BY <1>1, <1>2

(* Caching a code writes nothing else. *)
LEMMA WarmingLeaves ==
    ASSUME NEW h \in Handler, Receive(h) \/ Proceed(h) \/ Fail(h), handler[h].pc = "warm"
    PROVE  UNCHANGED storeVars
<1>1. CASE Receive(h) \/ Fail(h)
  BY <1>1 DEF Receive, Begin, Idle, Fail, StartSetFails, CallFails, CommitAnswerLost,
              LostCommit, At
<1>2. CASE Proceed(h)
  BY <1>2 DEF Proceed, LoadSession, CheckSessionRelay, DropStaleSession, StartCreate,
      StartSetSession, StartUndo, AppendInsert, FileItem, FileConflict, AppendCommit,
      AppendRecount, AppendMerge, ProgressLoad, ProgressMerge, CreateLookup, CreateQuota, CreatePersist,
      CreateCommit, WarmCodeCache, FinishRelist, FinishList, FinishQuota,
      FinishRecheck, FinishFinalize, FinishClear, CancelDelete, CancelClear,
      InstanceExhausted, At
<1> QED BY <1>1, <1>2

-----------------------------------------------------------------------------
(* The bot does what uploading assumes.                                    *)

LEMMA BotStepsUpload ==
    ASSUME [BotNext]_botVars
    PROVE  [BatchNext]_vars
<1>1. ASSUME NEW h \in Handler, UploadMoves(h) PROVE BatchNext
  BY <1>1 DEF UploadMoves, BatchNext
<1>2. ASSUME NEW h \in Claimer, ClaimMoves(h) PROVE UNCHANGED vars
  <2>1. UNCHANGED <<storeVars, clock>> /\ UNCHANGED batchVars
    BY <1>2, ClaimersLeave DEF ClaimMoves
  <2> QED BY <2>1 DEF vars
<1>3. CASE RunOnce
  <2>1. CASE WorkerPurge \/ WorkerExpire
    BY <2>1 DEF BatchNext, Maintain
  <2>2. CASE (CycleMarkUnknown \/ CyclePurge) /\ UNCHANGED batchVars
    BY <2>2 DEF CycleMarkUnknown, CyclePurge, vars
  <2> QED BY <1>3, <2>1, <2>2 DEF RunOnce
<1>4. CASE Restart \/ TimePasses
  BY <1>4 DEF Restart, TimePasses, BatchNext
<1>5. CASE UNCHANGED botVars
  BY <1>5 DEF botVars
<1> QED BY <1>1, <1>2, <1>3, <1>4, <1>5 DEF BotNext

-----------------------------------------------------------------------------
(* The bot does what claiming assumes.                                     *)

(* The calls of upload handlers are those ClaimDelivery knows.             *)
UploadCall ==
    \/ UNCHANGED storeVars
    \/ UploadStep
    \/ \E r \in RelayId : DeleteRelay(r)

LEMMA HandlersUpload ==
    ASSUME UploadFacts, NEW h \in Handler, Receive(h) \/ Proceed(h) \/ Fail(h)
    PROVE  UploadCall
<1> DEFINE s == handler[h]
<1>0. BatchTypeOK /\ HandlerRight(h)
  BY DEF UploadFacts, BatchInv
<1>1. s.now \in 0 .. clock
  <2>1. s.now \in Nat /\ clock \in 0 .. MaxClock /\ s.now <= clock
    BY <1>0 DEF BatchTypeOK, HandlerState, HandlerRight, HandlerShape
  <2> QED BY <2>1, LifetimesPositive
<1>2. /\ s.pc # "idle" => s.chat \in Chat
      /\ s.op = "upload" => s.src \in Update
      /\ s.pc \notin NoRelayNeeded => s.relay \in RelayId
  BY <1>0 DEF HandlerRight, HandlerShape, HandlerCounts, Opened
<1>3. ASSUME InsertItem(h) \/ CommitInsert(h) \/ RollbackInsert(h) PROVE UploadCall
  BY <1>3 DEF UploadCall, UploadStep, Handler
<1>4. ASSUME UNCHANGED storeVars PROVE UploadCall
  BY <1>4 DEF UploadCall
<1>5. CASE StartCreate(h)
  BY <1>1, <1>2, <1>5 DEF StartCreate, At, UploadCall, UploadStep
<1>6. CASE StartUndo(h) \/ CancelDelete(h)
  BY <1>2, <1>6 DEF StartUndo, CancelDelete, At, NoRelayNeeded, RemoveRelay, UploadCall
<1>7. CASE AppendInsert(h)
  BY <1>1, <1>2, <1>4, <1>7 DEF AppendInsert, At, NoRelayNeeded, UploadCall, UploadStep, Handler
<1>8. CASE FileItem(h) \/ FileConflict(h) \/ AppendCommit(h) \/ CreateCommit(h)
  BY <1>3, <1>8 DEF FileItem, FileConflict, AppendCommit, CreateCommit
<1>9. CASE CreatePersist(h)
  BY <1>1, <1>2, <1>4, <1>9 DEF CreatePersist, At, UploadCall, UploadStep, Handler
<1>14. ASSUME s.pc = "finalize", NEW c \in Code,
              FinalizeRelayBatch(s.relay, c, s.now + RelayTTL, s.now)
       PROVE  UploadCall
  <2>1. s.relay \in RelayId /\ s.op = "finish"
    BY <1>0, <1>2, <1>14 DEF NoRelayNeeded, HandlerRight, HandlerShape, OpsAt
  <2>2. s.count > 0 /\ Counted(s.relay, s.count) /\ s.count \in Nat
    BY <1>0, <1>14, <2>1, NullsAreNotValues
       DEF HandlerRight, HandlerCounts, BatchTypeOK, HandlerState
  <2>3. ItemsOf(s.relay) # {}
    <3>1. s.count <= Cardinality(ItemsOf(s.relay))
      BY <1>14, <2>2 DEF Counted, Exists, FinalizeRelayBatch, FinalizeMatches, RowStatus
    <3> QED BY <2>2, <3>1, FS_EmptySet
  <2> QED BY <1>1, <1>14, <2>1, <2>3 DEF UploadCall, UploadStep
<1>10. CASE FinishFinalize(h)
  <2>1. s.pc = "finalize"
    BY <1>10 DEF FinishFinalize, At
  <2> QED BY <1>4, <1>10, <1>14, <2>1 DEF FinishFinalize
<1>11. CASE CallFails(h)
  BY <1>3, <1>4, <1>11 DEF CallFails
<1>12. CASE Receive(h) \/ StartSetFails(h)
  BY <1>4, <1>12 DEF Receive, Begin, StartSetFails
<1>15. CASE CommitAnswerLost(h)
  <2>1. LostCommit(h)
    BY <1>15 DEF CommitAnswerLost
  <2>2. CASE s.pc = "create"
    BY <1>1, <1>2, <2>1, <2>2 DEF LostCommit, UploadCall, UploadStep
  <2>3. CASE s.pc = "persist"
    <3>1. s.src \in Update
      BY <1>0, <1>2, <2>3 DEF HandlerRight, HandlerShape, OpsAt
    <3> QED BY <1>1, <1>2, <2>1, <2>3, <3>1 DEF LostCommit, UploadCall, UploadStep, Handler
  <2>4. CASE s.pc = "finalize"
    BY <1>14, <2>1, <2>4 DEF LostCommit
  <2>5. CASE s.pc = "delete"
    BY <1>2, <1>4, <2>1, <2>5 DEF LostCommit, NoRelayNeeded, RemoveRelay, UploadCall
  <2> QED BY <1>3, <2>1, <2>2, <2>3, <2>4, <2>5 DEF LostCommit
<1>13. CASE Proceed(h)
  BY <1>4, <1>5, <1>6, <1>7, <1>8, <1>9, <1>10, <1>13
     DEF Proceed, LoadSession, CheckSessionRelay, DropStaleSession, StartSetSession,
         AppendRecount, AppendMerge, ProgressLoad, ProgressMerge, CreateLookup,
         CreateQuota, WarmCodeCache, FinishRelist, FinishList, FinishQuota, FinishRecheck,
         FinishClear, CancelClear, InstanceExhausted
<1> QED BY <1>11, <1>12, <1>13, <1>15 DEF Fail

(* The cascade takes nothing unless a relay is deleted. *)
LEMMA CascadeTakes ==
    ASSUME ClaimTypeOK, Cascade, NEW D,
           {r \in RelayId : Exists(r) /\ ~Exists(r)'} = D
    PROVE  RemoveDeliveries(DeliveriesOf(D)) /\ (D = {} => UNCHANGED deliveries)
BY DEF Cascade, RemoveDeliveries, DeliveriesOf, ClaimTypeOK

(* Relays other than a deleted one are still there after a handler's step. *)
LEMMA NobodyElseDeleted ==
    ASSUME StoreFacts, TablesMove, UploadStep
    PROVE  {r \in RelayId : Exists(r) /\ ~Exists(r)'} = {}
<1> SUFFICES ASSUME NEW r \in RelayId, Exists(r) PROVE Exists(r)'
  OBVIOUS
<1>1. relays[r].status # "deleted" /\ relays[r].status # "unused"
  BY DEF Exists, RowStatus
<1>2. relays'[r].status # "deleted" /\ relays'[r].status # "unused"
  BY <1>1, NothingDeleted DEF TablesMove, RowGrows
<1>3. relays'[r] \in Row
  BY DEF TablesMove, StoreFacts, StoreInv, TypeOK
<1> QED BY <1>2, <1>3 DEF Exists, Row

LEMMA UploadsSeenByClaims ==
    ASSUME UploadFacts, TablesMove, ClaimInv, NEW h \in Handler, UploadMoves(h)
    PROVE  [ClaimNext]_claimingVars
<1>0. /\ ClaimTypeOK /\ BatchTypeOK /\ StoreFacts /\ HandlerRight(h)
      /\ Receive(h) \/ Proceed(h) \/ Fail(h)
      /\ Cascade /\ CacheCode(h)
      /\ UNCHANGED <<claimed, claimer, sends, inbox, cycle, claimFaults, clock>>
  BY HandlersLeave DEF ClaimInv, UploadFacts, BatchInv, UploadMoves, UploadEffects
<1>1. CASE handler[h].pc = "warm"
  <2>1. UNCHANGED storeVars
    BY <1>0, <1>1, WarmingLeaves
  <2>2. {r \in RelayId : Exists(r) /\ ~Exists(r)'} = {}
    BY <2>1 DEF storeVars, Exists
  <2>3. UNCHANGED deliveries
    BY <1>0, <2>2, CascadeTakes
  <2>4. CASE UNCHANGED codeEntries
    BY <1>0, <2>1, <2>3, <2>4 DEF claimingVars, claimVars
  <2>5. CASE ~UNCHANGED codeEntries
    <3> DEFINE s == handler[h]
    <3>1. /\ relays[s.relay].expiresAt > s.now
          /\ codeEntries' = [codeEntries EXCEPT ![s.code] =
                [relay |-> s.relay, deadline |-> clock + (relays[s.relay].expiresAt - s.now)]]
      BY <1>0, <2>5 DEF CacheCode, LifeLeft
    <3>2. s.relay \in RelayId /\ s.code # NoCode /\ relays[s.relay].code = s.code
      BY <1>0, <1>1 DEF HandlerRight, HandlerShape, HandlerCounts, HandlerCode, Opened,
                        NoRelayNeeded, OpsAt
    <3>3. s.now \in 0 .. clock
      <4>1. s.now \in Nat /\ clock \in 0 .. MaxClock /\ s.now <= clock
        BY <1>0 DEF BatchTypeOK, HandlerState, HandlerRight, HandlerShape
      <4> QED BY <4>1, LifetimesPositive
    <3>4. UploadWarmsCache
      BY <1>0, <2>1, <2>3, <3>1, <3>2, <3>3 DEF UploadWarmsCache, readOnly
    <3> QED BY <3>4 DEF ClaimNext
  <2> QED BY <2>4, <2>5
<1>2. CASE handler[h].pc # "warm"
  <2>1. UNCHANGED codeEntries
    BY <1>0, <1>2 DEF CacheCode
  <2>2. UploadCall
    BY <1>0, HandlersUpload
  <2>3. CASE UNCHANGED storeVars
    <3>1. {r \in RelayId : Exists(r) /\ ~Exists(r)'} = {}
      BY <2>3 DEF storeVars, Exists
    <3>2. UNCHANGED deliveries
      BY <1>0, <3>1, CascadeTakes
    <3> QED BY <1>0, <2>1, <2>3, <3>2 DEF claimingVars, claimVars
  <2>4. CASE UploadStep
    <3>1. UNCHANGED deliveries
      BY <1>0, <2>4, NobodyElseDeleted, CascadeTakes
    <3>2. Upload
      BY <1>0, <2>1, <2>4, <3>1 DEF Upload, claimVars
    <3> QED BY <3>2 DEF ClaimNext
  <2>5. ASSUME NEW r \in RelayId, DeleteRelay(r) PROVE CancelRelay
    <3>1. /\ Exists(r) /\ relays'[r].status = "deleted"
          /\ \A q \in RelayId \ {r} : relays'[q] = relays[q]
      BY <2>5 DEF DeleteRelay, DeleteRows, DeletedRow
    <3>2. {q \in RelayId : Exists(q) /\ ~Exists(q)'} = {r}
      BY <3>1 DEF Exists, RowStatus
    <3>3. RemoveDeliveries(DeliveriesOf({r}))
      BY <1>0, <3>2, CascadeTakes
    <3> QED BY <1>0, <2>1, <2>5, <3>3 DEF CancelRelay
  <2> QED BY <2>2, <2>3, <2>4, <2>5 DEF UploadCall, ClaimNext
<1> QED BY <1>1, <1>2

LEMMA BotStepsClaim ==
    ASSUME BotFacts, TablesMove, [BotNext]_botVars
    PROVE  [ClaimNext]_claimingVars
<1>1. ASSUME NEW h \in Handler, UploadMoves(h) PROVE [ClaimNext]_claimingVars
  BY <1>1, UploadsSeenByClaims DEF BotFacts
<1>2. ASSUME NEW h \in Claimer, ClaimMoves(h) PROVE ClaimNext
  BY <1>2 DEF ClaimMoves, ClaimNext
<1>3. CASE RunOnce
  BY <1>3 DEF RunOnce, ClaimNext, RunCycle
<1>4. CASE Restart \/ TimePasses
  BY <1>4 DEF Restart, TimePasses, ClaimNext
<1>5. CASE UNCHANGED botVars
  BY <1>5 DEF botVars, vars, claimingVars
<1> QED BY <1>1, <1>2, <1>3, <1>4, <1>5 DEF BotNext

-----------------------------------------------------------------------------
(* The invariant. *)

LEMMA OneWorkerStays ==
    ASSUME BotFacts, [BotNext]_botVars
    PROVE  OneWorker'
<1>0. OneWorker /\ cycle \in [pc : {"idle", "expire", "unknown", "purge"}, now : Nat]
  BY DEF BotFacts, ClaimInv, ClaimTypeOK
<1>1. ASSUME UNCHANGED <<worker, cycle>> PROVE OneWorker'
  BY <1>0, <1>1 DEF OneWorker
<1>2. ASSUME NEW h \in Handler, UploadMoves(h) PROVE OneWorker'
  BY <1>1, <1>2, HandlersLeave DEF UploadMoves, UploadEffects
<1>3. ASSUME NEW h \in Claimer, ClaimMoves(h) PROVE OneWorker'
  BY <1>1, <1>3, ClaimersLeave DEF ClaimMoves, batchVars
<1>4. CASE RunOnce
  <2>1. CASE WorkerPurge /\ CycleStart
    BY <2>1 DEF WorkerPurge, CycleStart, OneWorker
  <2>2. CASE WorkerExpire /\ CycleExpire
    BY <1>0, <2>2 DEF WorkerExpire, CycleExpire, OneWorker
  <2>3. CASE (CycleMarkUnknown \/ CyclePurge) /\ UNCHANGED batchVars
    BY <1>0, <2>3 DEF CycleMarkUnknown, CyclePurge, batchVars, OneWorker
  <2> QED BY <1>4, <2>1, <2>2, <2>3 DEF RunOnce
<1>5. CASE Restart
  BY <1>5 DEF Restart, Crash, ClaimCrash, OneWorker
<1>6. CASE TimePasses \/ UNCHANGED botVars
  BY <1>1, <1>6 DEF TimePasses, Tick, ClaimTick, botVars, vars, batchVars
<1> QED BY <1>2, <1>3, <1>4, <1>5, <1>6 DEF BotNext

LEMMA BotFactsInit == BotInit => BotFacts
<1>1. BatchInit => UploadFacts
  BY UploadFactsInit
<1>2. ClaimInit => ClaimInv
  BY InitClaimInv
<1>3. BatchInit /\ ClaimInit => OneWorker
  BY DEF BatchInit, ClaimInit, OneWorker
<1> QED BY <1>1, <1>2, <1>3 DEF BotInit, BotFacts

LEMMA BotFactsStep ==
    ASSUME BotFacts, [BotNext]_botVars
    PROVE  BotFacts' /\ TablesMove /\ [ClaimNext]_claimingVars
<1>1. UploadFacts' /\ TablesMove
  BY BotStepsUpload, UploadFactsStep DEF BotFacts
<1>2. [ClaimNext]_claimingVars
  BY <1>1, BotStepsClaim
<1>3. ClaimInv'
  BY <1>2, NextClaimInv DEF BotFacts, UploadFacts
<1> QED BY <1>1, <1>2, <1>3, OneWorkerStays DEF BotFacts

(* What is promised stays true: a code stays with its relay, and a relay   *)
(* that has its code keeps its files as long as it is there.               *)
LEMMA PromiseStays ==
    ASSUME TablesMove, NEW p, PromiseRight(p)
    PROVE  PromiseRight(p)'
<1>1. PICK r \in RelayId : /\ relays[r].code = p[1] /\ p[1] # NoCode
                           /\ Exists(r) => p[2] <= Cardinality(ItemsOf(r))
  BY DEF PromiseRight
<1>2. /\ RowLife(r) /\ StoreFacts /\ relays[r] \in Row
      /\ relays[r].status \in {"ready", "expired"} /\ relays'[r].status # "deleted"
         => ItemsOf(r)' = ItemsOf(r)
  BY DEF TablesMove, StoreFacts, StoreInv, TypeOK
<1>3. relays'[r].code = p[1]
  BY <1>1, <1>2 DEF RowLife, RowKept
<1>4. relays[r].status \in {"ready", "expired", "deleted"}
  BY <1>1, <1>2 DEF StoreFacts, CodeComesWithReady, Row, RowStatus
<1>5. ASSUME Exists(r)' PROVE p[2] <= Cardinality(ItemsOf(r)')
  <2>1. relays'[r].status # "deleted" /\ relays[r].status # "deleted"
    BY <1>2, <1>5 DEF Exists, RowStatus, RowLife
  <2>2. Exists(r) /\ ItemsOf(r)' = ItemsOf(r)
    BY <1>2, <1>4, <2>1 DEF Exists, RowStatus
  <2> QED BY <1>1, <2>2
<1> QED BY <1>1, <1>3, <1>5 DEF PromiseRight

(* What the reply to /batch_done says is true when it is sent. *)
LEMMA PromiseTrueAtFirst ==
    ASSUME UploadFacts, NEW h \in Handler, At(h, "finish", "clear")
    PROVE  /\ <<handler[h].code, handler[h].count>> \in Code \X Nat
           /\ PromiseRight(<<handler[h].code, handler[h].count>>)
<1> DEFINE s == handler[h]
<1>1. s \in HandlerState /\ HandlerRight(h)
  BY DEF UploadFacts, BatchInv, BatchTypeOK
<1>2. /\ s.code # NoCode /\ relays[s.relay].code = s.code
      /\ s.relay \in RelayId /\ Counted(s.relay, s.count)
  BY <1>1 DEF At, HandlerRight, HandlerShape, HandlerCounts, HandlerCode, Opened, NoRelayNeeded
<1>3. s.code \in Code /\ s.count \in Nat
  BY <1>1, <1>2 DEF HandlerState
<1> QED BY <1>2, <1>3 DEF PromiseRight, Counted

LEMMA PromisesStayRight ==
    ASSUME UploadFacts, TablesMove, PromisesRight, [BotNext]_botVars
    PROVE  PromisesRight'
<1>1. ASSUME UNCHANGED promised PROVE PromisesRight'
  BY <1>1, PromiseStays DEF PromisesRight
<1>2. ASSUME NEW h \in Handler, UploadMoves(h) PROVE PromisesRight'
  <2>1. CASE At(h, "finish", "clear")
    <3> DEFINE new == <<handler[h].code, handler[h].count>>
    <3>1. new \in Code \X Nat /\ PromiseRight(new)
      BY <2>1, PromiseTrueAtFirst
    <3>2. promised' = promised \cup {new}
      BY <1>2, <2>1 DEF UploadMoves, UploadEffects, Promise
    <3> HIDE DEF new
    <3>3. \A p \in promised' : PromiseRight(p)
      BY <3>1, <3>2 DEF PromisesRight
    <3>4. \A p \in promised' : PromiseRight(p)'
      BY <3>3, PromiseStays
    <3> QED BY <3>1, <3>2, <3>4 DEF PromisesRight
  <2>2. CASE ~At(h, "finish", "clear")
    BY <1>1, <1>2, <2>2 DEF UploadMoves, UploadEffects, Promise
  <2> QED BY <2>1, <2>2
<1>3. ASSUME NEW h \in Claimer, ClaimMoves(h) PROVE PromisesRight'
  BY <1>1, <1>3 DEF ClaimMoves
<1>4. CASE RunOnce \/ Restart \/ TimePasses \/ UNCHANGED botVars
  BY <1>1, <1>4 DEF RunOnce, Restart, TimePasses, botVars
<1> QED BY <1>2, <1>3, <1>4 DEF BotNext

-----------------------------------------------------------------------------
(* What follows for the bot. *)

LEMMA BotFactsAlways == BotSpec => [](BotFacts /\ PromisesRight)
<1>1. BotInit => BotFacts /\ PromisesRight
  BY BotFactsInit DEF BotInit, PromisesRight
<1>2. BotFacts /\ PromisesRight /\ [BotNext]_botVars => (BotFacts /\ PromisesRight)'
  BY BotFactsStep, PromisesStayRight DEF BotFacts
<1> QED BY <1>1, <1>2, PTL DEF BotSpec

(* The invariants of both halves, one worker for both, and what has been   *)
(* promised to uploaders, hold of the whole bot, for any number of chats,  *)
(* handlers, claims, relays, failures and crashes (bootstrap/app.go).      *)
THEOREM BotInvAlways == BotSpec => []BotInv
<1>1. BotFacts /\ PromisesRight => BotInv
  BY DEF BotFacts, UploadFacts, BotInv
<1> QED BY <1>1, BotFactsAlways, PTL

(* The bot is a correct system of uploads: claims, and the tasks of the    *)
(* worker that concern them, are invisible to it.                          *)
THEOREM UploadsHold == BotSpec => UploadsAsSpecified
<1>1. BotInit => BatchInit
  BY DEF BotInit
<1>2. [BotNext]_botVars => [BatchNext]_vars
  BY BotStepsUpload
<1> QED BY <1>1, <1>2, PTL DEF BotSpec, BatchSpec, UploadsAsSpecified

(* The bot is a correct system of claims: every call of an upload handler, *)
(* whatever it holds from before a failed call, an expiry or a purge, is   *)
(* one that claiming expects, and deletes at most one relay, with its      *)
(* deliveries (service.go:82-581 against 610-815).                         *)
THEOREM ClaimsHold == BotSpec => ClaimsAsSpecified
<1>1. BotInit => ClaimInit
  BY DEF BotInit
<1>2. BotFacts /\ [BotNext]_botVars => [ClaimNext]_claimingVars
  BY BotFactsStep
<1> QED BY <1>1, <1>2, BotFactsAlways, PTL DEF BotSpec, ClaimSpec, ClaimsAsSpecified

(* Whoever claims the code of a finished batch and is recorded as served   *)
(* got at least the files the reply to /batch_done counted: from that      *)
(* reply to the last page nothing takes a file away from a code that still *)
(* leads to one (router.go:466, service.go:815).                           *)
THEOREM PromisesKept == BotSpec => []PromiseKept
<1>1. ASSUME BotFacts, PromisesRight, NEW p \in promised, NEW q \in Request,
             deliveries[q].status = "sent", Wanted[q] = p[1]
      PROVE  p[2] <= Cardinality(inbox[q])
  <2>0. StoreFacts /\ ClaimInv /\ PromiseRight(p) /\ DeliveryExists(q)
    BY <1>1 DEF BotFacts, UploadFacts, PromisesRight, DeliveryExists
  <2>1. PICK r \in RelayId : /\ relays[r].code = p[1]
                             /\ Exists(r) => p[2] <= Cardinality(ItemsOf(r))
    BY <2>0 DEF PromiseRight
  <2>2. /\ deliveries[q].relay \in RelayId /\ Exists(deliveries[q].relay)
        /\ relays[deliveries[q].relay].code = Wanted[q]
    BY <2>0 DEF ClaimInv, DeliveriesRight
  <2>3. deliveries[q].relay = r
    BY <1>1, <2>0, <2>1, <2>2, WantedIsCode, SameCodeSameRelay
  <2>4. inbox[q] = ItemsOf(r)
    BY <1>1, <2>0, <2>3 DEF ClaimInv, SentMeansReceived
  <2> QED BY <2>1, <2>2, <2>3, <2>4
<1>2. BotFacts /\ PromisesRight => PromiseKept
  BY <1>1 DEF PromiseKept
<1> QED BY <1>2, BotFactsAlways, PTL

(* So what is proved of each half is true of the bot: of uploads,          *)
THEOREM BotUploadsRight ==
    BotSpec => /\ [](CodesAgree /\ ActiveCapSlack /\ FinishedBatchNotEmpty)
               /\ [](CountsHonest /\ WaitsEnd)
               /\ OnlyOvertakenRemovesReady
BY UploadsHold, CodesAlwaysAgree, CapSlackBounded, NoEmptyBatchFinished, CountsAlwaysHonest,
   WaitsAlwaysEnd, ReadyRelaysStay, PTL DEF UploadsAsSpecified

(* of claims,                                                              *)
THEOREM BotClaimsRight ==
    BotSpec => /\ [](SentAtMostOnce /\ SentMeansReceived)
               /\ [](CountMatchesDeliveries /\ ServedWhileClaimable)
               /\ ResultsStay
BY ClaimsHold, PageSentAtMostOnce, SentReallyReceived, CountAlwaysMatches, OnlyClaimableServed,
   ResultsAreFinal, PTL DEF ClaimsAsSpecified

(* and of the tables both share: the bot implements RelayBox.              *)
THEOREM BotImplementsBox == BotSpec => ImplementsBox
BY UploadsHold, UploadsImplementStore, StoreImplementsBox, PTL DEF UploadsAsSpecified

=============================================================================
