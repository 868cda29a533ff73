----------------------------- MODULE BatchUpload -----------------------------
(***************************************************************************)
(* Uploading: /batch_start, a file, /batch_done, /batch_cancel             *)
(* (internal/telegram/router.go and the upload half of                     *)
(* internal/relay/service.go), over the tables of RelayStore, the upload   *)
(* session and the code cache in Redis (internal/cache/rediscache) and the *)
(* maintenance worker (internal/worker/runner.go).                         *)
(*                                                                         *)
(* go-telegram runs each update's handler in a goroutine of its own, so    *)
(* handlers of one chat interleave at every call they make; a handler is a *)
(* program counter and the variables of its Go function, and one action is *)
(* one call to the store or the cache. An update may be delivered any      *)
(* number of times, also while an earlier delivery is being handled.       *)
(***************************************************************************)
EXTENDS RelayClock

CONSTANTS
    MaxActiveRelays,  \* limits.MaxActiveRelays
    MaxFaults         \* bound: failed calls and crashes in one behaviour

ASSUME LimitsPositive == MaxActiveRelays \in Nat \ {0} /\ MaxFaults \in Nat
(* Relay ids are a 64-bit sequence; a process has so many goroutines. *)
ASSUME FiniteRelays == IsFiniteSet(RelayId)
ASSUME FiniteHandlers == IsFiniteSet(Tx)

VARIABLES
    session,    \* Redis: batch:session:chat:<chat>
    codeCache,  \* Redis: relay:code:<hash>, the relay id a code leads to
    handler,    \* the handlers at work; a handler's transaction is tx[h]
    worker,     \* the maintenance cycle
    faults      \* calls that failed and crashes so far

batchVars == <<session, codeCache, handler, worker, faults>>
vars == <<storeVars, clock, batchVars>>

Handler == Tx

-----------------------------------------------------------------------------
(* Types. *)

Session == [relay    : RelayId \cup {NoRelay},
            count    : Nat,   \* ItemCount
            deadline : Nat]   \* when the key expires
NoSession == [relay |-> NoRelay, count |-> 0, deadline |-> 0]

Operation == {"none", "start", "upload", "finish", "cancel"}

Step == {"idle", "load", "check", "drop",
         "create", "set", "undo",
         "insert", "file", "commit", "recount", "merge",
         "lookup", "quota", "persist", "fill", "publish",
         "relist", "list", "recheck", "finalize", "warm", "clear", "delete",
         "progress", "progressMerge"}

HandlerState == [op    : Operation,
                 pc    : Step,
                 chat  : Chat \cup {NoChat},
                 src   : Update \cup {NoUpdate},
                 now   : Nat,                       \* s.clock.Now() on entry
                 relay : RelayId \cup {NoRelay},    \* session.RelayID, then batch.ID
                 count : Nat,
                 code  : Code \cup {NoCode}]

Idle == [op |-> "none", pc |-> "idle", chat |-> NoChat, src |-> NoUpdate,
         now |-> 0, relay |-> NoRelay, count |-> 0, code |-> NoCode]

WorkerState == [pc : {"idle", "expire"}, now : Nat]

BatchTypeOK ==
    /\ TypeOK
    /\ clock \in 0 .. MaxClock
    /\ session \in [Chat -> Session]
    /\ codeCache \in [Code -> RelayId \cup {NoRelay}]
    /\ handler \in [Handler -> HandlerState]
    /\ worker \in WorkerState
    /\ faults \in 0 .. MaxFaults

-----------------------------------------------------------------------------
(* Control flow. *)

At(h, op, pc) == handler[h].op = op /\ handler[h].pc = pc

Go(h, pc) == handler' = [handler EXCEPT ![h].pc = pc]

(* The handler replies and returns. *)
Return(h) == handler' = [handler EXCEPT ![h] = Idle]

Fault == faults < MaxFaults /\ faults' = faults + 1

Begin(h, op, chat, u, pc) ==
    /\ handler[h] = Idle
    /\ handler' = [handler EXCEPT ![h] =
                    [Idle EXCEPT !.op = op, !.pc = pc, !.chat = chat, !.src = u,
                                 !.now = IF op = "cancel" THEN 0 ELSE clock]]
    /\ UNCHANGED <<storeVars, clock, session, codeCache, worker, faults>>

(* An update arrives, for the first time or again. *)
Receive(h) ==
    \E chat \in Chat :
        \/ \E op \in {"start", "finish", "cancel"} : Begin(h, op, chat, NoUpdate, "load")
        \/ \E u \in Update : Begin(h, "upload", chat, u, "load")

-----------------------------------------------------------------------------
(* The session, and the relay it names (GetBatchUploadSession, GetRelayByID *)
(* and the switch after them, in the four service methods).                *)

(* With no session a batch starts, a file is relayed alone (router.go:99), *)
(* and /batch_done and /batch_cancel are refused.                          *)
WithoutSession(op) ==
    [start |-> "create", upload |-> "lookup", finish |-> "idle", cancel |-> "idle"][op]

Continue(h, pc) == IF pc = "idle" THEN Return(h) ELSE Go(h, pc)

LoadSession(h) ==
    /\ handler[h].pc = "load"
    /\ LET s == session[handler[h].chat]
       IN  IF s # NoSession
           THEN handler' = [handler EXCEPT ![h].pc = "check", ![h].relay = s.relay]
           ELSE Continue(h, WithoutSession(handler[h].op))
    /\ UNCHANGED <<storeVars, clock, session, codeCache, worker, faults>>

(* StartBatchUpload refuses a second batch while the first is collecting. *)
AfterCheck(op, status) ==
    IF status = "collecting"
    THEN [start |-> "idle", upload |-> "insert", finish |-> "list", cancel |-> "delete"][op]
    ELSE IF status = "ready" /\ op = "finish" THEN "relist"
    ELSE "drop"

CheckSessionRelay(h) ==
    /\ handler[h].pc = "check"
    /\ Continue(h, AfterCheck(handler[h].op, relays[handler[h].relay].status))
    /\ UNCHANGED <<storeVars, clock, session, codeCache, worker, faults>>

(* DEL of the chat's key, whatever session it holds by now; the error, if  *)
(* any, is ignored.                                                        *)
DeleteSession(h) ==
    \/ session' = [session EXCEPT ![handler[h].chat] = NoSession] /\ UNCHANGED faults
    \/ Fault /\ UNCHANGED session

DropStaleSession(h) ==
    /\ handler[h].pc = "drop"
    /\ DeleteSession(h)
    /\ Continue(h, WithoutSession(handler[h].op))
    /\ UNCHANGED <<storeVars, clock, codeCache, worker>>

-----------------------------------------------------------------------------
(* StartBatchUpload *)

StartCreate(h) ==
    /\ At(h, "start", "create")
    /\ \E r \in RelayId :
          /\ CreateRelayBatch(r, handler[h].chat, handler[h].now)
          /\ handler' = [handler EXCEPT ![h].pc = "set", ![h].relay = r, ![h].count = 0]
    /\ UNCHANGED <<clock, session, codeCache, worker, faults>>

StartedSession(h) ==
    [session EXCEPT ![handler[h].chat] =
        [relay |-> handler[h].relay, count |-> 0, deadline |-> clock + SessionTTL]]

(* Then the progress message is sent; when that fails, nothing is recorded. *)
StartSetSession(h) ==
    /\ At(h, "start", "set")
    /\ session' = StartedSession(h)
    /\ Go(h, "progress") \/ Return(h)
    /\ UNCHANGED <<storeVars, clock, codeCache, worker, faults>>

(* The SET had no effect, or it had and its answer is lost: the batch that *)
(* is about to be deleted is then one that other updates already load.     *)
StartSetFails(h) ==
    /\ At(h, "start", "set")
    /\ Fault
    /\ session' \in {session, StartedSession(h)}
    /\ Go(h, "undo")
    /\ UNCHANGED <<storeVars, clock, codeCache, worker>>

(* DELETE FROM relays is a no-op on a row that is gone. *)
RemoveRelay(r) ==
    IF Exists(r) THEN DeleteRelay(r) ELSE UNCHANGED storeVars

StartUndo(h) ==
    /\ At(h, "start", "undo")
    /\ RemoveRelay(handler[h].relay)
    /\ Return(h)
    /\ UNCHANGED <<clock, session, codeCache, worker, faults>>

-----------------------------------------------------------------------------
(* AppendBatchItem *)

AppendInsert(h) ==
    LET r == handler[h].relay
        u == handler[h].src
        result == AddRelayItemResult(r, u)
    IN  /\ At(h, "upload", "insert")
        /\ ~Locked(r)
        /\ \/ /\ AddRelayItem(h, r, u, handler[h].now)
              /\ Go(h, "file")
           \/ /\ result # "insert"
              /\ CASE result = "not_collecting" -> Go(h, "lookup")
                   [] result = "duplicate"      -> Go(h, "recount")
                   [] result \in {"relay_not_found", "item_limit"} -> Return(h)
              /\ UNCHANGED storeVars
        /\ UNCHANGED <<clock, session, codeCache, worker, faults>>

(* The INSERT of the item, in the append's transaction or the creation's.  *)
FileItem(h) ==
    /\ InsertItem(h)
    /\ \/ At(h, "upload", "file") /\ Go(h, "commit")
       \/ At(h, "upload", "fill") /\ Go(h, "publish")
    /\ UNCHANGED <<clock, session, codeCache, worker, faults>>

FileConflict(h) ==
    /\ handler[h].pc \in {"file", "fill"}
    /\ InsertConflicts(h)
    /\ RollbackInsert(h)
    /\ Return(h)
    /\ UNCHANGED <<clock, session, codeCache, worker, faults>>

AppendCommit(h) ==
    /\ At(h, "upload", "commit")
    /\ CommitInsert(h)
    /\ handler' = [handler EXCEPT ![h].pc = "merge", ![h].count = tx[h].order]
    /\ UNCHANGED <<clock, session, codeCache, worker, faults>>

AppendRecount(h) ==
    /\ At(h, "upload", "recount")
    /\ handler' = [handler EXCEPT ![h].pc = "merge",
                                  ![h].count = Cardinality(ItemsOf(handler[h].relay))]
    /\ UNCHANGED <<storeVars, clock, session, codeCache, worker, faults>>

(* Fault: a merge counts the append instead of keeping the larger count. *)
MergedSessionCounting(s, r, n) ==
    [relay |-> r, count |-> s.count + 1, deadline |-> clock + SessionTTL]

(* MergeBatchUploadSession: a WATCHed read-modify-write that retries until  *)
(* it is atomic. A missing key is written again; another relay's is kept.  *)
MergedSession(s, r, n) ==
    IF s # NoSession /\ s.relay # r THEN s
    ELSE [relay |-> r, count |-> IF n > s.count THEN n ELSE s.count,
          deadline |-> clock + SessionTTL]

MergeSession(h) ==
    session' = [session EXCEPT ![handler[h].chat] =
                    MergedSession(@, handler[h].relay, handler[h].count)]

(* The append is accepted; updateBatchProgressAfterAppend may have nothing *)
(* to notify, or fail to.                                                  *)
AppendMerge(h) ==
    /\ At(h, "upload", "merge")
    /\ MergeSession(h)
    /\ Go(h, "progress") \/ Return(h)
    /\ UNCHANGED <<storeVars, clock, codeCache, worker, faults>>

-----------------------------------------------------------------------------
(* UpdateBatchProgress, after /batch_start and after an append. *)

ProgressLoad(h) ==
    /\ handler[h].pc = "progress"
    /\ LET s == session[handler[h].chat]
       IN  IF s # NoSession /\ s.relay = handler[h].relay
           THEN handler' = [handler EXCEPT ![h].pc = "progressMerge", ![h].count = s.count]
           ELSE Return(h)
    /\ UNCHANGED <<storeVars, clock, session, codeCache, worker, faults>>

ProgressMerge(h) ==
    /\ handler[h].pc = "progressMerge"
    /\ MergeSession(h)
    /\ Return(h)
    /\ UNCHANGED <<storeVars, clock, codeCache, worker, faults>>

-----------------------------------------------------------------------------
(* CreateRelay: a file outside a batch.                                    *)

(* GetRelayBySourceUpdateID joins relay_items: any relay that holds the    *)
(* upload is returned, and its code, empty while it is collecting, shown.  *)
(* Otherwise the relay is created as of now, not of the append before it.  *)
CreateLookup(h) ==
    /\ At(h, "upload", "lookup")
    /\ IF RelayOfUpdate(handler[h].src) # NoRelay THEN Return(h)
       ELSE handler' = [handler EXCEPT ![h].pc = "quota", ![h].now = clock]
    /\ UNCHANGED <<storeVars, clock, session, codeCache, worker, faults>>

(* Fault: the cap is not looked at. *)
NeverAtCap(h) == FALSE

AtCap(h) ==
    Cardinality(ActiveRelays(handler[h].chat, handler[h].now)) >= MaxActiveRelays

(* AllowUpload and the cap on active relays. *)
CreateQuota(h) ==
    /\ At(h, "upload", "quota")
    /\ IF AtCap(h) THEN Return(h) ELSE Go(h, "persist")
    /\ UNCHANGED <<storeVars, clock, session, codeCache, worker, faults>>

CreatePersist(h) ==
    LET s == handler[h]
        expiresAt == s.now + RelayTTL
    IN  /\ At(h, "upload", "persist")
        /\ \/ \E r \in RelayId, c \in Code :
                 \/ /\ CreateRelay(h, r, s.src, c, s.chat, expiresAt, s.now)
                    /\ Go(h, "fill")
                 \/ /\ CreateRelayOfFiledUpload(h, r, s.src, c, s.chat, expiresAt, s.now)
                    /\ handler' = [handler EXCEPT ![h].pc = "warm", ![h].relay = r,
                                                  ![h].code = c]
           \/ /\ SourceTaken(s.src)   \* answered ErrRelayNotFound, as in RollbackInsert
              /\ Return(h)
              /\ UNCHANGED storeVars
        /\ UNCHANGED <<clock, session, codeCache, worker, faults>>

CreateCommit(h) ==
    /\ At(h, "upload", "publish")
    /\ CommitInsert(h)
    /\ handler' = [handler EXCEPT ![h].pc = "warm", ![h].relay = tx[h].relay,
                                  ![h].code = tx[h].row.code]
    /\ UNCHANGED <<clock, session, codeCache, worker, faults>>

(* SetRelayIDByCodeHash with what is left of the relay's life; a failure   *)
(* is ignored. A single upload's code is shown next, a batch's after the   *)
(* session has been cleared.                                               *)
WarmCodeCache(h) ==
    LET s == handler[h]
    IN  /\ s.pc = "warm"
        /\ \/ /\ relays[s.relay].expiresAt > s.now
              /\ codeCache' = [codeCache EXCEPT ![s.code] = s.relay]
              /\ UNCHANGED faults
           \/ /\ relays[s.relay].expiresAt <= s.now
              /\ UNCHANGED <<codeCache, faults>>
           \/ /\ Fault
              /\ UNCHANGED codeCache
        /\ IF s.op = "upload" THEN Return(h) ELSE Go(h, "clear")
        /\ UNCHANGED <<storeVars, clock, session, worker>>

-----------------------------------------------------------------------------
(* FinishBatchUpload *)

FinishRelist(h) ==
    LET r == handler[h].relay
    IN  /\ At(h, "finish", "relist")
        /\ handler' = [handler EXCEPT ![h].pc = "warm", ![h].code = relays[r].code,
                                      ![h].count = Cardinality(ItemsOf(r))]
        /\ UNCHANGED <<storeVars, clock, session, codeCache, worker, faults>>

(* Fault: /batch_done of an empty batch not refused. *)
FinishListUnchecked(h) ==
    /\ At(h, "finish", "list")
    /\ Go(h, "quota")
    /\ UNCHANGED <<storeVars, clock, session, codeCache, worker, faults>>

FinishList(h) ==
    LET n == Cardinality(ItemsOf(handler[h].relay))
    IN  /\ At(h, "finish", "list")
        /\ IF n = 0 THEN Return(h)
           ELSE handler' = [handler EXCEPT ![h].pc = "quota", ![h].count = n]
        /\ UNCHANGED <<storeVars, clock, session, codeCache, worker, faults>>

FinishQuota(h) ==
    /\ At(h, "finish", "quota")
    /\ Go(h, IF AtCap(h) THEN "recheck" ELSE "finalize")
    /\ UNCHANGED <<storeVars, clock, session, codeCache, worker, faults>>

(* At the cap: fine if another handler has just finished this very batch. *)
FinishRecheck(h) ==
    LET r == handler[h].relay
    IN  /\ At(h, "finish", "recheck")
        /\ IF relays[r].status = "ready"
           THEN handler' = [handler EXCEPT ![h].pc = "warm", ![h].code = relays[r].code]
           ELSE Return(h)
        /\ UNCHANGED <<storeVars, clock, session, codeCache, worker, faults>>

FinishFinalize(h) ==
    LET r == handler[h].relay
        now == handler[h].now
    IN  /\ At(h, "finish", "finalize")
        /\ ~Locked(r)
        /\ \/ \E c \in Code :
                 /\ FinalizeRelayBatch(r, c, now + RelayTTL, now)
                 /\ handler' = [handler EXCEPT ![h].pc = "warm", ![h].code = c]
           \/ /\ ~FinalizeMatches(r)
              /\ IF relays[r].status = "ready"
                 THEN handler' = [handler EXCEPT ![h].pc = "warm",
                                                 ![h].code = relays[r].code]
                 ELSE Return(h)
              /\ UNCHANGED storeVars
        /\ UNCHANGED <<clock, session, codeCache, worker, faults>>

FinishClear(h) ==
    /\ At(h, "finish", "clear")
    /\ DeleteSession(h)
    /\ Return(h)
    /\ UNCHANGED <<storeVars, clock, codeCache, worker>>

-----------------------------------------------------------------------------
(* CancelBatchUpload *)

CancelDelete(h) ==
    /\ At(h, "cancel", "delete")
    /\ RemoveRelay(handler[h].relay)
    /\ Go(h, "clear")
    /\ UNCHANGED <<clock, session, codeCache, worker, faults>>

CancelClear(h) ==
    /\ At(h, "cancel", "clear")
    /\ DeleteSession(h)
    /\ Return(h)
    /\ UNCHANGED <<storeVars, clock, codeCache, worker>>

-----------------------------------------------------------------------------
(* Failures. *)

(* A call to Redis or PostgreSQL returns an error, or AllowUpload refuses: *)
(* the handler replies with the error and returns. What a failing DELETE   *)
(* or SET would have changed stays. An open transaction is rolled back.    *)
CallFails(h) ==
    /\ handler[h].pc \notin {"idle", "drop", "set", "warm", "clear"}
    /\ Fault
    /\ Return(h)
    /\ IF tx[h] = NoTx THEN UNCHANGED storeVars ELSE RollbackInsert(h)
    /\ UNCHANGED <<clock, session, codeCache, worker>>

(* Bound: the instance has no id or no code left, so the call fails. *)
InstanceExhausted(h) ==
    /\ \/ handler[h].pc \in {"create", "persist"} /\ \A r \in RelayId : ~FreshId(r)
       \/ handler[h].pc \in {"persist", "finalize"} /\ \A c \in Code : ~FreshCode(c)
    /\ Return(h)
    /\ UNCHANGED <<storeVars, clock, session, codeCache, worker, faults>>

(* A COMMIT takes effect and its answer is lost.                           *)
LostCommit(h) ==
    LET s == handler[h]
    IN  \/ s.pc \in {"commit", "publish"} /\ CommitInsert(h)
        \/ s.pc = "create" /\ \E r \in RelayId : CreateRelayBatch(r, s.chat, s.now)
        \/ s.pc = "persist" /\ \E r \in RelayId, c \in Code :
              CreateRelayOfFiledUpload(h, r, s.src, c, s.chat, s.now + RelayTTL, s.now)
        \/ s.pc = "finalize" /\ \E c \in Code :
              FinalizeRelayBatch(s.relay, c, s.now + RelayTTL, s.now)
        \/ s.pc = "delete" /\ RemoveRelay(s.relay)

CommitAnswerLost(h) ==
    /\ LostCommit(h)
    /\ Fault
    /\ Return(h)
    /\ UNCHANGED <<clock, session, codeCache, worker>>

(* The process stops and starts again: PostgreSQL and Redis keep their     *)
(* contents; app.Run does not wait for handlers (bootstrap/app.go:238).    *)
Crash ==
    /\ Fault
    /\ handler' = [h \in Handler |-> Idle]
    /\ worker' = [pc |-> "idle", now |-> 0]
    /\ RollbackAll
    /\ UNCHANGED <<clock, session, codeCache>>

-----------------------------------------------------------------------------
(* The maintenance cycle (runOnce), as far as it touches relays: each task *)
(* runs whether or not the one before it failed, with the cycle's one `now'. *)

(* Fault: the TTL subtracted twice, by the caller and by the callee. *)
WorkerPurgeLate ==
    /\ worker.pc = "idle"
    /\ DeleteCollectingRelaysBefore(clock - 2 * SessionTTL) /\ UNCHANGED faults
    /\ worker' = [pc |-> "expire", now |-> clock]
    /\ UNCHANGED <<clock, session, codeCache, handler>>

WorkerPurge ==
    /\ worker.pc = "idle"
    /\ \/ DeleteCollectingRelaysBefore(clock - SessionTTL) /\ UNCHANGED faults
       \/ Fault /\ UNCHANGED storeVars
    /\ worker' = [pc |-> "expire", now |-> clock]
    /\ UNCHANGED <<clock, session, codeCache, handler>>

WorkerExpire ==
    /\ worker.pc = "expire"
    /\ \/ ExpireRelays(worker.now) /\ UNCHANGED faults
       \/ Fault /\ UNCHANGED storeVars
    /\ worker' = [pc |-> "idle", now |-> 0]
    /\ UNCHANGED <<clock, session, codeCache, handler>>

(* Redis drops a session whose time has come. A code's entry lives exactly *)
(* as long as its relay, and is kept here: only a claim would look at it.  *)
Tick ==
    /\ clock < MaxClock
    /\ clock' = clock + 1
    /\ session' = [c \in Chat |->
                    IF session[c].deadline <= clock' THEN NoSession ELSE session[c]]
    /\ UNCHANGED <<storeVars, codeCache, handler, worker, faults>>

-----------------------------------------------------------------------------
BatchInit ==
    /\ StoreInit
    /\ clock = 0
    /\ session = [c \in Chat |-> NoSession]
    /\ codeCache = [c \in Code |-> NoRelay]
    /\ handler = [h \in Handler |-> Idle]
    /\ worker = [pc |-> "idle", now |-> 0]
    /\ faults = 0

(* What a handler does when its calls succeed. *)
Proceed(h) ==
    \/ LoadSession(h) \/ CheckSessionRelay(h) \/ DropStaleSession(h)
    \/ StartCreate(h) \/ StartSetSession(h)   \/ StartUndo(h)
    \/ FileItem(h) \/ FileConflict(h)
    \/ AppendInsert(h) \/ AppendCommit(h) \/ AppendRecount(h)
    \/ AppendMerge(h) \/ ProgressLoad(h) \/ ProgressMerge(h)
    \/ CreateLookup(h) \/ CreateQuota(h) \/ CreatePersist(h)
    \/ CreateCommit(h) \/ WarmCodeCache(h)
    \/ FinishRelist(h) \/ FinishList(h) \/ FinishQuota(h) \/ FinishRecheck(h)
    \/ FinishFinalize(h) \/ FinishClear(h)
    \/ CancelDelete(h) \/ CancelClear(h)
    \/ InstanceExhausted(h)

Fail(h) == StartSetFails(h) \/ CallFails(h) \/ CommitAnswerLost(h)

Maintain == WorkerPurge \/ WorkerExpire

BatchNext ==
    \/ \E h \in Handler : Receive(h) \/ Proceed(h) \/ Fail(h)
    \/ Maintain
    \/ Crash
    \/ Tick

BatchSpec == BatchInit /\ [][BatchNext]_vars

(* A call returns or its connection fails, so a handler goes on; the clock *)
(* advances; the ticker of runner.go:35 starts one cycle a minute.         *)
Fairness ==
    /\ \A h \in Handler : WF_vars(Proceed(h))
    /\ WF_vars(Maintain)
    /\ WF_vars(Tick)

FairBatchSpec == BatchSpec /\ Fairness

-----------------------------------------------------------------------------
(* Safety. *)

(* Whoever ends a batch, or finds it ended, answers with the one code its  *)
(* relay has, and the code cache never leads a code to another relay, even *)
(* when two /batch_done race each other (service.go:498-523).              *)
CodesAgree ==
    /\ \A h \in Handler :
          handler[h].pc \in {"warm", "clear"} /\ handler[h].op # "cancel"
          => relays[handler[h].relay].code = handler[h].code
    /\ \A c \in Code : codeCache[c] # NoRelay => relays[codeCache[c]].code = c

(* Handlers that have passed the cap and may still add a ready relay. *)
PastQuotaSteps == {"persist", "fill", "publish", "finalize"}

PastQuota(chat) ==
    {h \in Handler : handler[h].chat = chat /\ handler[h].pc \in PastQuotaSteps}

(* ACTIVE_RELAYS_PER_USER is the largest number of active relays a user    *)
(* can have (README.md), but the number is read before it is used          *)
(* (service.go:122, 475). What that still guarantees: each handler under   *)
(* way can exceed it by one, and no sequence of uploads by more.           *)
ActiveCapSlack ==
    \A chat \in Chat :
        Cardinality(ActiveRelays(chat, clock)) + Cardinality(PastQuota(chat))
        <= MaxActiveRelays - 1 + Cardinality(Handler)

(* A finished batch has something in it: between the emptiness check of    *)
(* service.go:459 and FinalizeRelayBatch no step can empty the batch and   *)
(* leave its row collecting.                                               *)
FinishedBatchNotEmpty ==
    \A r \in RelayId :
        relays[r].status \in {"ready", "expired"} /\ relays[r].src = NoUpdate
        => ItemsOf(r) # {}

(* Neither the session nor the reply to /batch_done ever counts a file     *)
(* that is not in the batch, although counts travel through handlers whose *)
(* merges arrive in any order, twice, or after the session was deleted.    *)
CountsHonest ==
    /\ \A c \in Chat :
          LET s == session[c]
          IN  s # NoSession /\ Exists(s.relay) => s.count <= Cardinality(ItemsOf(s.relay))
    /\ \A h \in Handler :
          LET r == handler[h].relay
          IN  handler[h].op = "finish" /\ handler[h].pc \in {"warm", "clear"} /\ Exists(r)
              => handler[h].count <= Cardinality(ItemsOf(r))

(* The handler h at its next call waits for the transaction of g: for the  *)
(* lock on a relay's row, for a rival insert of the relay of the same      *)
(* upload, or, a row lock or a new relay in hand, for a rival insert of    *)
(* the same upload's item.                                                 *)
WaitsFor(h, g) ==
    LET s == handler[h]
    IN  \/ s.pc \in {"insert", "finalize"} /\ HoldsRow(g, s.relay)
        \/ s.pc \in {"undo", "delete"} /\ Exists(s.relay) /\ HoldsRow(g, s.relay)
        \/ s.pc = "persist" /\ ~SourceTaken(s.src) /\ CreatesFrom(g, s.src)
        \/ s.pc \in {"file", "fill"} /\ g # h /\ HoldsKey(g, s.src)

Waits(h) == \E g \in Handler : WaitsFor(h, g)

(* Appends that hold a row, creations that hold a new relay and all who    *)
(* wait for either never wait in a circle, nor for a handler that has      *)
(* returned: of any handlers one does not wait for another of them         *)
(* (store.go:125, 161, 192).                                               *)
WaitsEnd ==
    /\ \A S \in (SUBSET Handler) \ {{}} : \E h \in S : \A g \in S : ~WaitsFor(h, g)
    /\ \A h, g \in Handler : WaitsFor(h, g) => handler[g].pc # "idle"

(* Nothing else stops a handler, so of those at work one can always go on. *)
NoHandlerStuck ==
    /\ WaitsEnd
    /\ \A h \in Handler : handler[h].pc # "idle" => Waits(h) \/ ENABLED Proceed(h)

(* The relay r was opened for the chat c: a batch, or a file of its own. *)
Opened(r, c) ==
    r \in RelayId /\ relays[r].status # "unused" /\ (Exists(r) => relays[r].chat = c)

(* If r is still there, it has at least n files. *)
Counted(r, n) == Exists(r) => n <= Cardinality(ItemsOf(r))

(* What each handler's program counter says of its variables.              *)
OpsAt(pc) ==
    CASE pc = "idle"                            -> {"none"}
      [] pc \in {"load", "check", "drop"}       -> {"start", "upload", "finish", "cancel"}
      [] pc \in {"create", "set", "undo"}       -> {"start"}
      [] pc \in {"progress", "progressMerge"}   -> {"start", "upload"}
      [] pc \in {"insert", "file", "commit", "recount", "merge",
                 "lookup", "persist", "fill", "publish"} -> {"upload"}
      [] pc \in {"quota", "warm"}               -> {"upload", "finish"}
      [] pc \in {"relist", "list", "recheck", "finalize"} -> {"finish"}
      [] pc = "clear"                           -> {"finish", "cancel"}
      [] pc = "delete"                          -> {"cancel"}

(* Where the handler has no relay yet, or needs the one it had no more. *)
NoRelayNeeded ==
    {"idle", "load", "create", "lookup", "quota", "persist", "fill", "publish"}

HandlerShape(h) ==
    LET s == handler[h]
    IN  /\ s.op \in OpsAt(s.pc)
        /\ s.pc = "idle" => s = Idle
        /\ s.pc # "idle" => s.chat \in Chat
        /\ s.op = "upload" => s.src \in Update
        /\ \/ s.pc \notin NoRelayNeeded
           \/ s.op = "finish" /\ s.pc = "quota"
           => s.relay # NoRelay
        /\ s.now <= clock

(* Its relay and its count are those of its chat's batch. *)
HandlerCounts(h) ==
    LET s == handler[h]
    IN  /\ s.relay # NoRelay => Opened(s.relay, s.chat) /\ Counted(s.relay, s.count)
        /\ \/ s.pc = "load"
           \/ s.op = "upload" /\ s.pc \notin {"merge", "progress", "progressMerge", "warm"}
           => s.count = 0
        /\ s.op = "finish" /\ s.pc \in {"quota", "recheck", "finalize"} => s.count > 0

(* A code it holds, or is about to read, has been given. *)
HandlerCode(h) ==
    LET s == handler[h]
    IN  /\ s.pc = "relist" => relays[s.relay].code # NoCode
        /\ s.pc \in {"warm", "clear"} /\ s.op # "cancel" =>
              s.code # NoCode /\ relays[s.relay].code = s.code

(* A transaction is open exactly from its first statement to its COMMIT,   *)
(* and holds the item's key from the INSERT on.                            *)
HandlerTx(h) ==
    LET s == handler[h]
    IN  /\ tx[h].op = IF s.pc \in {"file", "commit"} THEN "add"
                      ELSE IF s.pc \in {"fill", "publish"} THEN "create" ELSE "none"
        /\ tx[h].key = IF s.pc \in {"commit", "publish"} THEN s.src ELSE NoUpdate
        /\ s.pc \in {"file", "commit", "fill", "publish"} => tx[h].src = s.src
        /\ s.pc \in {"file", "commit"} => tx[h].relay = s.relay
        /\ s.pc \in {"fill", "publish"} => tx[h].row.chat = s.chat

HandlerRight(h) ==
    HandlerShape(h) /\ HandlerCounts(h) /\ HandlerCode(h) /\ HandlerTx(h)

(* A session is of a batch of its chat. *)
SessionRight(c) ==
    LET s == session[c]
    IN  IF s.relay = NoRelay THEN s = NoSession
        ELSE Opened(s.relay, c) /\ Counted(s.relay, s.count)

(* The inductive invariant of uploads: what the handlers hold, the session *)
(* and the code cache agree with the tables, whatever time, the worker,    *)
(* failed calls and crashes do to each of them (service.go:82-581).        *)
BatchInv ==
    /\ BatchTypeOK
    /\ worker.now <= clock
    /\ \A h \in Handler : HandlerRight(h)
    /\ \A c \in Chat : SessionRight(c)
    /\ CodesAgree
    /\ ActiveCapSlack
    /\ FinishedBatchNotEmpty

(* A relay that can be claimed stays so until it expires, as README.md has *)
(* it, whatever the worker purges with an old clock value and whatever     *)
(* retries and stale sessions lead to. What remains are two deletions that *)
(* are overtaken by a /batch_done: of a /batch_cancel that had looked the  *)
(* batch up before (service.go:563-581), and of a /batch_start whose SET   *)
(* of the session took effect although it failed (service.go:256-260).     *)
OnlyOvertakenRemovesReady ==
    [][\A r \in RelayId :
          relays[r].status = "ready" /\ relays[r].expiresAt > clock
          /\ relays'[r].status # "ready"
          => \E h \in Handler : /\ At(h, "cancel", "delete") \/ At(h, "start", "undo")
                                /\ handler[h].relay = r]_vars

(* What the program promises and a race of the code does not keep: checked *)
(* by a run that is expected to find a violation.                          *)

(* A code leads to files: `send this code to the bot and get the files     *)
(* back' is part of every reply that carries one (router.go:458, 466).     *)
CodeLeadsToFiles ==
    \A r \in RelayId : relays[r].status = "ready" => ItemsOf(r) # {}

-----------------------------------------------------------------------------
(* Liveness. *)

(* A batch nobody adds to any more does not stay in the database: however  *)
(* it was orphaned (a crash before the session was set, a lost or deleted  *)
(* session, a rival /batch_start), it is finished, added to, or removed by *)
(* the worker (service.go:1095, runner.go:70).                             *)
Abandoned(r) ==
    relays[r].status = "collecting" /\ relays[r].updatedAt < MaxClock - SessionTTL

AbandonedBatchesGo == \A r \in RelayId : Abandoned(r) ~> ~Abandoned(r)

=============================================================================
