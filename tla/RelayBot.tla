------------------------------ MODULE RelayBot ------------------------------
(***************************************************************************)
(* The whole bot: uploads (BatchUpload) and claims (ClaimDelivery) over    *)
(* one PostgreSQL, one Redis, one clock and one maintenance worker, as     *)
(* internal/bootstrap/app.go wires them.                                   *)
(*                                                                         *)
(* Each half alone says what the other may do to the state they share.     *)
(* Here both take their own steps, so that what they assume of each other  *)
(* is something to show: the bot implements both specifications. The       *)
(* worker and a crash are in both halves and move in both at once, and so  *)
(* a failure of the worker and a crash count as a fault of each.           *)
(***************************************************************************)
EXTENDS BatchUpload, ClaimDelivery

VARIABLE
    promised  \* the replies to /batch_done: a code, and its number of files

botVars == <<vars, claimVars, cycle, claimFaults, promised>>

-----------------------------------------------------------------------------
(* What an upload handler's step does to what the claims read.             *)

(* ON DELETE CASCADE on relay_deliveries.relay_id. *)
Cascade ==
    RemoveDeliveries(DeliveriesOf({r \in RelayId : Exists(r) /\ ~Exists(r)'}))

LifeLeft(r, now) == relays[r].expiresAt > now

(* SetRelayIDByCodeHash, with what the relay has left since the handler    *)
(* began: the entry that claims look up.                                   *)
CacheCode(h) ==
    LET s == handler[h]
    IN  codeEntries' =
            IF s.pc = "warm" /\ LifeLeft(s.relay, s.now) /\ UNCHANGED faults
            THEN [codeEntries EXCEPT ![s.code] =
                    [relay |-> s.relay,
                     deadline |-> clock + (relays[s.relay].expiresAt - s.now)]]
            ELSE codeEntries

(* `The batch has so many files; send this code and get them back.' *)
Promise(h) ==
    promised' = IF At(h, "finish", "clear")
                THEN promised \cup {<<handler[h].code, handler[h].count>>}
                ELSE promised

UploadEffects(h) ==
    /\ Cascade
    /\ CacheCode(h)
    /\ Promise(h)
    /\ UNCHANGED <<claimed, claimer, sends, inbox, cycle, claimFaults>>

UploadMoves(h) == (Receive(h) \/ Proceed(h) \/ Fail(h)) /\ UploadEffects(h)

ClaimMoves(h) ==
    /\ ReceiveClaim(h) \/ ClaimProceed(h) \/ ClaimFails(h) \/ AnswerLost(h)
    /\ UNCHANGED <<batchVars, promised>>

(* One task of runOnce after the other. *)
RunOnce ==
    /\ \/ WorkerPurge /\ CycleStart
       \/ WorkerExpire /\ CycleExpire
       \/ (CycleMarkUnknown \/ CyclePurge) /\ UNCHANGED batchVars
    /\ UNCHANGED promised

Restart == Crash /\ ClaimCrash /\ UNCHANGED promised

TimePasses == Tick /\ ClaimTick /\ UNCHANGED promised

-----------------------------------------------------------------------------
BotInit == BatchInit /\ ClaimInit /\ promised = {}

BotNext ==
    \/ \E h \in Handler : UploadMoves(h)
    \/ \E h \in Claimer : ClaimMoves(h)
    \/ RunOnce
    \/ Restart
    \/ TimePasses

BotSpec == BotInit /\ [][BotNext]_botVars

(* A call returns or its connection fails, so a handler goes on; the       *)
(* ticker of runner.go:35 starts a cycle a minute; and the clock advances, *)
(* although claims, which it has to wait for here, keep arriving.          *)
BotFairness ==
    /\ \A h \in Handler : WF_vars(Proceed(h))
    /\ \A h \in Claimer : WF_claimingVars(ClaimProceed(h))
    /\ WF_botVars(RunOnce)
    /\ WF_vars(Tick)

FairBotSpec == BotSpec /\ BotFairness

-----------------------------------------------------------------------------
(* Whoever claims the code of a finished batch and is recorded as served   *)
(* has at least the files the reply to /batch_done counted: between that   *)
(* reply and the last page no retried append, merge, crash, expiry, cancel *)
(* or purge takes a file away (router.go:466, service.go:815).             *)
PromiseKept ==
    \A p \in promised : \A q \in Request :
        deliveries[q].status = "sent" /\ Wanted[q] = p[1] => p[2] <= Cardinality(inbox[q])

(* What each half assumes of the other, the other does: handlers read no   *)
(* clock of the future, finalize nothing empty, cache a code only with the *)
(* life its relay has left, and delete a relay with its deliveries; claims *)
(* leave the tables of the uploads alone.                                  *)
UploadsAsSpecified == BatchSpec
ClaimsAsSpecified == ClaimSpec

(* Why PromiseKept holds: what was promised of a code is still true of its *)
(* relay.                                                                  *)
PromiseRight(p) ==
    \E r \in RelayId :
        relays[r].code = p[1] /\ p[1] # NoCode /\ (Exists(r) => p[2] <= Cardinality(ItemsOf(r)))

PromisesRight ==
    /\ promised \subseteq Code \X Nat
    /\ \A p \in promised : PromiseRight(p)

(* The two halves share one worker. *)
OneWorker ==
    /\ worker.pc = IF cycle.pc = "expire" THEN "expire" ELSE "idle"
    /\ cycle.pc = "expire" => worker.now = cycle.now

BotInv == BatchInv /\ ClaimInv /\ OneWorker /\ PromisesRight

=============================================================================
