--------------------------- MODULE BatchProgress ---------------------------
(***************************************************************************)
(* The message that tells an uploader how far a batch has come             *)
(* (updateBatchProgressAfterAppend, persistBatchProgressState and          *)
(* finalizeBatchProgressMessage in internal/telegram/router.go,            *)
(* UpdateBatchProgress in internal/relay/service.go, and the merging of    *)
(* session records in internal/cache/rediscache).                          *)
(*                                                                         *)
(* One chat. Every append edits the message, or sends another when it      *)
(* cannot, and writes back a session record it may have read long before;  *)
(* handlers of the chat run concurrently. What becomes of the relays and   *)
(* their files is in BatchUpload: here a relay is its status and the       *)
(* number of its files.                                                    *)
(***************************************************************************)
EXTENDS Integers, Sequences

CONSTANTS
    Handler,
    Relay,
    NoRelay,
    UpdateStep,   \* batchProgressUpdateStep
    MaxItems,     \* limits.MaxBatchItems
    MaxMessages,  \* bound: a message sent after these is refused by Telegram
    MaxFaults     \* bound: crashes, failed calls and lost sessions

ASSUME ProgressAssumption ==
    /\ NoRelay \notin Relay
    /\ UpdateStep \in Nat \ {0}
    /\ {MaxItems, MaxMessages, MaxFaults} \subseteq Nat

VARIABLES
    batch,      \* relays.status of each relay
    items,      \* the number of files each relay has, or had when deleted
    session,    \* Redis: batch:session:chat:<chat>
    messages,   \* the progress messages in the chat; an id is a position
    handler,
    announced,  \* history: the counts that were shown while collecting
    faults

vars == <<batch, items, session, messages, handler, announced, faults>>

MessageId == 1 .. MaxMessages
NoMessage == 0

Session == [relay    : Relay \cup {NoRelay},
            count    : Nat,                          \* ItemCount
            message  : MessageId \cup {NoMessage},   \* ProgressMessageID
            notified : Nat]                          \* LastProgressNotifiedCount
NoSession == [relay |-> NoRelay, count |-> 0, message |-> NoMessage, notified |-> 0]

Text == [relay : Relay, kind : {"collecting", "finished", "canceled"}, count : 0 .. MaxItems]

HandlerState == [op      : {"none", "start", "append", "finish", "cancel"},
                 pc      : {"idle", "snapshot", "load", "check", "drop", "create", "set", "undo",
                            "insert", "recount", "merge", "notify", "list", "end",
                            "clear", "edit", "send", "reload", "persist", "close"},
                 relay   : Relay \cup {NoRelay},
                 count   : 0 .. MaxItems,
                 own     : Session,               \* its copy of the session record
                 message : MessageId \cup {NoMessage}]

Idle == [op |-> "none", pc |-> "idle", relay |-> NoRelay, count |-> 0,
         own |-> NoSession, message |-> NoMessage]

TypeOK ==
    /\ batch \in [Relay -> {"none", "collecting", "ready", "deleted"}]
    /\ items \in [Relay -> 0 .. MaxItems]
    /\ session \in Session
    /\ messages \in Seq(Text) /\ Len(messages) <= MaxMessages
    /\ handler \in [Handler -> HandlerState]
    /\ announced \subseteq Relay \X (0 .. MaxItems)
    /\ faults \in 0 .. MaxFaults

-----------------------------------------------------------------------------
At(h, op, pc) == handler[h].op = op /\ handler[h].pc = pc

Go(h, pc) == handler' = [handler EXCEPT ![h].pc = pc]

Return(h) == handler' = [handler EXCEPT ![h] = Idle]

Fault == faults < MaxFaults /\ faults' = faults + 1

(* /batch_done and /batch_cancel look at the session before the service    *)
(* does; a session that cannot be read is taken for none.                  *)
Receive(h) ==
    /\ handler[h] = Idle
    /\ \E op \in {"start", "append", "finish", "cancel"} :
          handler' = [handler EXCEPT ![h].op = op,
                                     ![h].pc = IF op \in {"finish", "cancel"}
                                               THEN "snapshot" ELSE "load"]
    /\ UNCHANGED <<batch, items, session, messages, announced, faults>>

Snapshot(h) ==
    /\ handler[h].pc = "snapshot"
    /\ \/ handler' = [handler EXCEPT ![h].pc = "load", ![h].own = session] /\ UNCHANGED faults
       \/ Go(h, "load") /\ Fault
    /\ UNCHANGED <<batch, items, session, messages, announced>>

(* Each service method begins with the session, and the relay it names. *)
LoadSession(h) ==
    /\ handler[h].pc = "load"
    /\ IF session # NoSession
       THEN handler' = [handler EXCEPT
                ![h].pc = "check", ![h].relay = session.relay,
                ![h].own = IF handler[h].op = "append" THEN session ELSE @]
       ELSE IF handler[h].op = "start" THEN Go(h, "create") ELSE Return(h)
    /\ UNCHANGED <<batch, items, session, messages, announced, faults>>

AfterCheck(op, status) ==
    IF status = "collecting"
    THEN [start |-> "idle", append |-> "insert", finish |-> "list", cancel |-> "list"][op]
    ELSE IF status = "ready" /\ op = "finish" THEN "list"
    ELSE "drop"

CheckRelay(h) ==
    /\ handler[h].pc = "check"
    /\ LET next == AfterCheck(handler[h].op, batch[handler[h].relay])
       IN  IF next = "idle" THEN Return(h) ELSE Go(h, next)
    /\ UNCHANGED <<batch, items, session, messages, announced, faults>>

(* DEL of the key, whatever it holds by now; an error is ignored. *)
DeleteSession ==
    \/ session' = NoSession /\ UNCHANGED faults
    \/ Fault /\ UNCHANGED session

DropStaleSession(h) ==
    /\ handler[h].pc = "drop"
    /\ DeleteSession
    /\ IF handler[h].op = "start" THEN Go(h, "create") ELSE Return(h)
    /\ UNCHANGED <<batch, items, messages, announced>>

-----------------------------------------------------------------------------
(* The session record. *)

Larger(m, n) == IF m > n THEN m ELSE n

(* Fault: the record is overwritten with the handler's copy. *)
Overwritten(own) == IF session.relay \in {own.relay, NoRelay} THEN own ELSE session

(* Fault: a merge counts the append instead of keeping the larger count. *)
MergedCounting(own) ==
    IF session = NoSession THEN own
    ELSE IF session.relay # own.relay THEN session
    ELSE [session EXCEPT !.count = @ + 1]

(* MergeBatchUploadSession: atomic; another relay's record is kept, a      *)
(* missing one is written again, counts only grow, and the message is the  *)
(* one of whoever comes last, if that one has any.                         *)
Merged(own) ==
    IF session = NoSession THEN own
    ELSE IF session.relay # own.relay THEN session
    ELSE [session EXCEPT !.count = Larger(@, own.count),
                         !.notified = Larger(@, own.notified),
                         !.message = IF own.message # NoMessage THEN own.message ELSE @]

-----------------------------------------------------------------------------
(* The chat. *)

CollectingText(h) ==
    [relay |-> handler[h].relay, kind |-> "collecting", count |-> handler[h].count]

Shows(text) ==
    announced' = IF text.kind = "collecting"
                 THEN announced \cup {<<text.relay, text.count>>} ELSE announced

EditTo(m, text) == messages' = [messages EXCEPT ![m] = text] /\ Shows(text)

SendMessage(text) ==
    /\ Len(messages) < MaxMessages
    /\ messages' = Append(messages, text)
    /\ Shows(text)

GoSend(h) == handler' = [handler EXCEPT ![h].pc = "send", ![h].own = NoSession]

(* EditMessageText of the message the session names. An edit that changes  *)
(* nothing is an error of Telegram's that counts as success; any other     *)
(* error, also one of an edit that was made, leads to a new message.       *)
EditProgress(h) ==
    /\ handler[h].pc = "edit"
    /\ \/ /\ EditTo(handler[h].own.message, CollectingText(h))
          /\ \/ handler' = [handler EXCEPT ![h].pc = "reload", ![h].own = NoSession,
                                           ![h].message = handler[h].own.message]
             \/ GoSend(h)
       \/ GoSend(h) /\ UNCHANGED <<messages, announced>>
    /\ UNCHANGED <<batch, items, session, faults>>

(* A message may also be sent and its id never learnt. *)
SendProgress(h) ==
    /\ handler[h].pc = "send"
    /\ \/ /\ SendMessage(CollectingText(h))
          /\ \/ handler' = [handler EXCEPT ![h].pc = "reload",
                                           ![h].message = Len(messages')]
             \/ Return(h)
       \/ Return(h) /\ UNCHANGED <<messages, announced>>
    /\ UNCHANGED <<batch, items, session, faults>>

-----------------------------------------------------------------------------
(* UpdateBatchProgress *)

(* There is a session and it is still the relay's. *)
SessionOf(r) == session # NoSession /\ session.relay = r

ReloadSession(h) ==
    /\ handler[h].pc = "reload"
    /\ LET s == handler[h]
       IN  IF SessionOf(s.relay)
           THEN handler' = [handler EXCEPT
                    ![h].pc = "persist",
                    ![h].message = NoMessage,
                    ![h].count = 0,
                    ![h].own = [session EXCEPT
                        !.message = s.message,
                        !.notified = IF s.count > 0 THEN s.count ELSE @]]
           ELSE Return(h)
    /\ UNCHANGED <<batch, items, session, messages, announced, faults>>

PersistProgress(h) ==
    /\ handler[h].pc = "persist"
    /\ session' = Merged(handler[h].own)
    /\ Return(h)
    /\ UNCHANGED <<batch, items, messages, announced, faults>>

-----------------------------------------------------------------------------
(* /batch_start, once there is no session *)

StartCreate(h) ==
    /\ At(h, "start", "create")
    /\ \E r \in Relay :
          /\ batch[r] = "none"
          /\ batch' = [batch EXCEPT ![r] = "collecting"]
          /\ handler' = [handler EXCEPT ![h].pc = "set", ![h].relay = r]
    /\ UNCHANGED <<items, session, messages, announced, faults>>

(* When the SET fails, with or without effect, the relay is deleted again. *)
StartSetSession(h) ==
    LET started == [NoSession EXCEPT !.relay = handler[h].relay]
    IN  /\ At(h, "start", "set")
        /\ \/ session' = started /\ Go(h, "send") /\ UNCHANGED faults
           \/ session' \in {session, started} /\ Go(h, "undo") /\ Fault
        /\ UNCHANGED <<batch, items, messages, announced>>

StartUndo(h) ==
    /\ At(h, "start", "undo")
    /\ batch' = [batch EXCEPT ![handler[h].relay] = "deleted"]
    /\ Return(h)
    /\ UNCHANGED <<items, session, messages, announced, faults>>

-----------------------------------------------------------------------------
(* A file while a batch is collecting *)

(* A file that is there already, redelivered, is not added again. *)
AppendInsert(h) ==
    LET r == handler[h].relay
    IN  /\ At(h, "append", "insert")
        /\ \/ /\ batch[r] = "collecting" /\ items[r] < MaxItems
              /\ items' = [items EXCEPT ![r] = @ + 1]
              /\ handler' = [handler EXCEPT ![h].pc = "merge",
                                            ![h].own.count = items[r] + 1]
           \/ /\ batch[r] = "collecting" /\ items[r] > 0
              /\ Go(h, "recount")
              /\ UNCHANGED items
           \/ /\ batch[r] # "collecting" \/ items[r] = MaxItems
              /\ Return(h)
              /\ UNCHANGED items
        /\ UNCHANGED <<batch, session, messages, announced, faults>>

FilesIn(r) == IF batch[r] = "deleted" THEN 0 ELSE items[r]

AppendRecount(h) ==
    /\ At(h, "append", "recount")
    /\ handler' = [handler EXCEPT ![h].pc = "merge",
                                  ![h].own.count = FilesIn(handler[h].relay)]
    /\ UNCHANGED <<batch, items, session, messages, announced, faults>>

(* The count reported is the merged one, unless another relay's was there. *)
AppendMerge(h) ==
    LET own == handler[h].own
        merged == Merged(own)
    IN  /\ At(h, "append", "merge")
        /\ session' = merged
        /\ handler' = [handler EXCEPT
               ![h].pc = "notify",
               ![h].own = NoSession,
               ![h].count = IF merged.relay = own.relay THEN merged.count ELSE own.count]
        /\ UNCHANGED <<batch, items, messages, announced, faults>>

(* shouldNotifyBatchProgress. Between the steps it is a question of how    *)
(* much time has passed. *)
MustNotify(s, n) ==
    n > s.notified /\ (n = 1 \/ n % UpdateStep = 0 \/ s.notified = 0)

MayNotify(s, n) == n > s.notified

AppendNotify(h) ==
    LET s == handler[h]
    IN  /\ At(h, "append", "notify")
        /\ \/ /\ SessionOf(s.relay) /\ MayNotify(session, s.count)
              /\ handler' = [handler EXCEPT
                     ![h].own = IF session.message # NoMessage THEN session ELSE @,
                     ![h].pc = IF session.message # NoMessage THEN "edit" ELSE "send"]
           \/ /\ ~(SessionOf(s.relay) /\ MustNotify(session, s.count))
              /\ Return(h)
        /\ UNCHANGED <<batch, items, session, messages, announced, faults>>

-----------------------------------------------------------------------------
(* /batch_done and /batch_cancel *)

ListItems(h) ==
    LET n == FilesIn(handler[h].relay)
    IN  /\ handler[h].pc = "list"
        /\ IF handler[h].op = "finish" /\ n = 0 THEN Return(h)
           ELSE handler' = [handler EXCEPT ![h].pc = "end", ![h].count = n]
        /\ UNCHANGED <<batch, items, session, messages, announced, faults>>

(* FinalizeRelayBatch, or DeleteRelay whatever the status; a batch that    *)
(* another handler has finished meanwhile is answered all the same. At the *)
(* cap on active relays it is refused (BatchUpload).                       *)
EndBatch(h) ==
    LET r == handler[h].relay
        ended == IF handler[h].op = "cancel" THEN "deleted" ELSE "ready"
    IN  /\ handler[h].pc = "end"
        /\ \/ /\ batch[r] # "deleted" \/ ended = "deleted"
              /\ batch' = [batch EXCEPT ![r] = ended]
              /\ Go(h, "clear")
           \/ /\ ended = "ready" /\ batch[r] # "ready"
              /\ Return(h)
              /\ UNCHANGED batch
        /\ UNCHANGED <<items, session, messages, announced, faults>>

ClearSession(h) ==
    /\ handler[h].pc = "clear"
    /\ DeleteSession
    /\ Go(h, "close")
    /\ UNCHANGED <<batch, items, messages, announced>>

(* Fault: the message of whatever session there was is rewritten. *)
CloseAnyMessage(h) ==
    LET s == handler[h]
        kind == IF s.op = "cancel" THEN "canceled" ELSE "finished"
    IN  /\ s.pc = "close"
        /\ IF s.own.message # NoMessage
           THEN EditTo(s.own.message, [relay |-> s.relay, kind |-> kind, count |-> s.count])
           ELSE UNCHANGED <<messages, announced>>
        /\ Return(h)
        /\ UNCHANGED <<batch, items, session, faults>>

(* finalizeBatchProgressMessage: of the session read at the beginning. *)
CloseMessage(h) ==
    LET s == handler[h]
        kind == IF s.op = "cancel" THEN "canceled" ELSE "finished"
    IN  /\ s.pc = "close"
        /\ IF s.own.message # NoMessage /\ s.own.relay = s.relay
           THEN EditTo(s.own.message, [relay |-> s.relay, kind |-> kind, count |-> s.count])
           ELSE UNCHANGED <<messages, announced>>
        /\ Return(h)
        /\ UNCHANGED <<batch, items, session, faults>>

-----------------------------------------------------------------------------
(* A call fails and ends the handler, or the process stops. *)
Abandon(h) ==
    /\ handler[h].pc # "idle"
    /\ Fault
    /\ Return(h)
    /\ UNCHANGED <<batch, items, session, messages, announced>>

(* Redis loses the session: it expires, or Redis is emptied. *)
LoseSession ==
    /\ session # NoSession
    /\ Fault
    /\ session' = NoSession
    /\ UNCHANGED <<batch, items, messages, handler, announced>>

(* Bound: no relay is left to start. *)
OutOfRelays(h) ==
    /\ At(h, "start", "create")
    /\ \A r \in Relay : batch[r] # "none"
    /\ Return(h)
    /\ UNCHANGED <<batch, items, session, messages, announced, faults>>

Init ==
    /\ batch = [r \in Relay |-> "none"]
    /\ items = [r \in Relay |-> 0]
    /\ session = NoSession
    /\ messages = <<>>
    /\ handler = [h \in Handler |-> Idle]
    /\ announced = {}
    /\ faults = 0

Next ==
    \/ \E h \in Handler :
          \/ Receive(h) \/ Snapshot(h) \/ LoadSession(h) \/ CheckRelay(h)
          \/ DropStaleSession(h) \/ StartCreate(h) \/ StartSetSession(h) \/ StartUndo(h)
          \/ AppendInsert(h) \/ AppendRecount(h) \/ AppendMerge(h) \/ AppendNotify(h)
          \/ EditProgress(h) \/ SendProgress(h) \/ ReloadSession(h) \/ PersistProgress(h)
          \/ ListItems(h) \/ EndBatch(h) \/ ClearSession(h) \/ CloseMessage(h)
          \/ Abandon(h) \/ OutOfRelays(h)
    \/ LoseSession

Spec == Init /\ [][Next]_vars

-----------------------------------------------------------------------------
(* The uploader is never told of more files than the batch has, although   *)
(* counts reach the message through records that were read earlier         *)
(* (service.go:349, router.go:381, 390).                                   *)
ShownCountsTrue == \A shown \in announced : shown[2] <= items[shown[1]]

(* A progress message is about one batch for ever: no handler that comes   *)
(* late, finds the next batch's session, and trusts it, rewrites the next  *)
(* batch's message (router.go:376, 411).                                   *)
MessageKeepsBatch ==
    [][\A m \in 1 .. Len(messages) : messages'[m].relay = messages[m].relay]_vars

(* The message a session names is one of its own batch, so that the next   *)
(* edit goes to the right one (service.go:1065, rediscache.go:154).        *)
SessionNamesOwnMessage ==
    session.message # NoMessage => messages[session.message].relay = session.relay

(* What the session says was notified was shown: a message that could not  *)
(* be sent does not count, or the next counts would be kept from the       *)
(* uploader (router.go:387, 428).                                          *)
NotifiedWasShown ==
    session.notified > 0 => <<session.relay, session.notified>> \in announced

(* The message m is about the relay r. *)
Names(m, r) == m \in 1 .. Len(messages) /\ messages[m].relay = r

(* A session record, or a copy of one read at any time, says of its batch  *)
(* only what was so and still is.                                          *)
RecordTrue(s) ==
    IF s.relay = NoRelay THEN s = NoSession
    ELSE /\ batch[s.relay] # "none"
         /\ s.count <= items[s.relay]
         /\ s.message # NoMessage => Names(s.message, s.relay)
         /\ s.notified > 0 => <<s.relay, s.notified>> \in announced

(* What a handler's program counter says of its variables. *)
HandlerTrue(s) ==
    /\ IF s.pc = "idle" THEN s = Idle ELSE s.op # "none"
    /\ RecordTrue(s.own)
    /\ s.relay # NoRelay => batch[s.relay] # "none" /\ s.count <= items[s.relay]
    /\ s.pc \notin {"idle", "snapshot", "load", "create"} => s.relay # NoRelay
    /\ s.pc \in {"snapshot", "load", "check", "drop", "create", "set"} => s.count = 0
    /\ s.op = "append" /\ s.pc \in {"check", "insert", "recount", "merge"}
       => s.own.relay = s.relay
    /\ s.pc = "edit" => s.own.message # NoMessage /\ s.own.relay = s.relay
    /\ s.pc = "reload" => /\ Names(s.message, s.relay)
                          /\ <<s.relay, s.count>> \in announced

(* Until /batch_start has set the session nobody else knows its relay. *)
StartAlone(h) ==
    LET r == handler[h].relay
    IN  handler[h].pc = "set" =>
            /\ session.relay # r
            /\ \A g \in Handler : handler[g].own.relay # r /\ (handler[g].relay = r => g = h)

(* What the uploader reads and what the session keeps of it agree, however *)
(* old the records are that the handlers of the chat merge and edit with:  *)
(* the inductive invariant of the progress message.                        *)
ProgressInv ==
    /\ TypeOK
    /\ ShownCountsTrue
    /\ SessionNamesOwnMessage
    /\ NotifiedWasShown
    /\ RecordTrue(session)
    /\ \A h \in Handler : HandlerTrue(handler[h]) /\ StartAlone(h)

(* While a session lasts its counts never go down and its message is not   *)
(* forgotten, whatever old copies are merged into it                       *)
(* (rediscache.go:219-250).                                                *)
SessionOnlyGrows ==
    [][session # NoSession /\ session'.relay = session.relay
       => /\ session'.count >= session.count
          /\ session'.notified >= session.notified
          /\ session.message # NoMessage => session'.message # NoMessage]_vars

=============================================================================
