----------------------------- MODULE RelayStore -----------------------------
(***************************************************************************)
(* The relays and relay_items tables of the PostgreSQL store               *)
(* (internal/store/postgres/store.go, db/migrations/001-003.sql) and the   *)
(* operations that write them, at the granularity READ COMMITTED gives     *)
(* their callers: a single statement is one step, and the two transactions *)
(* that insert an item are three: one that takes the row lock (or inserts  *)
(* the relay) and reads, the INSERT of the item, which waits for a rival's *)
(* uncommitted insert of the same upload, and the COMMIT.                  *)
(*                                                                         *)
(* A chat is a private chat, whose id is its user's id (router.go:64), so  *)
(* it stands for both uploader columns.                                    *)
(***************************************************************************)
EXTENDS Integers, FiniteSets

CONSTANTS
    RelayId,        \* values of the relays.id sequence
    Update,         \* Telegram update ids of uploads (source_update_id)
    Code,           \* values codes.Generate can return
    Chat,           \* private chats
    Tx,             \* database sessions that can hold an open transaction
    Time,           \* instants callers pass
    MaxBatchItems,  \* limits.MaxBatchItems
    NoRelay, NoUpdate, NoCode, NoChat   \* the NULL of each column

ASSUME FiniteUpdates == IsFiniteSet(Update)
ASSUME MaxBatchItemsPositive == MaxBatchItems \in Nat \ {0}
ASSUME TimeIsInt == Time \subseteq Int
ASSUME NullsAreNotValues ==
    /\ NoRelay \notin RelayId
    /\ NoUpdate \notin Update
    /\ NoCode \notin Code
    /\ NoChat \notin Chat

VARIABLES
    relays,  \* the relays table; a row is "unused" before its id is drawn
    items,   \* the relay_items table, keyed by its UNIQUE source_update_id
    tx       \* what each session's open item-insert transaction has read

storeVars == <<relays, items, tx>>

-----------------------------------------------------------------------------
(* Rows. *)

RowStatus == {"collecting", "ready", "expired"}

Row == [status    : RowStatus \cup {"unused", "deleted"},
        src       : Update \cup {NoUpdate},
        code      : Code \cup {NoCode},
        chat      : Chat \cup {NoChat},
        expiresAt : Int,
        updatedAt : Int]

UnusedRow == [status |-> "unused", src |-> NoUpdate, code |-> NoCode,
              chat |-> NoChat, expiresAt |-> 0, updatedAt |-> 0]

Item == [relay : RelayId \cup {NoRelay}, order : Nat]
NoItem == [relay |-> NoRelay, order |-> 0]

(* An open transaction of AddRelayItem ("add") holds the row lock of       *)
(* `relay'; one of CreateRelay ("create") holds its uncommitted `row'. Its *)
(* `key' is the source_update_id of the item it has inserted, if it has.   *)
TxRecord == [op    : {"none", "add", "create"},
             relay : RelayId \cup {NoRelay},
             src   : Update \cup {NoUpdate},
             key   : Update \cup {NoUpdate},
             order : Nat,
             at    : Int,
             row   : Row]

NoTx == [op |-> "none", relay |-> NoRelay, src |-> NoUpdate, key |-> NoUpdate,
         order |-> 0, at |-> 0, row |-> UnusedRow]

TypeOK ==
    /\ relays \in [RelayId -> Row]
    /\ items \in [Update -> Item]
    /\ tx \in [Tx -> TxRecord]

-----------------------------------------------------------------------------
(* Reads. *)

Exists(r) == relays[r].status \in RowStatus

ItemsOf(r) == {u \in Update : items[u].relay = r}

Orders(r) == {items[u].order : u \in ItemsOf(r)}

(* SELECT COALESCE(MAX(item_order), 0) + 1 *)
NextOrder(r) ==
    LET taken == Orders(r) \cup {0}
    IN  (CHOOSE m \in taken : \A o \in taken : o <= m) + 1

(* The relay a SELECT joined on relay_items.source_update_id finds. *)
RelayOfUpdate(u) == items[u].relay

(* Fault: batch limit checked with > instead of >=. *)
BatchOverfull(r) == Cardinality(ItemsOf(r)) > MaxBatchItems

BatchFull(r) == Cardinality(ItemsOf(r)) >= MaxBatchItems

(* Fault: no unique key on relays.source_update_id. *)
SourceNeverTaken(u) == FALSE

(* relays.source_update_id is UNIQUE. *)
SourceTaken(u) == \E r \in RelayId : Exists(r) /\ relays[r].src = u

ActiveRelays(chat, now) ==
    {r \in RelayId : /\ relays[r].chat = chat
                     /\ relays[r].status = "ready"
                     /\ relays[r].expiresAt > now}

(* Fault: the rows are read without FOR UPDATE. *)
NeverLocked(r) == FALSE

(* The transaction of t holds the row lock of r (SELECT ... FOR UPDATE).   *)
HoldsRow(t, r) == tx[t].op = "add" /\ tx[t].relay = r

(* Every statement that writes the row waits for its lock. *)
Locked(r) == \E t \in Tx : HoldsRow(t, r)

(* The transaction of t has inserted a relay of the upload u. *)
CreatesFrom(t, u) == tx[t].op = "create" /\ tx[t].src = u

(* Fault: the upload is looked up under a lock that the INSERT waits for.  *)
LooksUp(t, u) == tx[t].op # "none" /\ tx[t].src = u

(* The transaction of t has inserted the item of the upload u. *)
HoldsKey(t, u) == tx[t].key = u

(* Codes are 20 random letters and digits: one never comes up twice. *)
FreshCode(c) == /\ \A r \in RelayId : relays[r].code # c
                /\ \A t \in Tx : tx[t].row.code # c

(* Ids come from a sequence: one drawn by an open transaction is gone. *)
FreshId(r) == /\ relays[r].status = "unused"
              /\ \A t \in Tx : tx[t].op = "create" => tx[t].relay # r

-----------------------------------------------------------------------------
(* CreateRelay: a ready relay and its one item, in one transaction.        *)

ReadyRow(u, c, chat, expiresAt, at) ==
    [status |-> "ready", src |-> u, code |-> c, chat |-> chat,
     expiresAt |-> expiresAt, updatedAt |-> at]

(* The INSERT INTO relays waits for another open insert of the same key. *)
CreateMayInsert(t, r, u, c) ==
    /\ tx[t] = NoTx
    /\ FreshId(r)
    /\ FreshCode(c)
    /\ ~SourceTaken(u)
    /\ \A s \in Tx : ~CreatesFrom(s, u)

CreateRelay(t, r, u, c, chat, expiresAt, at) ==
    /\ CreateMayInsert(t, r, u, c)
    /\ items[u] = NoItem
    /\ tx' = [tx EXCEPT ![t] =
                [op |-> "create", relay |-> r, src |-> u, key |-> NoUpdate,
                 order |-> 1, at |-> at,
                 row |-> ReadyRow(u, c, chat, expiresAt, at)]]
    /\ UNCHANGED <<relays, items>>

(* addRelayItemTx finds the upload filed under some other relay, reports    *)
(* it as "not created" without an error, and CreateRelay commits the relay. *)
CreateRelayOfFiledUpload(t, r, u, c, chat, expiresAt, at) ==
    /\ CreateMayInsert(t, r, u, c)
    /\ items[u] # NoItem
    /\ relays' = [relays EXCEPT ![r] = ReadyRow(u, c, chat, expiresAt, at)]
    /\ UNCHANGED <<items, tx>>

-----------------------------------------------------------------------------
(* AddRelayItem: what its transaction decides once it has the row lock.    *)

AddRelayItemResult(r, u) ==
    CASE relays[r].status \in {"unused", "deleted"} -> "relay_not_found"
      [] relays[r].status \in {"ready", "expired"}  -> "not_collecting"
      [] relays[r].status = "collecting" ->
            IF items[u] # NoItem THEN "duplicate"
            ELSE IF BatchFull(r) THEN "item_limit"
            ELSE "insert"

(* Every other result ends the transaction with nothing written. *)
AddRelayItem(t, r, u, at) ==
    /\ tx[t] = NoTx
    /\ ~Locked(r)
    /\ AddRelayItemResult(r, u) = "insert"
    /\ tx' = [tx EXCEPT ![t] =
                [op |-> "add", relay |-> r, src |-> u, key |-> NoUpdate,
                 order |-> NextOrder(r), at |-> at, row |-> UnusedRow]]
    /\ UNCHANGED <<relays, items>>

-----------------------------------------------------------------------------
(* The INSERT INTO relay_items of an open transaction, and its end.        *)

(* Fault: no unique key on relay_items.source_update_id. *)
ConflictUnnoticed(t) == FALSE

InsertConflicts(t) == items[tx[t].src] # NoItem

(* The INSERT waits for a rival's uncommitted insert of the same upload,   *)
(* the row lock of its own relay in hand.                                  *)
InsertItem(t) ==
    /\ tx[t].op # "none"
    /\ tx[t].key = NoUpdate
    /\ \A s \in Tx \ {t} : ~HoldsKey(s, tx[t].src)
    /\ ~InsertConflicts(t)
    /\ tx' = [tx EXCEPT ![t].key = tx[t].src]
    /\ UNCHANGED <<relays, items>>

CommittedRow(t) ==
    IF tx[t].op = "create" THEN tx[t].row
    ELSE [relays[tx[t].relay] EXCEPT !.updatedAt = tx[t].at]

Released(t) == [tx EXCEPT ![t] = NoTx]

(* The append's UPDATE of its own, locked relay, and COMMIT. *)
CommitInsert(t) ==
    /\ tx[t].key # NoUpdate
    /\ items' = [items EXCEPT ![tx[t].key] =
                    [relay |-> tx[t].relay, order |-> tx[t].order]]
    /\ relays' = [relays EXCEPT ![tx[t].relay] = CommittedRow(t)]
    /\ tx' = Released(t)

(* ON CONFLICT DO NOTHING returns no row; scanRelayItem has already turned *)
(* pgx.ErrNoRows into ErrRelayNotFound, so store.go:201 returns it and the *)
(* deferred Rollback runs: the re-read of the existing item is dead code.  *)
(* A failed call or a lost connection rolls back the same way.             *)
RollbackInsert(t) ==
    /\ tx[t].op # "none"
    /\ tx' = Released(t)
    /\ UNCHANGED <<relays, items>>

(* The process or its connections die: the server rolls back all of them. *)
RollbackAll ==
    /\ tx' = [t \in Tx |-> NoTx]
    /\ UNCHANGED <<relays, items>>

-----------------------------------------------------------------------------
(* Single statements. *)

CreateRelayBatch(r, chat, at) ==
    /\ FreshId(r)
    /\ relays' = [relays EXCEPT ![r] =
                    [status |-> "collecting", src |-> NoUpdate, code |-> NoCode,
                     chat |-> chat, expiresAt |-> at, updatedAt |-> at]]
    /\ UNCHANGED <<items, tx>>

(* Fault: AND status = 'collecting' forgotten in the UPDATE. *)
FinalizeMatchesAny(r) == Exists(r)

FinalizeMatches(r) == relays[r].status = "collecting"

(* When the UPDATE matches no row, the row is only read. *)
FinalizeRelayBatch(r, c, expiresAt, at) ==
    /\ ~Locked(r)
    /\ FinalizeMatches(r)
    /\ FreshCode(c)
    /\ relays' = [relays EXCEPT ![r].status = "ready", ![r].code = c,
                                ![r].expiresAt = expiresAt, ![r].updatedAt = at]
    /\ UNCHANGED <<items, tx>>

(* DELETE FROM relays, with ON DELETE CASCADE on relay_items.relay_id. The *)
(* code and expiry of a row that is gone are kept as history: codes do not *)
(* come up again, and callers may hold a copy of the row.                  *)
DeletedRow(row) ==
    [status |-> "deleted", src |-> NoUpdate, code |-> row.code, chat |-> NoChat,
     expiresAt |-> row.expiresAt, updatedAt |-> 0]

DeleteRows(S) ==
    /\ relays' = [r \in RelayId |->
                    IF r \in S THEN DeletedRow(relays[r])
                               ELSE relays[r]]
    /\ items' = [u \in Update |->
                    IF items[u].relay \in S THEN NoItem ELSE items[u]]
    /\ UNCHANGED tx

DeleteRelay(r) ==
    /\ Exists(r)
    /\ ~Locked(r)
    /\ DeleteRows({r})

StaleCollecting(before) ==
    {r \in RelayId : relays[r].status = "collecting" /\ relays[r].updatedAt < before}

DeleteCollectingRelaysBefore(before) ==
    /\ \A r \in StaleCollecting(before) : ~Locked(r)
    /\ DeleteRows(StaleCollecting(before))

(* Fault: AND expires_at <= $1 forgotten in the UPDATE. *)
AlwaysDue(r, now) == TRUE

Due(r, now) == relays[r].expiresAt <= now

ExpireRelays(now) ==
    /\ relays' = [r \in RelayId |->
                    IF relays[r].status = "ready" /\ Due(r, now)
                    THEN [relays[r] EXCEPT !.status = "expired", !.updatedAt = now]
                    ELSE relays[r]]
    /\ UNCHANGED <<items, tx>>

-----------------------------------------------------------------------------
StoreInit ==
    /\ relays = [r \in RelayId |-> UnusedRow]
    /\ items = [u \in Update |-> NoItem]
    /\ tx = [t \in Tx |-> NoTx]

TxNext(t) ==
    \/ \E r \in RelayId, u \in Update, c \in Code, chat \in Chat, e \in Time, at \in Time :
          \/ CreateRelay(t, r, u, c, chat, e, at)
          \/ CreateRelayOfFiledUpload(t, r, u, c, chat, e, at)
    \/ \E r \in RelayId, u \in Update, at \in Time : AddRelayItem(t, r, u, at)
    \/ InsertItem(t)
    \/ CommitInsert(t)
    \/ RollbackInsert(t)

StatementNext ==
    \/ \E r \in RelayId, chat \in Chat, at \in Time : CreateRelayBatch(r, chat, at)
    \/ \E r \in RelayId, c \in Code, e \in Time, at \in Time :
          FinalizeRelayBatch(r, c, e, at)
    \/ \E r \in RelayId : DeleteRelay(r)
    \/ \E before \in Time : DeleteCollectingRelaysBefore(before)
    \/ \E now \in Time : ExpireRelays(now)
    \/ RollbackAll

StoreNext == (\E t \in Tx : TxNext(t)) \/ StatementNext

StoreSpec == StoreInit /\ [][StoreNext]_storeVars

-----------------------------------------------------------------------------
(* What the store promises its callers. *)

(* The items of a relay are numbered 1, 2, ... with no gap and no number   *)
(* twice, whatever appends, conflicts, rollbacks and cascades happened:    *)
(* MAX(item_order)+1 is read and used under the row lock (store.go:125),   *)
(* so the unique index of migration 003 is never hit, and AppendBatchItem  *)
(* may report item.ItemOrder as the number of files (service.go:337).      *)
OrderGapFree ==
    \A r \in RelayId : Orders(r) = 1 .. Cardinality(ItemsOf(r))

(* A relay never holds more than MaxBatchItems items although the limit is *)
(* checked before the insert (store.go:137-149) and appends are concurrent.*)
BatchWithinLimit ==
    \A r \in RelayId : Cardinality(ItemsOf(r)) <= MaxBatchItems

(* One upload never becomes two relays, however many transactions try to   *)
(* create it at once (store.go:45, UNIQUE source_update_id).               *)
OneRelayPerUpload ==
    \A q, r \in RelayId :
        Exists(q) /\ Exists(r) /\ relays[q].src = relays[r].src
        /\ relays[q].src # NoUpdate => q = r

(* Once a batch has its code its contents are settled: an append that was  *)
(* under way when FinalizeRelayBatch ran is either in the batch before it  *)
(* or refused after it. Only deleting the relay removes files.             *)
SealedContentsFrozen ==
    [][\A r \in RelayId :
          relays[r].status \in {"ready", "expired"} /\ relays'[r].status # "deleted"
          => ItemsOf(r)' = ItemsOf(r)]_storeVars

(* A relay's life only goes forward, and the code a relay has is the one   *)
(* it keeps: finishing twice cannot replace a code already handed out      *)
(* (store.go:279), and an expired relay never becomes claimable again.     *)
LifeOnlyForward ==
    [][\A r \in RelayId :
          /\ relays[r].code # NoCode => relays'[r].code = relays[r].code
          /\ relays[r].status = "ready" => relays'[r].status # "collecting"
          /\ relays[r].status = "expired" => relays'[r].status \in {"expired", "deleted"}
          /\ relays[r].status = "deleted" => relays'[r].status = "deleted"]_storeVars

-----------------------------------------------------------------------------
(* The files of a relay in item_order, as ListRelayItemsByRelayID returns. *)
FilesOf(r) ==
    [i \in 1 .. Cardinality(ItemsOf(r)) |->
        CHOOSE u \in ItemsOf(r) : items[u].order = i]

Box == INSTANCE RelayBox WITH
    phase <- [r \in RelayId |-> relays[r].status],
    files <- [r \in RelayId |-> FilesOf(r)],
    code  <- [r \in RelayId |-> relays[r].code]

(* The tables, locks and transactions of store.go implement the box: every *)
(* committed change is one of the six things that may happen to a relay.   *)
ImplementsBox == Box!BoxSpec

=============================================================================
