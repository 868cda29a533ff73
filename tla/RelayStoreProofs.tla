-------------------------- MODULE RelayStoreProofs --------------------------
(***************************************************************************)
(* What TLAPS proves of RelayStore, for any number of relays, uploads,     *)
(* codes, chats and sessions, any times and any batch limit.               *)
(*                                                                         *)
(* The argument: a transaction that is about to insert into a relay holds  *)
(* its row lock, so the order it has read is still the next free one and   *)
(* the room it has seen is still there when it commits (OpenTransactions,  *)
(* LockExclusive); with that, numbering without gaps and the batch limit   *)
(* are inductive. None of the store's promises is inductive without it.    *)
(*                                                                         *)
(* The last part proves that the store implements RelayBox: what tables,   *)
(* locks and transactions do to a relay is, step by step, what may happen  *)
(* to a box. The box has the files of a relay in a sequence, the store has *)
(* them in a table with a number each. That the two say the same rests on  *)
(* numbering: with no gap, no number is given twice either                 *)
(* (OrdersDistinct), so that each number finds its one file (FileAtOrder)  *)
(* and an insert at the next number is an Append.                          *)
(***************************************************************************)
EXTENDS RelayStore, FiniteSetTheorems, SequenceTheorems, TLAPS

-----------------------------------------------------------------------------
(* The inductive invariant. *)

(* Rows of relay_items belong to a row of relays (the foreign key). *)
ItemsHaveRelay ==
    \A u \in Update :
        /\ items[u].relay = NoRelay => items[u] = NoItem
        /\ items[u].relay # NoRelay => Exists(items[u].relay)

(* What an open transaction has read still holds. *)
OpenTransaction(t) ==
    /\ tx[t].op = "none" => tx[t] = NoTx
    /\ tx[t].op # "none" => tx[t].relay \in RelayId /\ tx[t].src \in Update
    /\ tx[t].key # NoUpdate => tx[t].key = tx[t].src /\ items[tx[t].src] = NoItem
    /\ tx[t].op = "add" =>
          /\ relays[tx[t].relay].status = "collecting"
          /\ tx[t].order = Cardinality(ItemsOf(tx[t].relay)) + 1
          /\ tx[t].order <= MaxBatchItems
    /\ tx[t].op = "create" =>
          /\ relays[tx[t].relay].status = "unused"
          /\ tx[t].order = 1
          /\ tx[t].row.status = "ready"
          /\ tx[t].row.src = tx[t].src
          /\ ~SourceTaken(tx[t].src)

OpenTransactions == \A t \in Tx : OpenTransaction(t)

(* No two transactions hold the lock of one row, insert a row with one id, *)
(* create a relay for one upload, or have inserted one upload's item.      *)
LockExclusive ==
    \A s, t \in Tx :
        /\ tx[s].op = "add" /\ tx[t].op = "add" /\ tx[s].relay = tx[t].relay => s = t
        /\ tx[s].op = "create" /\ tx[t].op = "create"
           /\ (tx[s].relay = tx[t].relay \/ tx[s].src = tx[t].src) => s = t
        /\ tx[s].key # NoUpdate /\ tx[s].key = tx[t].key => s = t

StoreInv ==
    /\ TypeOK
    /\ ItemsHaveRelay
    /\ OrderGapFree
    /\ BatchWithinLimit
    /\ OpenTransactions
    /\ LockExclusive
    /\ OneRelayPerUpload

-----------------------------------------------------------------------------
(* Lemmas about the reads. *)

(* The items of a relay are a finite set, so they can be counted. *)
LEMMA ItemsFinite ==
    ASSUME NEW r
    PROVE  /\ IsFiniteSet(ItemsOf(r))
           /\ Cardinality(ItemsOf(r)) \in Nat
<1>1. ItemsOf(r) \subseteq Update
  BY DEF ItemsOf
<1>2. IsFiniteSet(ItemsOf(r))
  BY <1>1, FiniteUpdates, FS_Subset
<1> QED BY <1>2, FS_CardinalityType

(* Where numbering has no gaps, MAX(item_order)+1 is the count plus one.   *)
LEMMA NextOrderIsCountPlusOne ==
    ASSUME NEW r \in RelayId, OrderGapFree
    PROVE  NextOrder(r) = Cardinality(ItemsOf(r)) + 1
<1> DEFINE n == Cardinality(ItemsOf(r))
           taken == Orders(r) \cup {0}
<1>1. n \in Nat
  BY ItemsFinite
<1>2. Orders(r) = 1 .. n
  BY DEF OrderGapFree
<1>3. taken = 0 .. n
  BY <1>1, <1>2
<1>4. (CHOOSE m \in taken : \A o \in taken : o <= m) = n
  <2> HIDE DEF n, taken
  <2>1. n \in taken /\ \A o \in taken : o <= n
    BY <1>1, <1>3
  <2>2. \A m \in taken : (\A o \in taken : o <= m) => m = n
    BY <1>1, <1>3
  <2> QED BY <2>1, <2>2
<1> QED BY <1>4 DEF NextOrder

(* Filing one more upload under a relay at the next order keeps numbering  *)
(* gap-free there and leaves every other relay's items alone.              *)
LEMMA FilingKeepsOrder ==
    ASSUME TypeOK, OrderGapFree,
           NEW r \in RelayId, NEW u \in Update, items[u].relay # r,
           items[u].relay \notin RelayId,
           items' = [items EXCEPT ![u] =
                        [relay |-> r, order |-> Cardinality(ItemsOf(r)) + 1]]
    PROVE  /\ Cardinality(ItemsOf(r)') = Cardinality(ItemsOf(r)) + 1
           /\ Orders(r)' = 1 .. Cardinality(ItemsOf(r)')
           /\ \A q \in RelayId \ {r} : ItemsOf(q)' = ItemsOf(q) /\ Orders(q)' = Orders(q)
<1> DEFINE n == Cardinality(ItemsOf(r))
<1>0. n \in Nat /\ IsFiniteSet(ItemsOf(r))
  BY ItemsFinite
<1>1. ItemsOf(r)' = ItemsOf(r) \cup {u} /\ u \notin ItemsOf(r)
  BY DEF ItemsOf, TypeOK
<1>2. Cardinality(ItemsOf(r)') = n + 1
  BY <1>0, <1>1, FS_AddElement
<1>3. Orders(r)' = Orders(r) \cup {n + 1}
  BY <1>1 DEF Orders, ItemsOf, TypeOK
<1>4. Orders(r) = 1 .. n
  BY DEF OrderGapFree
<1>5. Orders(r)' = 1 .. Cardinality(ItemsOf(r)')
  BY <1>0, <1>2, <1>3, <1>4
<1>6. ASSUME NEW q \in RelayId \ {r}
      PROVE  ItemsOf(q)' = ItemsOf(q) /\ Orders(q)' = Orders(q)
  <2>1. ItemsOf(q)' = ItemsOf(q) /\ u \notin ItemsOf(q)
    BY DEF ItemsOf, TypeOK
  <2> QED BY <2>1 DEF Orders, ItemsOf, TypeOK
<1> QED BY <1>2, <1>5, <1>6

-----------------------------------------------------------------------------
(* Every instance starts with the invariant. *)

LEMMA InitStoreInv == StoreInit => StoreInv
<1> SUFFICES ASSUME StoreInit PROVE StoreInv
  OBVIOUS
<1> USE DEF StoreInit
<1>1. TypeOK
  <2>1. UnusedRow \in Row
    BY DEF UnusedRow, Row, RowStatus
  <2>2. NoItem \in Item
    BY DEF NoItem, Item
  <2>3. NoTx \in TxRecord
    BY <2>1 DEF NoTx, TxRecord
  <2> QED BY <2>1, <2>2, <2>3 DEF TypeOK
<1>2. \A r \in RelayId : ItemsOf(r) = {}
  BY NullsAreNotValues DEF ItemsOf, NoItem
<1>3. ItemsHaveRelay
  BY DEF ItemsHaveRelay, NoItem
<1>4. \A r \in RelayId : Orders(r) = {} /\ Cardinality(ItemsOf(r)) = 0
  BY <1>2, FS_EmptySet DEF Orders
<1>5. OrderGapFree
  BY <1>4 DEF OrderGapFree
<1>6. BatchWithinLimit
  BY <1>4, MaxBatchItemsPositive DEF BatchWithinLimit
<1>7. OpenTransactions /\ LockExclusive
  BY DEF OpenTransactions, OpenTransaction, LockExclusive, NoTx
<1>8. OneRelayPerUpload
  BY DEF OneRelayPerUpload, Exists, RowStatus, UnusedRow
<1> QED BY <1>1, <1>3, <1>5, <1>6, <1>7, <1>8 DEF StoreInv

-----------------------------------------------------------------------------
(* Steps that open a transaction change no table. *)

(* If no item changes, neither do the items and orders of any relay. *)
LEMMA SameItems ==
    ASSUME items' = items
    PROVE  /\ \A r : ItemsOf(r)' = ItemsOf(r) /\ Orders(r)' = Orders(r)
           /\ OrderGapFree => OrderGapFree'
           /\ BatchWithinLimit => BatchWithinLimit'
<1>1. \A r : ItemsOf(r)' = ItemsOf(r) /\ Orders(r)' = Orders(r)
  BY DEF ItemsOf, Orders
<1> QED BY <1>1 DEF OrderGapFree, BatchWithinLimit

(* Opening AddRelayItem's transaction: the lock is free, so it becomes the *)
(* only holder, and what it reads is true now.                             *)
LEMMA AddRelayItemInv ==
    ASSUME StoreInv, NEW t \in Tx, NEW r \in RelayId, NEW u \in Update,
           NEW at \in Time, AddRelayItem(t, r, u, at)
    PROVE  StoreInv'
<1> DEFINE n == Cardinality(ItemsOf(r))
           opened == [op |-> "add", relay |-> r, src |-> u, key |-> NoUpdate, order |-> n + 1,
                      at |-> at, row |-> UnusedRow]
<1>0. /\ TypeOK /\ OrderGapFree /\ BatchWithinLimit /\ ItemsHaveRelay
      /\ OpenTransactions /\ LockExclusive /\ OneRelayPerUpload
  BY DEF StoreInv
<1>1. n \in Nat
  BY ItemsFinite
<1>2. tx' = [tx EXCEPT ![t] = opened] /\ relays' = relays /\ items' = items
  BY <1>0, NextOrderIsCountPlusOne DEF AddRelayItem
<1>3. relays[r].status = "collecting" /\ n + 1 <= MaxBatchItems
  <2>1. relays[r].status \in {"unused", "deleted", "collecting", "ready", "expired"}
    BY <1>0 DEF TypeOK, Row, RowStatus
  <2>2. AddRelayItemResult(r, u) = "insert"
    BY DEF AddRelayItem
  <2>3. relays[r].status = "collecting" /\ ~BatchFull(r)
    BY <2>1, <2>2 DEF AddRelayItemResult
  <2> QED BY <1>1, <2>3, MaxBatchItemsPositive DEF BatchFull
<1>4. TypeOK'
  <2>1. UnusedRow \in Row
    BY DEF UnusedRow, Row, RowStatus
  <2>2. opened \in TxRecord
    BY <1>1, <2>1, TimeIsInt DEF TxRecord
  <2> QED BY <1>0, <1>2, <2>2 DEF TypeOK
<1>5. OpenTransactions'
  <2> SUFFICES ASSUME NEW s \in Tx PROVE OpenTransaction(s)'
    BY DEF OpenTransactions
  <2>1. CASE s = t
    <3>1. tx'[s] = opened
      BY <1>0, <1>2, <2>1 DEF TypeOK
    <3> QED BY <1>1, <1>2, <1>3, <3>1, SameItems DEF OpenTransaction
  <2>2. CASE s # t
    <3>1. tx'[s] = tx[s] /\ OpenTransaction(s)
      BY <1>0, <1>2, <2>2 DEF TypeOK, OpenTransactions
    <3> QED BY <1>2, <3>1, SameItems DEF OpenTransaction, SourceTaken, Exists
  <2> QED BY <2>1, <2>2
<1>6. LockExclusive'
  <2>1. \A s \in Tx : ~(tx[s].op = "add" /\ tx[s].relay = r)
    BY DEF AddRelayItem, Locked, HoldsRow
  <2>2. \A s \in Tx : tx'[s] = IF s = t THEN opened ELSE tx[s]
    BY <1>0, <1>2 DEF TypeOK
  <2> QED BY <1>0, <2>1, <2>2 DEF LockExclusive
<1>7. ItemsHaveRelay' /\ OneRelayPerUpload'
  BY <1>0, <1>2 DEF ItemsHaveRelay, OneRelayPerUpload, Exists
<1> QED BY <1>0, <1>2, <1>4, <1>5, <1>6, <1>7, SameItems DEF StoreInv

(* A statement that changes only rows of relays keeps the invariant if it  *)
(* loses no row, leaves alone the rows open transactions depend on, and    *)
(* gives no second relay to an upload.                                     *)
LEMMA RowsOnlyInv ==
    ASSUME StoreInv, UNCHANGED <<items, tx>>,
           relays' \in [RelayId -> Row],
           \A r \in RelayId : Exists(r) => Exists(r)',
           \A t \in Tx : tx[t].op = "add" =>
                            relays'[tx[t].relay].status = "collecting",
           \A t \in Tx : tx[t].op = "create" =>
                            /\ relays'[tx[t].relay].status = "unused"
                            /\ ~SourceTaken(tx[t].src)',
           OneRelayPerUpload'
    PROVE  StoreInv'
<1>0. /\ TypeOK /\ OrderGapFree /\ BatchWithinLimit /\ ItemsHaveRelay
      /\ OpenTransactions /\ LockExclusive
  BY DEF StoreInv
<1>1. TypeOK'
  BY <1>0 DEF TypeOK
<1>2. ItemsHaveRelay'
  BY <1>0 DEF ItemsHaveRelay, TypeOK, Item
<1>3. OpenTransactions'
  <2> SUFFICES ASSUME NEW t \in Tx PROVE OpenTransaction(t)'
    BY DEF OpenTransactions
  <2>1. OpenTransaction(t) /\ ItemsOf(tx[t].relay)' = ItemsOf(tx[t].relay)
    BY <1>0, SameItems DEF OpenTransactions
  <2> QED BY <2>1 DEF OpenTransaction
<1>4. LockExclusive'
  BY <1>0 DEF LockExclusive
<1> QED BY <1>0, <1>1, <1>2, <1>3, <1>4, SameItems DEF StoreInv

(* Opening CreateRelay's transaction: no relay has the upload, and no      *)
(* other transaction is creating one for it or under the same id.          *)
LEMMA CreateRelayInv ==
    ASSUME StoreInv, NEW t \in Tx, NEW r \in RelayId, NEW u \in Update,
           NEW c \in Code, NEW chat \in Chat, NEW e \in Time, NEW at \in Time,
           CreateRelay(t, r, u, c, chat, e, at)
    PROVE  StoreInv'
<1> DEFINE row == ReadyRow(u, c, chat, e, at)
           opened == [op |-> "create", relay |-> r, src |-> u, key |-> NoUpdate, order |-> 1,
                      at |-> at, row |-> row]
<1>0. /\ TypeOK /\ OrderGapFree /\ BatchWithinLimit /\ ItemsHaveRelay
      /\ OpenTransactions /\ LockExclusive /\ OneRelayPerUpload
  BY DEF StoreInv
<1>1. /\ tx' = [tx EXCEPT ![t] = opened] /\ relays' = relays /\ items' = items
      /\ relays[r].status = "unused" /\ ~SourceTaken(u)
  BY DEF CreateRelay, CreateMayInsert, CreatesFrom, FreshId
<1>2. \A s \in Tx : tx[s].op = "create" => tx[s].src # u /\ tx[s].relay # r
  BY DEF CreateRelay, CreateMayInsert, CreatesFrom, FreshId
<1>3. \A s \in Tx : tx'[s] = IF s = t THEN opened ELSE tx[s]
  BY <1>0, <1>1 DEF TypeOK
<1>4. TypeOK'
  <2>1. row \in Row
    BY TimeIsInt DEF ReadyRow, Row, RowStatus
  <2>2. opened \in TxRecord
    BY <2>1, TimeIsInt DEF TxRecord
  <2> QED BY <1>0, <1>1, <2>2 DEF TypeOK
<1>5. OpenTransactions'
  <2> SUFFICES ASSUME NEW s \in Tx PROVE OpenTransaction(s)'
    BY DEF OpenTransactions
  <2>1. CASE s = t
    <3>1. tx'[s] = opened /\ ~SourceTaken(u)'
      BY <1>1, <1>3, <2>1 DEF SourceTaken, Exists
    <3> QED BY <1>1, <3>1 DEF OpenTransaction, ReadyRow
  <2>2. CASE s # t
    <3>1. tx'[s] = tx[s] /\ OpenTransaction(s)
      BY <1>0, <1>3, <2>2 DEF OpenTransactions
    <3> QED BY <1>1, <3>1, SameItems DEF OpenTransaction, SourceTaken, Exists
  <2> QED BY <2>1, <2>2
<1>6. LockExclusive'
  BY <1>0, <1>2, <1>3 DEF LockExclusive
<1>7. ItemsHaveRelay' /\ OneRelayPerUpload'
  BY <1>0, <1>1 DEF ItemsHaveRelay, OneRelayPerUpload, Exists
<1> QED BY <1>0, <1>1, <1>4, <1>5, <1>6, <1>7, SameItems DEF StoreInv

(* The INSERT of an item: its key was free, as the wait for a rival's      *)
(* uncommitted insert is over, and nothing is filed under it.              *)
LEMMA InsertItemInv ==
    ASSUME StoreInv, NEW t \in Tx, InsertItem(t)
    PROVE  StoreInv'
<1>0. /\ TypeOK /\ OrderGapFree /\ BatchWithinLimit /\ ItemsHaveRelay
      /\ OpenTransactions /\ LockExclusive /\ OneRelayPerUpload
  BY DEF StoreInv
<1>1. PICK old \in TxRecord : old = tx[t] /\ old.op # "none" /\ old.src \in Update
  BY <1>0 DEF InsertItem, OpenTransactions, OpenTransaction, TypeOK
<1>2. PICK new \in TxRecord :
         /\ new = [old EXCEPT !.key = old.src]
         /\ new.op = old.op /\ new.relay = old.relay /\ new.src = old.src
         /\ new.key = old.src /\ new.order = old.order /\ new.row = old.row
  <2>1. [old EXCEPT !.key = old.src] \in TxRecord
    BY <1>1 DEF TxRecord
  <2>2. \A rec : rec = [old EXCEPT !.key = old.src] =>
            /\ rec.op = old.op /\ rec.relay = old.relay /\ rec.src = old.src
            /\ rec.key = old.src /\ rec.order = old.order /\ rec.row = old.row
    BY <1>1 DEF TxRecord
  <2> QED BY <2>1, <2>2, Zenon
<1>3. /\ tx' = [tx EXCEPT ![t] = new] /\ relays' = relays /\ items' = items
      /\ items[old.src] = NoItem
      /\ \A s \in Tx \ {t} : tx[s].key # old.src
  BY <1>1, <1>2 DEF InsertItem, InsertConflicts, HoldsKey
<1>4. TypeOK'
  BY <1>0, <1>3 DEF TypeOK
<1>5. \A s \in Tx : tx'[s] = IF s = t THEN new ELSE tx[s]
  BY <1>0, <1>3 DEF TypeOK
<1>6. OpenTransactions'
  <2> SUFFICES ASSUME NEW s \in Tx PROVE OpenTransaction(s)'
    BY DEF OpenTransactions
  <2>1. OpenTransaction(s)
    BY <1>0 DEF OpenTransactions
  <2>2. CASE s = t
    <3>1. tx'[s] = new /\ tx[s] = old
      BY <1>1, <1>5, <2>2
    <3> QED BY <1>1, <1>2, <1>3, <2>1, <3>1, SameItems
            DEF OpenTransaction, SourceTaken, Exists
  <2>3. CASE s # t
    <3>1. tx'[s] = tx[s]
      BY <1>5, <2>3
    <3> QED BY <1>3, <2>1, <3>1, SameItems DEF OpenTransaction, SourceTaken, Exists
  <2> QED BY <2>2, <2>3
<1>7. LockExclusive'
  BY <1>0, <1>1, <1>2, <1>3, <1>5 DEF LockExclusive
<1>8. ItemsHaveRelay' /\ OneRelayPerUpload'
  BY <1>0, <1>3 DEF ItemsHaveRelay, OneRelayPerUpload, Exists
<1> QED BY <1>0, <1>3, <1>4, <1>6, <1>7, <1>8, SameItems DEF StoreInv

-----------------------------------------------------------------------------
(* Steps that write rows of relays only.                                   *)

(* CreateRelay that finds its upload filed commits a row at once; it too   *)
(* has passed the unique key on source_update_id.                          *)
LEMMA CreateRelayOfFiledUploadInv ==
    ASSUME StoreInv, NEW t \in Tx, NEW r \in RelayId, NEW u \in Update,
           NEW c \in Code, NEW chat \in Chat, NEW e \in Time, NEW at \in Time,
           CreateRelayOfFiledUpload(t, r, u, c, chat, e, at)
    PROVE  StoreInv'
<1> DEFINE row == ReadyRow(u, c, chat, e, at)
<1>0. TypeOK /\ OpenTransactions /\ OneRelayPerUpload
  BY DEF StoreInv
<1>1. /\ relays' = [relays EXCEPT ![r] = row] /\ UNCHANGED <<items, tx>>
      /\ relays[r].status = "unused" /\ ~SourceTaken(u)
      /\ \A s \in Tx : tx[s].op = "create" => tx[s].src # u /\ tx[s].relay # r
  BY DEF CreateRelayOfFiledUpload, CreateMayInsert, CreatesFrom, FreshId
<1>2. row \in Row /\ row.status = "ready" /\ row.src = u
  BY TimeIsInt DEF ReadyRow, Row, RowStatus
<1>3. \A q \in RelayId : relays'[q] = IF q = r THEN row ELSE relays[q]
  BY <1>0, <1>1 DEF TypeOK
<1>4. relays' \in [RelayId -> Row]
  BY <1>0, <1>1, <1>2 DEF TypeOK
<1>5. \A q \in RelayId : Exists(q) => Exists(q)'
  BY <1>2, <1>3 DEF Exists, RowStatus
<1>6. \A s \in Tx : tx[s].op = "add" => relays'[tx[s].relay].status = "collecting"
  BY <1>0, <1>1, <1>3 DEF OpenTransactions, OpenTransaction
<1>7. \A s \in Tx : tx[s].op = "create" =>
          relays'[tx[s].relay].status = "unused" /\ ~SourceTaken(tx[s].src)'
  BY <1>0, <1>1, <1>2, <1>3
     DEF OpenTransactions, OpenTransaction, SourceTaken, Exists
<1>8. OneRelayPerUpload'
  BY <1>0, <1>1, <1>2, <1>3 DEF OneRelayPerUpload, SourceTaken, Exists
<1> QED BY <1>1, <1>4, <1>5, <1>6, <1>7, <1>8, RowsOnlyInv

(* A new batch starts empty and belongs to no upload.                      *)
LEMMA CreateRelayBatchInv ==
    ASSUME StoreInv, NEW r \in RelayId, NEW chat \in Chat, NEW at \in Time,
           CreateRelayBatch(r, chat, at)
    PROVE  StoreInv'
<1> DEFINE row == [status |-> "collecting", src |-> NoUpdate, code |-> NoCode,
                   chat |-> chat, expiresAt |-> at, updatedAt |-> at]
<1>0. TypeOK /\ OpenTransactions /\ OneRelayPerUpload
  BY DEF StoreInv
<1>1. /\ relays' = [relays EXCEPT ![r] = row] /\ UNCHANGED <<items, tx>>
      /\ relays[r].status = "unused"
      /\ \A s \in Tx : tx[s].op = "create" => tx[s].relay # r
  BY DEF CreateRelayBatch, FreshId
<1>2. row \in Row /\ row.status = "collecting" /\ row.src = NoUpdate
  BY TimeIsInt DEF Row, RowStatus
<1>3. \A q \in RelayId : relays'[q] = IF q = r THEN row ELSE relays[q]
  BY <1>0, <1>1 DEF TypeOK
<1>4. relays' \in [RelayId -> Row]
  BY <1>0, <1>1, <1>2 DEF TypeOK
<1>5. \A q \in RelayId : Exists(q) => Exists(q)'
  BY <1>2, <1>3 DEF Exists, RowStatus
<1>6. \A s \in Tx : tx[s].op = "add" => relays'[tx[s].relay].status = "collecting"
  BY <1>0, <1>1, <1>3 DEF OpenTransactions, OpenTransaction
<1>7. \A s \in Tx : tx[s].op = "create" =>
          relays'[tx[s].relay].status = "unused" /\ ~SourceTaken(tx[s].src)'
  BY <1>0, <1>1, <1>2, <1>3, NullsAreNotValues
     DEF OpenTransactions, OpenTransaction, SourceTaken, Exists
<1>8. OneRelayPerUpload'
  BY <1>0, <1>2, <1>3 DEF OneRelayPerUpload, Exists
<1> QED BY <1>1, <1>4, <1>5, <1>6, <1>7, <1>8, RowsOnlyInv

(* A statement that keeps every row, its source and whether it is unused,  *)
(* and spares the rows locked by an append, keeps the invariant.           *)
LEMMA StatusOnlyInv ==
    ASSUME StoreInv, UNCHANGED <<items, tx>>,
           relays' \in [RelayId -> Row],
           \A q \in RelayId :
               /\ relays'[q].src = relays[q].src
               /\ Exists(q)' <=> Exists(q)
               /\ relays[q].status = "unused" => relays'[q].status = "unused"
               /\ Locked(q) => relays'[q] = relays[q]
    PROVE  StoreInv'
<1>0. TypeOK /\ OpenTransactions /\ OneRelayPerUpload
  BY DEF StoreInv
<1>1. \A s \in Tx : tx[s].op = "add" => relays'[tx[s].relay].status = "collecting"
  BY <1>0 DEF OpenTransactions, OpenTransaction, Locked, HoldsRow
<1>2. \A s \in Tx : tx[s].op = "create" =>
          relays'[tx[s].relay].status = "unused" /\ ~SourceTaken(tx[s].src)'
  BY <1>0 DEF OpenTransactions, OpenTransaction, SourceTaken
<1>3. OneRelayPerUpload'
  BY <1>0 DEF OneRelayPerUpload
<1> QED BY <1>1, <1>2, <1>3, RowsOnlyInv

(* Finishing a batch waits for appends under way: it spares locked rows.   *)
LEMMA FinalizeRelayBatchInv ==
    ASSUME StoreInv, NEW r \in RelayId, NEW c \in Code, NEW e \in Time,
           NEW at \in Time, FinalizeRelayBatch(r, c, e, at)
    PROVE  StoreInv'
<1>0. TypeOK
  BY DEF StoreInv
<1>1. /\ ~Locked(r) /\ relays[r].status = "collecting" /\ UNCHANGED <<items, tx>>
      /\ relays' = [relays EXCEPT ![r].status = "ready", ![r].code = c,
                                  ![r].expiresAt = e, ![r].updatedAt = at]
  BY DEF FinalizeRelayBatch, FinalizeMatches
<1>2. relays' \in [RelayId -> Row]
  <2> DEFINE named == [relays[r] EXCEPT !.status = "ready", !.code = c]
             row == [named EXCEPT !.expiresAt = e, !.updatedAt = at]
  <2>1. relays' = [relays EXCEPT ![r] = row]
    BY <1>0, <1>1, Zenon DEF TypeOK
  <2>2. relays[r] \in Row /\ e \in Int /\ at \in Int
    BY <1>0, TimeIsInt DEF TypeOK
  <2>3. named \in Row
    BY <2>2 DEF Row, RowStatus
  <2>4. row \in Row
    <3> HIDE DEF named
    <3> QED BY <2>2, <2>3 DEF Row
  <2> QED BY <1>0, <2>1, <2>4 DEF TypeOK
<1>3. relays'[r].status = "ready" /\ relays'[r].src = relays[r].src
  BY <1>0, <1>1 DEF TypeOK, Row
<1>4. \A q \in RelayId \ {r} : relays'[q] = relays[q]
  BY <1>0, <1>1 DEF TypeOK
<1>5. \A q \in RelayId :
          /\ relays'[q].src = relays[q].src
          /\ Exists(q)' <=> Exists(q)
          /\ relays[q].status = "unused" => relays'[q].status = "unused"
          /\ Locked(q) => relays'[q] = relays[q]
  BY <1>1, <1>3, <1>4 DEF Exists, RowStatus
<1> QED BY <1>1, <1>2, <1>5, StatusOnlyInv

(* Expiry touches ready relays only, and no append has locked one.         *)
LEMMA ExpireRelaysInv ==
    ASSUME StoreInv, NEW now \in Time, ExpireRelays(now)
    PROVE  StoreInv'
<1>0. TypeOK /\ OpenTransactions
  BY DEF StoreInv
<1>1. \A q \in RelayId :
          relays'[q] = IF relays[q].status = "ready" /\ Due(q, now)
                       THEN [relays[q] EXCEPT !.status = "expired", !.updatedAt = now]
                       ELSE relays[q]
  BY DEF ExpireRelays
<1>2. relays' \in [RelayId -> Row]
  <2>1. \A q \in RelayId :
            [relays[q] EXCEPT !.status = "expired", !.updatedAt = now] \in Row
    BY <1>0, TimeIsInt DEF TypeOK, Row, RowStatus
  <2> QED BY <1>0, <2>1 DEF ExpireRelays, TypeOK
<1>3. \A q \in RelayId : Locked(q) => relays[q].status = "collecting"
  BY <1>0 DEF Locked, HoldsRow, OpenTransactions, OpenTransaction
<1>4. \A q \in RelayId :
          /\ relays'[q].src = relays[q].src
          /\ Exists(q)' <=> Exists(q)
          /\ relays[q].status = "unused" => relays'[q].status = "unused"
          /\ Locked(q) => relays'[q] = relays[q]
  <2> TAKE q \in RelayId
  <2>1. CASE relays[q].status = "ready" /\ Due(q, now)
    <3>1. relays'[q].status = "expired" /\ relays'[q].src = relays[q].src
      BY <1>0, <1>1, <2>1 DEF TypeOK, Row
    <3> QED BY <1>3, <2>1, <3>1 DEF Exists, RowStatus
  <2>2. CASE ~(relays[q].status = "ready" /\ Due(q, now))
    BY <1>1, <2>2 DEF Exists
  <2> QED BY <2>1, <2>2
<1> QED BY <1>2, <1>4, StatusOnlyInv DEF ExpireRelays

-----------------------------------------------------------------------------
(* Steps that end transactions.                                            *)

(* Transactions that roll back leave the tables, and the others, alone.    *)
LEMMA RollbackInv ==
    ASSUME StoreInv, UNCHANGED <<relays, items>>,
           tx' \in [Tx -> TxRecord],
           \A t \in Tx : tx'[t] = tx[t] \/ tx'[t] = NoTx
    PROVE  StoreInv'
<1>0. /\ TypeOK /\ OrderGapFree /\ BatchWithinLimit /\ ItemsHaveRelay
      /\ OpenTransactions /\ LockExclusive /\ OneRelayPerUpload
  BY DEF StoreInv
<1>1. OpenTransactions'
  <2> SUFFICES ASSUME NEW t \in Tx PROVE OpenTransaction(t)'
    BY DEF OpenTransactions
  <2>1. CASE tx'[t] = NoTx
    BY <2>1 DEF OpenTransaction, NoTx
  <2>2. CASE tx'[t] = tx[t]
    <3>1. OpenTransaction(t)
      BY <1>0 DEF OpenTransactions
    <3> QED BY <2>2, <3>1, SameItems DEF OpenTransaction, SourceTaken, Exists
  <2> QED BY <2>1, <2>2
<1>2. LockExclusive'
  <2>1. NoTx.op = "none" /\ NoTx.key = NoUpdate
    BY DEF NoTx
  <2> QED BY <1>0, <2>1 DEF LockExclusive
<1>3. TypeOK' /\ ItemsHaveRelay' /\ OneRelayPerUpload'
  BY <1>0 DEF TypeOK, ItemsHaveRelay, OneRelayPerUpload, Exists
<1> QED BY <1>0, <1>1, <1>2, <1>3, SameItems DEF StoreInv

(* One transaction rolls back, or all of them do.                          *)
LEMMA RollbackStepInv ==
    ASSUME StoreInv, RollbackAll \/ \E t \in Tx : RollbackInsert(t)
    PROVE  StoreInv'
<1>0. TypeOK
  BY DEF StoreInv
<1>1. NoTx \in TxRecord
  BY DEF NoTx, TxRecord, UnusedRow, Row, RowStatus
<1>2. CASE RollbackAll
  BY <1>1, <1>2, RollbackInv DEF RollbackAll
<1>3. ASSUME NEW t \in Tx, RollbackInsert(t) PROVE StoreInv'
  <2>1. tx' = [tx EXCEPT ![t] = NoTx] /\ UNCHANGED <<relays, items>>
    BY <1>3 DEF RollbackInsert, Released
  <2> QED BY <1>0, <1>1, <2>1, RollbackInv DEF TypeOK
<1> QED BY <1>2, <1>3

(* A transaction that commits an item has inserted it, and nothing else    *)
(* has been filed under its upload since.                                  *)
LEMMA InsertedItem ==
    ASSUME TypeOK, OpenTransactions, NEW t \in Tx, CommitInsert(t)
    PROVE  /\ OpenTransaction(t) /\ tx[t] \in TxRecord
           /\ tx[t].op \in {"add", "create"}
           /\ tx[t].relay \in RelayId /\ tx[t].src \in Update
           /\ tx[t].key = tx[t].src /\ items[tx[t].src] = NoItem
<1>1. OpenTransaction(t) /\ tx[t] \in TxRecord /\ tx[t].key # NoUpdate
  BY DEF CommitInsert, OpenTransactions, TypeOK
<1>2. tx[t].op # "none"
  BY <1>1 DEF OpenTransaction, NoTx
<1>3. tx[t].op \in {"add", "create"}
  BY <1>1, <1>2 DEF TxRecord
<1> QED BY <1>1, <1>2, <1>3 DEF OpenTransaction

(* Committing an insert files the upload at the order read under the lock, *)
(* which is still the next free one; the lock goes with the transaction.   *)
LEMMA CommitInsertInv ==
    ASSUME StoreInv, NEW t \in Tx, CommitInsert(t)
    PROVE  StoreInv'
<1>0. /\ TypeOK /\ OrderGapFree /\ BatchWithinLimit /\ ItemsHaveRelay
      /\ OpenTransactions /\ LockExclusive /\ OneRelayPerUpload
  BY DEF StoreInv
<1>1. /\ tx[t] \in TxRecord /\ OpenTransaction(t) /\ tx[t].op \in {"add", "create"}
  BY <1>0, InsertedItem
<1>2. PICK r \in RelayId, u \in Update, row \in {CommittedRow(t)} :
          /\ tx[t].relay = r /\ tx[t].src = u /\ CommittedRow(t) = row
          /\ tx[t].key = u /\ items[u] = NoItem
  BY <1>0, InsertedItem
<1>3. /\ items[u] = NoItem
      /\ items' = [items EXCEPT ![u] = [relay |-> r, order |-> tx[t].order]]
      /\ relays' = [relays EXCEPT ![r] = row]
      /\ tx' = [tx EXCEPT ![t] = NoTx]
  BY <1>2 DEF CommitInsert, Released
<1> DEFINE n == Cardinality(ItemsOf(r))
           filed == [relay |-> r, order |-> n + 1]
<1>4. n \in Nat /\ tx[t].order = n + 1 /\ n + 1 <= MaxBatchItems
  <2>1. n \in Nat
    BY ItemsFinite
  <2>2. CASE tx[t].op = "add"
    BY <1>1, <1>2, <2>1, <2>2 DEF OpenTransaction
  <2>3. CASE tx[t].op = "create"
    <3>1. tx[t].order = 1 /\ relays[r].status = "unused"
      BY <1>1, <1>2, <2>3 DEF OpenTransaction
    <3>2. ItemsOf(r) = {}
      BY <1>0, <1>2, <3>1, NullsAreNotValues
         DEF ItemsHaveRelay, Exists, RowStatus, ItemsOf
    <3> QED BY <3>1, <3>2, FS_EmptySet, MaxBatchItemsPositive
  <2> QED BY <1>1, <2>2, <2>3
<1>5. /\ row \in Row
      /\ row.status = IF tx[t].op = "add" THEN "collecting" ELSE "ready"
      /\ row.src = IF tx[t].op = "add" THEN relays[r].src ELSE u
  <2>1. CASE tx[t].op = "create"
    <3>1. row = tx[t].row
      BY <1>2, <2>1 DEF CommittedRow
    <3> QED BY <1>1, <1>2, <2>1, <3>1 DEF TxRecord, OpenTransaction
  <2>2. CASE tx[t].op = "add"
    <3>1. row = [relays[r] EXCEPT !.updatedAt = tx[t].at]
      BY <1>2, <2>2 DEF CommittedRow
    <3>2. relays[r] \in Row /\ relays[r].status = "collecting" /\ tx[t].at \in Int
      BY <1>0, <1>1, <1>2, <2>2 DEF TypeOK, TxRecord, OpenTransaction
    <3> QED BY <2>2, <3>1, <3>2 DEF Row
  <2> QED BY <1>1, <2>1, <2>2
<1>6. \A q \in RelayId : relays'[q] = IF q = r THEN row ELSE relays[q]
  BY <1>0, <1>3, <1>2 DEF TypeOK
<1>7. \A v \in Update : items'[v] = IF v = u THEN filed ELSE items[v]
  BY <1>0, <1>3, <1>2, <1>4 DEF TypeOK
<1>8. \A s \in Tx : tx'[s] = IF s = t THEN NoTx ELSE tx[s]
  BY <1>0, <1>3 DEF TypeOK
<1>9. /\ Cardinality(ItemsOf(r)') = n + 1
      /\ Orders(r)' = 1 .. Cardinality(ItemsOf(r)')
      /\ \A q \in RelayId \ {r} : ItemsOf(q)' = ItemsOf(q) /\ Orders(q)' = Orders(q)
  <2>1. items[u].relay # r /\ items[u].relay \notin RelayId
    BY <1>3, <1>2, NullsAreNotValues DEF NoItem
  <2>2. items' = [items EXCEPT ![u] = [relay |-> r, order |-> n + 1]]
    BY <1>3, <1>4
  <2> QED BY <1>0, <1>2, <2>1, <2>2, FilingKeepsOrder
<1>10. TypeOK'
  <2>1. filed \in Item
    BY <1>2, <1>4 DEF Item
  <2>2. NoTx \in TxRecord
    BY DEF NoTx, TxRecord, UnusedRow, Row, RowStatus
  <2>3. relays' \in [RelayId -> Row]
    BY <1>0, <1>3, <1>5 DEF TypeOK
  <2>4. items' \in [Update -> Item]
    BY <1>0, <1>3, <1>4, <2>1 DEF TypeOK
  <2>5. tx' \in [Tx -> TxRecord]
    BY <1>0, <1>3, <2>2 DEF TypeOK
  <2> QED BY <2>3, <2>4, <2>5 DEF TypeOK
<1>11. relays[r].status = IF tx[t].op = "add" THEN "collecting" ELSE "unused"
  BY <1>1, <1>2 DEF OpenTransaction
<1>12. \A q \in RelayId : Exists(q)' <=> Exists(q) \/ q = r
  BY <1>1, <1>11, <1>5, <1>6 DEF Exists, RowStatus
<1>13. ItemsHaveRelay'
  BY <1>0, <1>2, <1>7, <1>12, NullsAreNotValues DEF ItemsHaveRelay, TypeOK, Item
<1>14. OrderGapFree' /\ BatchWithinLimit'
  <2>1. \A q \in RelayId : Orders(q)' = 1 .. Cardinality(ItemsOf(q)')
    BY <1>0, <1>9 DEF OrderGapFree
  <2>2. \A q \in RelayId : Cardinality(ItemsOf(q)') <= MaxBatchItems
    BY <1>0, <1>4, <1>9 DEF BatchWithinLimit
  <2> QED BY <2>1, <2>2 DEF OrderGapFree, BatchWithinLimit
<1>15. \A q \in RelayId : Exists(q)' /\ ~(Exists(q) /\ relays'[q].src = relays[q].src)
                          => q = r /\ tx[t].op = "create" /\ relays'[q].src = u
  BY <1>1, <1>11, <1>5, <1>6 DEF Exists, RowStatus
<1>16. OpenTransactions'
  <2> SUFFICES ASSUME NEW s \in Tx PROVE OpenTransaction(s)'
    BY DEF OpenTransactions
  <2>1. CASE s = t
    BY <1>8, <2>1 DEF OpenTransaction, NoTx
  <2>2. CASE s # t
    <3>1. tx'[s] = tx[s] /\ OpenTransaction(s)
      BY <1>0, <1>8, <2>2 DEF OpenTransactions
    <3>2. ASSUME tx[s].op # "none" PROVE tx[s].relay \in RelayId /\ tx[s].relay # r
      BY <1>0, <1>1, <1>2, <1>11, <2>2, <3>1, <3>2
         DEF LockExclusive, OpenTransaction, TypeOK, TxRecord
    <3>3. ASSUME tx[s].key # NoUpdate
          PROVE  tx[s].key = tx[s].src /\ items'[tx[s].src] = NoItem
      <4>1. tx[s].key = tx[s].src /\ items[tx[s].src] = NoItem /\ tx[s].key # u
        BY <1>0, <1>2, <2>2, <3>1, <3>3 DEF OpenTransaction, LockExclusive
      <4>2. tx[s].op # "none"
        BY <3>1, <3>3 DEF OpenTransaction, NoTx
      <4> QED BY <1>7, <3>1, <4>1, <4>2 DEF OpenTransaction
    <3>4. CASE tx[s].op = "add"
      BY <1>6, <1>9, <3>1, <3>2, <3>4, <3>3 DEF OpenTransaction
    <3>5. CASE tx[s].op = "create"
      <4>1. ~SourceTaken(tx[s].src)'
        <5>1. tx[t].op = "create" => u # tx[s].src
          BY <1>0, <1>2, <2>2, <3>5 DEF LockExclusive
        <5> QED BY <1>15, <3>1, <3>5, <5>1 DEF SourceTaken, OpenTransaction
      <4> QED BY <1>6, <3>1, <3>2, <3>5, <3>3, <4>1 DEF OpenTransaction
    <3>6. CASE tx[s].op = "none"
      BY <3>1, <3>6 DEF OpenTransaction, NoTx
    <3>7. tx[s].op \in {"none", "add", "create"}
      BY <1>0 DEF TypeOK, TxRecord
    <3> QED BY <3>4, <3>5, <3>6, <3>7
  <2> QED BY <2>1, <2>2
<1>17. LockExclusive'
  <2>1. NoTx.op = "none" /\ NoTx.key = NoUpdate
    BY DEF NoTx
  <2> QED BY <1>0, <1>8, <2>1 DEF LockExclusive
<1>18. OneRelayPerUpload'
  <2>1. tx[t].op = "create" => ~SourceTaken(u)
    BY <1>1, <1>2 DEF OpenTransaction
  <2> QED BY <1>0, <1>15, <2>1 DEF OneRelayPerUpload, SourceTaken
<1> QED BY <1>10, <1>13, <1>14, <1>16, <1>17, <1>18 DEF StoreInv

-----------------------------------------------------------------------------
(* Deletes.                                                                *)

(* Deleting rows that no append has locked, with their items: a deleted    *)
(* relay is left with no items and the others with all of theirs.          *)
LEMMA DeleteRowsInv ==
    ASSUME StoreInv, NEW S \in SUBSET RelayId,
           \A r \in S : Exists(r) /\ ~Locked(r),
           DeleteRows(S)
    PROVE  StoreInv'
<1>0. /\ TypeOK /\ OrderGapFree /\ BatchWithinLimit /\ ItemsHaveRelay
      /\ OpenTransactions /\ LockExclusive /\ OneRelayPerUpload
  BY DEF StoreInv
<1>1. /\ tx' = tx
      /\ \A q \in RelayId : relays'[q] = IF q \in S THEN DeletedRow(relays[q])
                                                     ELSE relays[q]
      /\ \A u \in Update : items'[u] = IF items[u].relay \in S THEN NoItem
                                                               ELSE items[u]
  BY DEF DeleteRows
<1>2. \A row \in Row : /\ DeletedRow(row) \in Row
                       /\ DeletedRow(row).status = "deleted"
  BY DEF DeletedRow, UnusedRow, Row, RowStatus
<1>3. TypeOK'
  <2>1. relays' \in [RelayId -> Row]
    BY <1>0, <1>2 DEF DeleteRows, TypeOK
  <2>2. items' \in [Update -> Item]
    BY <1>0 DEF DeleteRows, TypeOK, NoItem, Item
  <2> QED BY <1>0, <1>1, <2>1, <2>2 DEF TypeOK
<1>4. \A q \in RelayId : Exists(q)' <=> Exists(q) /\ q \notin S
  BY <1>0, <1>1, <1>2 DEF Exists, TypeOK, RowStatus
<1>5. \A q \in RelayId : q \notin S => relays'[q] = relays[q]
  BY <1>1
<1>6. \A q \in RelayId : q \in S => ItemsOf(q)' = {}
  BY <1>1, NullsAreNotValues DEF ItemsOf, NoItem
<1>7. \A q \in RelayId : q \notin S => ItemsOf(q)' = ItemsOf(q) /\ Orders(q)' = Orders(q)
  <2> TAKE q \in RelayId
  <2> HAVE q \notin S
  <2>1. \A u \in Update : items'[u].relay = q <=> items[u].relay = q
    BY <1>1, NullsAreNotValues DEF NoItem
  <2>2. \A u \in Update : items[u].relay = q => items'[u] = items[u]
    BY <1>1
  <2>3. ItemsOf(q)' = ItemsOf(q)
    BY <2>1 DEF ItemsOf
  <2> QED BY <2>2, <2>3 DEF Orders, ItemsOf
<1>8. ItemsHaveRelay'
  BY <1>0, <1>1, <1>4 DEF ItemsHaveRelay, TypeOK, Item, NoItem
<1>9. OrderGapFree' /\ BatchWithinLimit'
  <2>1. \A q \in RelayId : q \in S =>
            Cardinality(ItemsOf(q)') = 0 /\ Orders(q)' = 1 .. 0
    BY <1>6, FS_EmptySet DEF Orders
  <2>2. \A q \in RelayId : Orders(q)' = 1 .. Cardinality(ItemsOf(q)')
    BY <1>0, <1>7, <2>1 DEF OrderGapFree
  <2>3. \A q \in RelayId : Cardinality(ItemsOf(q)') <= MaxBatchItems
    BY <1>0, <1>7, <2>1, MaxBatchItemsPositive DEF BatchWithinLimit
  <2> QED BY <2>2, <2>3 DEF OrderGapFree, BatchWithinLimit
<1>10. OpenTransactions'
  <2> SUFFICES ASSUME NEW t \in Tx PROVE OpenTransaction(t)'
    BY DEF OpenTransactions
  <2>1. OpenTransaction(t)
    BY <1>0 DEF OpenTransactions
  <2>2. tx[t].op # "none" => tx[t].relay \in RelayId /\ tx[t].relay \notin S
    BY <1>0, <2>1 DEF OpenTransaction, Locked, HoldsRow, Exists, RowStatus, TypeOK, TxRecord
  <2>3. ~SourceTaken(tx[t].src) => ~SourceTaken(tx[t].src)'
    BY <1>1, <1>4, <1>5 DEF SourceTaken
  <2>4. tx[t].key # NoUpdate => items'[tx[t].src] = NoItem
    BY <1>1, <2>1 DEF OpenTransaction, NoTx
  <2> QED BY <1>1, <1>5, <1>7, <2>1, <2>2, <2>3, <2>4 DEF OpenTransaction
<1>11. LockExclusive'
  BY <1>0, <1>1 DEF LockExclusive
<1>12. OneRelayPerUpload'
  BY <1>0, <1>4, <1>5 DEF OneRelayPerUpload
<1> QED BY <1>3, <1>8, <1>9, <1>10, <1>11, <1>12 DEF StoreInv

(* Cancelling a batch, and purging the ones left behind.                   *)
LEMMA DeleteStepInv ==
    ASSUME StoreInv,
           \/ \E r \in RelayId : DeleteRelay(r)
           \/ \E before \in Time : DeleteCollectingRelaysBefore(before)
    PROVE  StoreInv'
<1>1. ASSUME NEW r \in RelayId, DeleteRelay(r) PROVE StoreInv'
  BY <1>1, DeleteRowsInv DEF DeleteRelay
<1>2. ASSUME NEW before \in Time, DeleteCollectingRelaysBefore(before)
      PROVE  StoreInv'
  <2>1. \A r \in StaleCollecting(before) : Exists(r) /\ ~Locked(r)
    BY <1>2 DEF DeleteCollectingRelaysBefore, StaleCollecting, Exists, RowStatus
  <2>2. StaleCollecting(before) \in SUBSET RelayId
    BY DEF StaleCollecting
  <2> QED BY <1>2, <2>1, <2>2, DeleteRowsInv DEF DeleteCollectingRelaysBefore
<1> QED BY <1>1, <1>2

-----------------------------------------------------------------------------
(* The theorems.                                                           *)

(* Every step of the store, and every step that leaves it alone, keeps the *)
(* invariant.                                                              *)
LEMMA NextStoreInv == StoreInv /\ [StoreNext]_storeVars => StoreInv'
<1> SUFFICES ASSUME StoreInv, [StoreNext]_storeVars PROVE StoreInv'
  OBVIOUS
<1>1. ASSUME NEW t \in Tx, TxNext(t) PROVE StoreInv'
  <2>1. ASSUME NEW r \in RelayId, NEW u \in Update, NEW c \in Code,
               NEW chat \in Chat, NEW e \in Time, NEW at \in Time,
               \/ CreateRelay(t, r, u, c, chat, e, at)
               \/ CreateRelayOfFiledUpload(t, r, u, c, chat, e, at)
        PROVE  StoreInv'
    BY <2>1, CreateRelayInv, CreateRelayOfFiledUploadInv
  <2>2. ASSUME NEW r \in RelayId, NEW u \in Update, NEW at \in Time,
               AddRelayItem(t, r, u, at)
        PROVE  StoreInv'
    BY <2>2, AddRelayItemInv
  <2>3. CASE InsertItem(t)
    BY <2>3, InsertItemInv
  <2>4. CASE CommitInsert(t)
    BY <2>4, CommitInsertInv
  <2>5. CASE RollbackInsert(t)
    BY <2>5, RollbackStepInv
  <2> QED BY <1>1, <2>1, <2>2, <2>3, <2>4, <2>5 DEF TxNext
<1>2. CASE StatementNext
  <2>1. ASSUME NEW r \in RelayId, NEW chat \in Chat, NEW at \in Time,
               CreateRelayBatch(r, chat, at)
        PROVE  StoreInv'
    BY <2>1, CreateRelayBatchInv
  <2>2. ASSUME NEW r \in RelayId, NEW c \in Code, NEW e \in Time, NEW at \in Time,
               FinalizeRelayBatch(r, c, e, at)
        PROVE  StoreInv'
    BY <2>2, FinalizeRelayBatchInv
  <2>3. ASSUME NEW now \in Time, ExpireRelays(now) PROVE StoreInv'
    BY <2>3, ExpireRelaysInv
  <2> QED BY <1>2, <2>1, <2>2, <2>3, DeleteStepInv, RollbackStepInv DEF StatementNext
<1>3. CASE UNCHANGED storeVars
  BY <1>3, RollbackInv DEF storeVars, StoreInv, TypeOK
<1> QED BY <1>1, <1>2, <1>3 DEF StoreNext

(* The invariant holds at every moment of every execution of the store.    *)
THEOREM StoreInvAlways == StoreSpec => []StoreInv
<1> QED BY InitStoreInv, NextStoreInv, PTL DEF StoreSpec

(* The tables and the open transactions always have their types.           *)
THEOREM TypeCorrect == StoreSpec => []TypeOK
<1>1. StoreInv => TypeOK
  BY DEF StoreInv
<1> QED BY <1>1, StoreInvAlways, PTL

(* Items of every relay are always numbered 1 to their count: no order is  *)
(* skipped or given twice by concurrent appends (store.go:125, 151).       *)
THEOREM OrdersNeverCollide == StoreSpec => []OrderGapFree
<1>1. StoreInv => OrderGapFree
  BY DEF StoreInv
<1> QED BY <1>1, StoreInvAlways, PTL

(* No interleaving of appends takes a relay over MaxBatchItems items       *)
(* (store.go:137).                                                         *)
THEOREM LimitNeverPassed == StoreSpec => []BatchWithinLimit
<1>1. StoreInv => BatchWithinLimit
  BY DEF StoreInv
<1> QED BY <1>1, StoreInvAlways, PTL

(* No interleaving of creations makes two relays of one upload             *)
(* (store.go:45).                                                          *)
THEOREM UploadNeverDuplicated == StoreSpec => []OneRelayPerUpload
<1>1. StoreInv => OneRelayPerUpload
  BY DEF StoreInv
<1> QED BY <1>1, StoreInvAlways, PTL

-----------------------------------------------------------------------------
(* What a step may never do.                                               *)

(* A row has no code before it is ready.                                   *)
CodeComesWithReady ==
    \A r \in RelayId :
        relays[r].status \in {"unused", "collecting"} => relays[r].code = NoCode

(* Which statuses, and which codes, a row can have after a step: one lemma *)
(* for the whole table, from the guards of each statement.                 *)
RowStep(r) ==
    \/ relays'[r] = relays[r]
    \/ relays[r].status = "unused" /\ relays'[r].status = "ready"
    \/ /\ relays[r].status = "unused" /\ relays'[r].status = "collecting"
       /\ relays'[r].code = NoCode
    \/ /\ relays[r].status = "collecting" /\ relays'[r].status = "collecting"
       /\ relays'[r].code = relays[r].code
    \/ relays[r].status = "collecting" /\ relays'[r].status = "ready"
    \/ /\ relays[r].status = "ready" /\ relays'[r].status = "expired"
       /\ relays'[r].code = relays[r].code
    \/ /\ Exists(r) /\ relays'[r].status = "deleted"
       /\ relays'[r].code = relays[r].code
       /\ ItemsOf(r)' = {}

(* Every step of the store moves each row along its life, or not at all,   *)
(* and changes the items of no row that is ready or expired, except to     *)
(* delete them with it.                                                    *)
LEMMA StepsOfARow ==
    ASSUME StoreInv, [StoreNext]_storeVars, NEW r \in RelayId
    PROVE  /\ RowStep(r)
           /\ relays[r].status \in {"ready", "expired"} /\ relays'[r].status # "deleted"
              => ItemsOf(r)' = ItemsOf(r)
<1> DEFINE Kept == relays[r].status \in {"ready", "expired"} /\ relays'[r].status # "deleted"
                   => ItemsOf(r)' = ItemsOf(r)
<1>0. TypeOK /\ OrderGapFree /\ OpenTransactions
  BY DEF StoreInv
<1>1. ASSUME relays' = relays, items' = items PROVE RowStep(r) /\ Kept
  BY <1>1, SameItems DEF RowStep
<1>2. ASSUME NEW t \in Tx, NEW q \in RelayId, NEW u \in Update, NEW c \in Code,
             NEW chat \in Chat, NEW e \in Time, NEW at \in Time,
             CreateRelayOfFiledUpload(t, q, u, c, chat, e, at)
      PROVE  RowStep(r) /\ Kept
  <2>1. /\ relays[q].status = "unused" /\ items' = items
        /\ relays' = [relays EXCEPT ![q] = ReadyRow(u, c, chat, e, at)]
    BY <1>2 DEF CreateRelayOfFiledUpload, CreateMayInsert, CreatesFrom, FreshId
  <2>2. ReadyRow(u, c, chat, e, at).status = "ready"
    BY DEF ReadyRow
  <2> QED BY <1>0, <2>1, <2>2, SameItems DEF RowStep, TypeOK
<1>3. ASSUME NEW t \in Tx, CommitInsert(t) PROVE RowStep(r) /\ Kept
  <2>1. /\ OpenTransaction(t) /\ tx[t].op \in {"add", "create"}
        /\ tx[t] \in TxRecord
    BY <1>0, <1>3, InsertedItem
  <2>2. PICK q \in RelayId, u \in Update, row \in {CommittedRow(t)} :
            /\ tx[t].relay = q /\ tx[t].src = u /\ CommittedRow(t) = row
            /\ tx[t].key = u /\ items[u] = NoItem
    BY <1>0, <1>3, InsertedItem
  <2>3. /\ items[u] = NoItem
        /\ items' = [items EXCEPT ![u] = [relay |-> q, order |-> tx[t].order]]
        /\ relays' = [relays EXCEPT ![q] = row]
    BY <1>3, <2>2 DEF CommitInsert
  <2>4. CASE r # q
    <3>1. relays'[r] = relays[r]
      BY <1>0, <2>3, <2>4 DEF TypeOK
    <3>2. ItemsOf(r)' = ItemsOf(r)
      BY <1>0, <2>3, <2>4, NullsAreNotValues DEF TypeOK, ItemsOf, NoItem
    <3> QED BY <3>1, <3>2 DEF RowStep
  <2>5. CASE r = q /\ tx[t].op = "create"
    <3>1. row = tx[t].row /\ row.status = "ready" /\ relays[r].status = "unused"
      BY <2>1, <2>2, <2>5 DEF CommittedRow, OpenTransaction
    <3>2. relays'[r] = row
      BY <1>0, <2>3, <2>5 DEF TypeOK
    <3> QED BY <3>1, <3>2 DEF RowStep
  <2>6. CASE r = q /\ tx[t].op = "add"
    <3>1. row = [relays[r] EXCEPT !.updatedAt = tx[t].at]
      BY <2>2, <2>6 DEF CommittedRow
    <3>2. relays[r].status = "collecting" /\ relays[r] \in Row
      BY <1>0, <2>1, <2>2, <2>6 DEF OpenTransaction, TypeOK
    <3>3. row.status = "collecting" /\ row.code = relays[r].code
      BY <3>1, <3>2 DEF Row
    <3>4. relays'[r] = row
      BY <1>0, <2>3, <2>6 DEF TypeOK
    <3> QED BY <3>2, <3>3, <3>4 DEF RowStep
  <2> QED BY <2>1, <2>4, <2>5, <2>6
<1>4. ASSUME NEW q \in RelayId, NEW chat \in Chat, NEW at \in Time,
             CreateRelayBatch(q, chat, at)
      PROVE  RowStep(r) /\ Kept
  <2> DEFINE row == [status |-> "collecting", src |-> NoUpdate, code |-> NoCode,
                     chat |-> chat, expiresAt |-> at, updatedAt |-> at]
  <2>1. /\ relays[q].status = "unused" /\ items' = items
        /\ relays' = [relays EXCEPT ![q] = row]
    BY <1>4 DEF CreateRelayBatch, FreshId
  <2>2. relays'[r] = IF r = q THEN row ELSE relays[r]
    BY <1>0, <2>1 DEF TypeOK
  <2> QED BY <2>1, <2>2, SameItems DEF RowStep
<1>5. ASSUME NEW q \in RelayId, NEW c \in Code, NEW e \in Time, NEW at \in Time,
             FinalizeRelayBatch(q, c, e, at)
      PROVE  RowStep(r) /\ Kept
  <2>1. /\ relays[q].status = "collecting" /\ items' = items
        /\ relays' = [relays EXCEPT ![q].status = "ready", ![q].code = c,
                                    ![q].expiresAt = e, ![q].updatedAt = at]
    BY <1>5 DEF FinalizeRelayBatch, FinalizeMatches
  <2>2. relays'[q].status = "ready" /\ (r # q => relays'[r] = relays[r])
    BY <1>0, <2>1 DEF TypeOK, Row
  <2> QED BY <2>1, <2>2, SameItems DEF RowStep
<1>6. ASSUME NEW S \in SUBSET RelayId, \A q \in S : Exists(q), DeleteRows(S)
      PROVE  RowStep(r) /\ Kept
  <2>1. /\ relays'[r] = IF r \in S THEN DeletedRow(relays[r]) ELSE relays[r]
        /\ \A u \in Update : items'[u] = IF items[u].relay \in S THEN NoItem
                                                                 ELSE items[u]
    BY <1>6 DEF DeleteRows
  <2>2. CASE r \in S
    <3>1. relays'[r].status = "deleted" /\ relays'[r].code = relays[r].code
      BY <2>1, <2>2 DEF DeletedRow
    <3>2. ItemsOf(r)' = {}
      BY <2>1, <2>2, NullsAreNotValues DEF ItemsOf, NoItem
    <3> QED BY <1>6, <2>2, <3>1, <3>2 DEF RowStep
  <2>3. CASE r \notin S
    <3>1. ItemsOf(r)' = ItemsOf(r)
      BY <2>1, <2>3, NullsAreNotValues DEF ItemsOf, NoItem
    <3> QED BY <2>1, <2>3, <3>1 DEF RowStep
  <2> QED BY <2>2, <2>3
<1>7. ASSUME NEW now \in Time, ExpireRelays(now) PROVE RowStep(r) /\ Kept
  <2>1. /\ items' = items
        /\ relays'[r] = IF relays[r].status = "ready" /\ Due(r, now)
                        THEN [relays[r] EXCEPT !.status = "expired", !.updatedAt = now]
                        ELSE relays[r]
    BY <1>7 DEF ExpireRelays
  <2>2. relays[r].status = "ready" /\ Due(r, now) =>
            relays'[r].status = "expired" /\ relays'[r].code = relays[r].code
    BY <1>0, <2>1 DEF TypeOK, Row
  <2> QED BY <2>1, <2>2, SameItems DEF RowStep
<1>8. ASSUME NEW t \in Tx, TxNext(t) PROVE RowStep(r) /\ Kept
  BY <1>1, <1>2, <1>3, <1>8
     DEF TxNext, CreateRelay, AddRelayItem, InsertItem, RollbackInsert
<1>9. CASE StatementNext
  <2>1. ASSUME NEW q \in RelayId, DeleteRelay(q) PROVE RowStep(r) /\ Kept
    BY <1>6, <2>1 DEF DeleteRelay
  <2>2. ASSUME NEW before \in Time, DeleteCollectingRelaysBefore(before)
        PROVE  RowStep(r) /\ Kept
    <3>1. /\ StaleCollecting(before) \in SUBSET RelayId
          /\ \A q \in StaleCollecting(before) : Exists(q)
      BY DEF StaleCollecting, Exists, RowStatus
    <3> QED BY <1>6, <2>2, <3>1 DEF DeleteCollectingRelaysBefore
  <2> QED BY <1>1, <1>4, <1>5, <1>7, <1>9, <2>1, <2>2
          DEF StatementNext, RollbackAll
<1> QED BY <1>1, <1>8, <1>9 DEF StoreNext, storeVars

(* Once finished, a batch keeps its files until it is deleted: no append   *)
(* that overlaps FinalizeRelayBatch can slip one in after it               *)
(* (store.go:125, 279).                                                    *)
THEOREM SealedContentsStayFrozen == StoreSpec => SealedContentsFrozen
<1> DEFINE Frozen == \A r \in RelayId :
          relays[r].status \in {"ready", "expired"} /\ relays'[r].status # "deleted"
          => ItemsOf(r)' = ItemsOf(r)
<1>1. StoreInv /\ [StoreNext]_storeVars => [Frozen]_storeVars
  BY StepsOfARow
<1> QED BY <1>1, StoreInvAlways, PTL DEF StoreSpec, SealedContentsFrozen

(* A relay that is not ready yet has no code, at every moment.             *)
LEMMA CodeComesWithReadyAlways == StoreSpec => []CodeComesWithReady
<1>1. StoreInit => CodeComesWithReady
  BY DEF StoreInit, CodeComesWithReady, UnusedRow
<1>2. StoreInv /\ CodeComesWithReady /\ [StoreNext]_storeVars => CodeComesWithReady'
  BY StepsOfARow DEF CodeComesWithReady, RowStep, Exists, RowStatus
<1> QED BY <1>1, <1>2, StoreInvAlways, PTL DEF StoreSpec

(* No step takes a relay back to an earlier status, and none replaces a    *)
(* code already given (store.go:279, 467).                                 *)
THEOREM LivesOnlyGoForward == StoreSpec => LifeOnlyForward
<1> DEFINE Forward == \A r \in RelayId :
          /\ relays[r].code # NoCode => relays'[r].code = relays[r].code
          /\ relays[r].status = "ready" => relays'[r].status # "collecting"
          /\ relays[r].status = "expired" => relays'[r].status \in {"expired", "deleted"}
          /\ relays[r].status = "deleted" => relays'[r].status = "deleted"
<1>1. StoreInv /\ CodeComesWithReady /\ [StoreNext]_storeVars => [Forward]_storeVars
  BY StepsOfARow DEF CodeComesWithReady, RowStep, Exists, RowStatus
<1> QED BY <1>1, StoreInvAlways, CodeComesWithReadyAlways, PTL
        DEF StoreSpec, LifeOnlyForward

-----------------------------------------------------------------------------
(* What callers rely on of the store: its codes, and how a row can change. *)

(* A code leads to one relay, now and for ever: no two relays, deleted     *)
(* ones and those about to be committed included, have the same.           *)
CodesUnique ==
    /\ \A q, r \in RelayId :
          relays[q].code = relays[r].code /\ relays[r].code # NoCode => q = r
    /\ \A t \in Tx : tx[t].op = "create" =>
          /\ tx[t].row.code \in Code
          /\ \A r \in RelayId : relays[r].code # tx[t].row.code
          /\ \A s \in Tx : tx[s].op = "create" /\ tx[s].row.code = tx[t].row.code => s = t

(* A row that has a code keeps it, and its expiry. *)
RowKept(r) ==
    relays[r].code # NoCode =>
        relays'[r].code = relays[r].code /\ relays'[r].expiresAt = relays[r].expiresAt

RowsKept == \A r \in RelayId : RowKept(r)

LEMMA CodesStayUnique ==
    ASSUME StoreInv, CodeComesWithReady, CodesUnique, [StoreNext]_storeVars
    PROVE  CodesUnique' /\ RowsKept
<1> DEFINE Kept == CodesUnique' /\ RowsKept
<1>0. TypeOK /\ OpenTransactions
  BY DEF StoreInv
<1>1. ASSUME relays' = relays,
             \A t \in Tx : tx'[t] = tx[t] \/ tx'[t].op # "create"
      PROVE  Kept
  BY <1>1 DEF CodesUnique, RowsKept, RowKept
<1>2. ASSUME tx' = tx,
             \A r \in RelayId : relays'[r].code = relays[r].code
                                /\ relays'[r].expiresAt = relays[r].expiresAt
      PROVE  Kept
  BY <1>2 DEF CodesUnique, RowsKept, RowKept
<1>3. ASSUME NEW q \in RelayId, relays[q].status \in {"unused", "collecting"}, tx' = tx,
             \A r \in RelayId \ {q} : relays'[r] = relays[r],
             relays'[q].code = NoCode \/ (relays'[q].code \in Code /\ FreshCode(relays'[q].code))
      PROVE  Kept
  <2>1. relays[q].code = NoCode
    BY <1>3 DEF CodeComesWithReady
  <2>2. NoCode \notin Code
    BY NullsAreNotValues
  <2> QED BY <1>3, <2>1, <2>2 DEF CodesUnique, RowsKept, RowKept, FreshCode
<1>4. ASSUME NEW t \in Tx, NEW r \in RelayId, NEW u \in Update, NEW c \in Code,
             NEW chat \in Chat, NEW e \in Time, NEW at \in Time,
             CreateRelay(t, r, u, c, chat, e, at)
      PROVE  Kept
  <2>1. /\ relays' = relays /\ FreshCode(c) /\ tx'[t].op = "create" /\ tx'[t].row.code = c
        /\ \A s \in Tx \ {t} : tx'[s] = tx[s]
    BY <1>0, <1>4 DEF CreateRelay, CreateMayInsert, CreatesFrom, ReadyRow, TypeOK
  <2> QED BY <2>1 DEF CodesUnique, RowsKept, RowKept, FreshCode
<1>5. ASSUME NEW t \in Tx, NEW q \in RelayId, NEW u \in Update, NEW c \in Code,
             NEW chat \in Chat, NEW e \in Time, NEW at \in Time,
             CreateRelayOfFiledUpload(t, q, u, c, chat, e, at)
      PROVE  Kept
  <2>1. /\ relays[q].status = "unused" /\ tx' = tx /\ FreshCode(c)
        /\ relays' = [relays EXCEPT ![q] = ReadyRow(u, c, chat, e, at)]
    BY <1>5 DEF CreateRelayOfFiledUpload, CreateMayInsert, CreatesFrom, FreshId
  <2>2. relays'[q].code = c /\ \A r \in RelayId \ {q} : relays'[r] = relays[r]
    BY <1>0, <2>1 DEF ReadyRow, TypeOK
  <2> QED BY <1>3, <2>1, <2>2
<1>6. ASSUME NEW t \in Tx, CommitInsert(t) PROVE Kept
  <2>1. /\ OpenTransaction(t) /\ tx[t].op \in {"add", "create"}
        /\ tx[t] \in TxRecord
    BY <1>0, <1>6, InsertedItem DEF StoreInv
  <2>2. PICK q \in RelayId, row \in {CommittedRow(t)} :
            tx[t].relay = q /\ CommittedRow(t) = row
    BY <1>0, <1>6, InsertedItem DEF StoreInv
  <2>3. /\ relays' = [relays EXCEPT ![q] = row]
        /\ tx' = [tx EXCEPT ![t] = NoTx]
    BY <1>6, <2>2 DEF CommitInsert, Released
  <2>4. /\ relays'[q] = row /\ \A r \in RelayId \ {q} : relays'[r] = relays[r]
        /\ tx'[t] = NoTx /\ \A s \in Tx \ {t} : tx'[s] = tx[s]
    BY <1>0, <2>3 DEF TypeOK
  <2>5. CASE tx[t].op = "create"
    <3>1. row = tx[t].row /\ relays[q].status = "unused"
      BY <2>1, <2>2, <2>5 DEF CommittedRow, OpenTransaction
    <3>2. relays[q].code = NoCode /\ NoCode \notin Code
      BY <3>1, NullsAreNotValues DEF CodeComesWithReady
    <3> QED BY <2>4, <2>5, <3>1, <3>2 DEF CodesUnique, RowsKept, RowKept, NoTx
  <2>6. CASE tx[t].op = "add"
    <3>1. row = [relays[q] EXCEPT !.updatedAt = tx[t].at] /\ relays[q] \in Row
      BY <1>0, <2>2, <2>6 DEF CommittedRow, TypeOK
    <3>2. row.code = relays[q].code /\ row.expiresAt = relays[q].expiresAt
      BY <3>1 DEF Row
    <3> QED BY <2>4, <2>6, <3>2 DEF CodesUnique, RowsKept, RowKept, NoTx
  <2> QED BY <2>1, <2>5, <2>6
<1>7. ASSUME NEW q \in RelayId, NEW chat \in Chat, NEW at \in Time,
             CreateRelayBatch(q, chat, at)
      PROVE  Kept
  <2> DEFINE row == [status |-> "collecting", src |-> NoUpdate, code |-> NoCode,
                     chat |-> chat, expiresAt |-> at, updatedAt |-> at]
  <2>1. /\ relays[q].status = "unused" /\ tx' = tx
        /\ relays' = [relays EXCEPT ![q] = row]
    BY <1>7 DEF CreateRelayBatch, FreshId
  <2>2. relays'[q].code = NoCode /\ \A r \in RelayId \ {q} : relays'[r] = relays[r]
    BY <1>0, <2>1 DEF TypeOK
  <2> QED BY <1>3, <2>1, <2>2
<1>8. ASSUME NEW q \in RelayId, NEW c \in Code, NEW e \in Time, NEW at \in Time,
             FinalizeRelayBatch(q, c, e, at)
      PROVE  Kept
  <2>1. /\ relays[q].status = "collecting" /\ tx' = tx /\ FreshCode(c)
        /\ relays' = [relays EXCEPT ![q].status = "ready", ![q].code = c,
                                    ![q].expiresAt = e, ![q].updatedAt = at]
    BY <1>8 DEF FinalizeRelayBatch, FinalizeMatches
  <2>2. relays'[q].code = c /\ \A r \in RelayId \ {q} : relays'[r] = relays[r]
    BY <1>0, <2>1 DEF TypeOK, Row
  <2> QED BY <1>3, <2>1, <2>2
<1>9. ASSUME NEW S \in SUBSET RelayId, DeleteRows(S) PROVE Kept
  <2>1. /\ tx' = tx
        /\ \A r \in RelayId : relays'[r].code = relays[r].code
                              /\ relays'[r].expiresAt = relays[r].expiresAt
    BY <1>9 DEF DeleteRows, DeletedRow
  <2> QED BY <1>2, <2>1
<1>10. ASSUME NEW now \in Time, ExpireRelays(now) PROVE Kept
  <2>1. /\ tx' = tx
        /\ \A r \in RelayId : relays[r] \in Row /\ relays'[r] =
               IF relays[r].status = "ready" /\ Due(r, now)
               THEN [relays[r] EXCEPT !.status = "expired", !.updatedAt = now]
               ELSE relays[r]
    BY <1>0, <1>10 DEF ExpireRelays, TypeOK
  <2>2. \A r \in RelayId : relays'[r].code = relays[r].code
                           /\ relays'[r].expiresAt = relays[r].expiresAt
    BY <2>1 DEF Row
  <2> QED BY <1>2, <2>1, <2>2
<1>11. ASSUME NEW t \in Tx, NEW r \in RelayId, NEW u \in Update, NEW at \in Time,
              AddRelayItem(t, r, u, at)
       PROVE  Kept
  <2>1. relays' = relays /\ \A s \in Tx : tx'[s] = tx[s] \/ tx'[s].op # "create"
    BY <1>0, <1>11 DEF AddRelayItem, TypeOK
  <2> QED BY <1>1, <2>1
<1>12. ASSUME NEW t \in Tx, RollbackInsert(t) PROVE Kept
  <2>1. relays' = relays /\ \A s \in Tx : tx'[s] = tx[s] \/ tx'[s].op # "create"
    BY <1>0, <1>12 DEF RollbackInsert, Released, NoTx, TypeOK
  <2> QED BY <1>1, <2>1
<1>13. ASSUME NEW t \in Tx, InsertItem(t) PROVE Kept
  <2>1. relays' = relays /\ \A s \in Tx : tx'[s].op = tx[s].op /\ tx'[s].row = tx[s].row
    BY <1>0, <1>13 DEF InsertItem, TypeOK, TxRecord
  <2> QED BY <2>1 DEF CodesUnique, RowsKept, RowKept
<1>14. ASSUME NEW t \in Tx, TxNext(t) PROVE Kept
  BY <1>4, <1>5, <1>6, <1>11, <1>12, <1>14, <1>13 DEF TxNext
<1>15. CASE StatementNext
  <2>1. CASE RollbackAll
    BY <1>1, <2>1 DEF RollbackAll, NoTx
  <2>2. ASSUME NEW before \in Time, DeleteCollectingRelaysBefore(before) PROVE Kept
    BY <1>9, <2>2 DEF DeleteCollectingRelaysBefore, StaleCollecting
  <2> QED BY <1>7, <1>8, <1>9, <1>10, <1>15, <2>1, <2>2 DEF StatementNext, DeleteRelay
<1>16. CASE UNCHANGED storeVars
  BY <1>1, <1>16 DEF storeVars
<1> QED BY <1>14, <1>15, <1>16 DEF StoreNext

(* The facts about the store that everything below relies on. *)
StoreFacts == StoreInv /\ CodeComesWithReady /\ CodesUnique

LEMMA StoreFactsInit == StoreInit => StoreFacts
<1> SUFFICES ASSUME StoreInit PROVE StoreFacts
  OBVIOUS
<1>1. StoreInv
  BY InitStoreInv
<1>2. CodeComesWithReady /\ CodesUnique
  BY DEF StoreInit, CodeComesWithReady, CodesUnique, UnusedRow, NoTx
<1> QED BY <1>1, <1>2 DEF StoreFacts

(* How a step of the store can change one row. *)
RowLife(r) ==
    /\ RowKept(r)
    /\ relays[r].status = "deleted" => relays'[r].status = "deleted"
    /\ relays[r].status = "expired" => relays'[r].status \in {"expired", "deleted"}
    /\ relays[r].status = "ready" => relays'[r].status \in {"ready", "expired", "deleted"}
    /\ relays'[r].status \in {"unused", "collecting"} =>
          relays[r].status \in {"unused", "collecting"}
    /\ Exists(r) /\ relays[r].code # NoCode /\ Exists(r)' => ItemsOf(r)' = ItemsOf(r)

LEMMA StoreFactsStep ==
    ASSUME StoreFacts, [StoreNext]_storeVars
    PROVE  StoreFacts' /\ \A r \in RelayId : RowLife(r)
<1>0. StoreInv /\ CodeComesWithReady /\ CodesUnique
  BY DEF StoreFacts
<1>1. StoreInv'
  BY <1>0, NextStoreInv
<1>2. CodesUnique' /\ RowsKept
  BY <1>0, CodesStayUnique
<1>3. \A r \in RelayId :
          /\ RowStep(r)
          /\ relays[r].status \in {"ready", "expired"} /\ relays'[r].status # "deleted"
             => ItemsOf(r)' = ItemsOf(r)
  BY <1>0, StepsOfARow
<1>4. CodeComesWithReady'
  BY <1>0, <1>3 DEF CodeComesWithReady, RowStep, Exists, RowStatus
<1>5. ASSUME NEW r \in RelayId PROVE RowLife(r)
  <2>1. RowStep(r) /\ RowKept(r)
    BY <1>2, <1>3 DEF RowsKept
  <2>2. Exists(r) /\ relays[r].code # NoCode => relays[r].status \in {"ready", "expired"}
    BY <1>0 DEF CodeComesWithReady, Exists, RowStatus
  <2> QED BY <1>3, <2>1, <2>2 DEF RowLife, RowStep, Exists, RowStatus
<1> QED BY <1>1, <1>2, <1>4, <1>5 DEF StoreFacts

-----------------------------------------------------------------------------
(* The files of a relay as a sequence. *)

(* Append, as a function. *)
LEMMA AppendDef ==
    ASSUME NEW s \in Seq(Update), NEW u \in Update
    PROVE  Append(s, u) = [i \in 1 .. Len(s) + 1 |-> IF i = Len(s) + 1 THEN u ELSE s[i]]
<1>1. /\ Append(s, u) \in Seq(Update) /\ Len(Append(s, u)) = Len(s) + 1
      /\ \A i \in 1 .. Len(s) : Append(s, u)[i] = s[i]
      /\ Append(s, u)[Len(s) + 1] = u
  BY AppendProperties
<1>2. Append(s, u) = [i \in 1 .. Len(s) + 1 |-> Append(s, u)[i]]
  BY <1>1, LenProperties
<1>3. Len(s) \in Nat
  OBVIOUS
<1> QED BY <1>1, <1>2, <1>3

(* n files numbered 1 .. n have n different numbers. *)
LEMMA OrdersDistinct ==
    ASSUME NEW S, NEW it, IsFiniteSet(S),
           {it[u].order : u \in S} = 1 .. Cardinality(S),
           NEW u \in S, NEW v \in S, it[u].order = it[v].order
    PROVE  u = v
<1> DEFINE n == Cardinality(S)
           f == [w \in S |-> it[w].order]
<1>1. n \in Nat
  BY FS_CardinalityType
<1>2. IsFiniteSet(1 .. n) /\ Cardinality(1 .. n) = n
  BY <1>1, FS_Interval
<1>3. f \in Surjection(S, 1 .. n)
  BY DEF Surjection
<1>4. f \in Injection(S, 1 .. n)
  <2> HIDE DEF f, n
  <2>1. Cardinality(S) = Cardinality(1 .. n)
    BY <1>2 DEF n
  <2> QED BY <1>3, <2>1, FS_SurjSameCardinalityImpliesInj
<1>5. f[u] = f[v] => u = v
  BY <1>4 DEF Injection, IsInjective
<1> QED BY <1>5

(* So a number leads to the one file that has it. *)
LEMMA FileAtOrder ==
    ASSUME NEW S, NEW it, IsFiniteSet(S),
           {it[u].order : u \in S} = 1 .. Cardinality(S),
           NEW u \in S
    PROVE  (CHOOSE v \in S : it[v].order = it[u].order) = u
<1> DEFINE w == CHOOSE v \in S : it[v].order = it[u].order
<1>1. w \in S /\ it[w].order = it[u].order
  OBVIOUS
<1> QED BY <1>1, OrdersDistinct

(* Each place of the sequence holds the file of that number. *)
LEMMA FilesAreItems ==
    ASSUME StoreInv, NEW r \in RelayId
    PROVE  /\ FilesOf(r) \in Seq(Update)
           /\ Len(FilesOf(r)) = Cardinality(ItemsOf(r))
           /\ Cardinality(ItemsOf(r)) \in Nat
           /\ \A i \in 1 .. Cardinality(ItemsOf(r)) :
                 /\ FilesOf(r)[i] \in ItemsOf(r)
                 /\ items[FilesOf(r)[i]].order = i
           /\ \A u \in ItemsOf(r) :
                 /\ items[u].order \in 1 .. Cardinality(ItemsOf(r))
                 /\ FilesOf(r)[items[u].order] = u
<1> DEFINE n == Cardinality(ItemsOf(r))
<1>1. n \in Nat /\ IsFiniteSet(ItemsOf(r)) /\ ItemsOf(r) \subseteq Update
  BY ItemsFinite DEF ItemsOf
<1>2. {items[u].order : u \in ItemsOf(r)} = 1 .. n
  BY DEF StoreInv, OrderGapFree, Orders
<1>3. ASSUME NEW i \in 1 .. n
      PROVE  FilesOf(r)[i] \in ItemsOf(r) /\ items[FilesOf(r)[i]].order = i
  <2>1. \E u \in ItemsOf(r) : items[u].order = i
    BY <1>2, <1>3
  <2>2. FilesOf(r)[i] = CHOOSE u \in ItemsOf(r) : items[u].order = i
    BY <1>3 DEF FilesOf
  <2> QED BY <2>1, <2>2
<1>4. FilesOf(r) \in [1 .. n -> Update]
  <2>1. DOMAIN FilesOf(r) = 1 .. n /\ FilesOf(r) = [i \in 1 .. n |-> FilesOf(r)[i]]
    BY DEF FilesOf
  <2> HIDE DEF n
  <2> QED BY <1>1, <1>3, <2>1
<1>5. FilesOf(r) \in Seq(Update) /\ Len(FilesOf(r)) = n
  <2> HIDE DEF n
  <2> QED BY <1>1, <1>4
<1>6. ASSUME NEW u \in ItemsOf(r)
      PROVE  items[u].order \in 1 .. n /\ FilesOf(r)[items[u].order] = u
  <2>1. items[u].order \in 1 .. n
    BY <1>2, <1>6
  <2>2. FilesOf(r)[items[u].order] = CHOOSE v \in ItemsOf(r) : items[v].order = items[u].order
    BY <2>1 DEF FilesOf
  <2> QED BY <1>1, <1>2, <2>1, <2>2, FileAtOrder
<1> QED BY <1>1, <1>3, <1>5, <1>6

(* Of a relay whose items stay, the files stay. *)
LEMMA SameFiles ==
    ASSUME StoreInv, StoreInv', NEW r \in RelayId,
           ItemsOf(r)' = ItemsOf(r), \A u \in ItemsOf(r) : items'[u] = items[u]
    PROVE  FilesOf(r)' = FilesOf(r)
<1> DEFINE n == Cardinality(ItemsOf(r))
<1>1. IsFiniteSet(ItemsOf(r)) /\ {items'[u].order : u \in ItemsOf(r)} = 1 .. n
  BY ItemsFinite DEF StoreInv, OrderGapFree, Orders
<1>2. ASSUME NEW i \in 1 .. n
      PROVE  (CHOOSE u \in ItemsOf(r) : items'[u].order = i) = FilesOf(r)[i]
  <2>1. /\ FilesOf(r)[i] \in ItemsOf(r) /\ items'[FilesOf(r)[i]].order = i
    BY <1>2, FilesAreItems
  <2> QED BY <1>1, <2>1, FileAtOrder
<1>3. FilesOf(r)' = [i \in 1 .. n |-> CHOOSE u \in ItemsOf(r) : items'[u].order = i]
  BY DEF FilesOf
<1>4. FilesOf(r) = [i \in 1 .. n |-> FilesOf(r)[i]]
  BY DEF FilesOf
<1> QED BY <1>2, <1>3, <1>4

(* A file that gets the next number comes last. *)
LEMMA FileAppended ==
    ASSUME StoreInv, StoreInv', NEW r \in RelayId, NEW u \in Update,
           u \notin ItemsOf(r), ItemsOf(r)' = ItemsOf(r) \cup {u},
           \A v \in ItemsOf(r) : items'[v] = items[v],
           items'[u].order = Cardinality(ItemsOf(r)) + 1
    PROVE  FilesOf(r)' = Append(FilesOf(r), u)
<1> DEFINE n == Cardinality(ItemsOf(r))
           S == ItemsOf(r) \cup {u}
<1>1. n \in Nat /\ IsFiniteSet(ItemsOf(r))
  BY ItemsFinite
<1>2. IsFiniteSet(S) /\ Cardinality(S) = n + 1
  BY <1>1, FS_AddElement
<1>3. {items'[v].order : v \in S} = 1 .. Cardinality(S)
  BY DEF StoreInv, OrderGapFree, Orders
<1>4. FilesOf(r)' = [i \in 1 .. n + 1 |-> CHOOSE v \in S : items'[v].order = i]
  BY <1>2 DEF FilesOf
<1>5. ASSUME NEW i \in 1 .. n
      PROVE  (CHOOSE v \in S : items'[v].order = i) = FilesOf(r)[i]
  <2>1. FilesOf(r)[i] \in S /\ items'[FilesOf(r)[i]].order = i
    BY <1>5, FilesAreItems
  <2> HIDE DEF S
  <2> QED BY <1>2, <1>3, <2>1, FileAtOrder
<1>6. (CHOOSE v \in S : items'[v].order = n + 1) = u
  <2>1. u \in S /\ items'[u].order = n + 1
    OBVIOUS
  <2> HIDE DEF S
  <2> QED BY <1>2, <1>3, <2>1, FileAtOrder
<1>7. /\ FilesOf(r) \in Seq(Update) /\ Len(FilesOf(r)) = n
  BY FilesAreItems
<1>8. Append(FilesOf(r), u) = [i \in 1 .. n + 1 |-> IF i = n + 1 THEN u ELSE FilesOf(r)[i]]
  BY <1>7, AppendDef
<1>9. \A i \in 1 .. n + 1 : (CHOOSE v \in S : items'[v].order = i)
                           = IF i = n + 1 THEN u ELSE FilesOf(r)[i]
  <2> HIDE DEF n, S
  <2> QED BY <1>1, <1>5, <1>6
<1> QED BY <1>4, <1>8, <1>9

(* The box says of an upload that it is filed when the store has its row. *)
LEMMA FiledInBox ==
    ASSUME StoreInv, NEW u \in Update
    PROVE  Box!Filed(u) <=> items[u] # NoItem
<1>1. ASSUME NEW r \in RelayId, NEW i \in DOMAIN FilesOf(r), FilesOf(r)[i] = u
      PROVE  items[u] # NoItem
  <2>1. i \in 1 .. Cardinality(ItemsOf(r))
    BY <1>1 DEF FilesOf
  <2>2. u \in ItemsOf(r)
    BY <1>1, <2>1, FilesAreItems
  <2> QED BY <2>2, NullsAreNotValues DEF ItemsOf, NoItem
<1>2. ASSUME items[u] # NoItem
      PROVE  \E r \in RelayId : \E i \in DOMAIN FilesOf(r) : FilesOf(r)[i] = u
  <2>1. items[u].relay \in RelayId
    BY <1>2 DEF StoreInv, TypeOK, Item, ItemsHaveRelay
  <2>2. u \in ItemsOf(items[u].relay)
    BY DEF ItemsOf
  <2>3. /\ items[u].order \in 1 .. Cardinality(ItemsOf(items[u].relay))
        /\ FilesOf(items[u].relay)[items[u].order] = u
    BY <2>1, <2>2, FilesAreItems
  <2>4. DOMAIN FilesOf(items[u].relay) = 1 .. Cardinality(ItemsOf(items[u].relay))
    BY DEF FilesOf
  <2> QED BY <2>1, <2>3, <2>4
<1> QED BY <1>1, <1>2 DEF Box!Filed

-----------------------------------------------------------------------------
(* Steps. *)

(* A statement or transaction that files nothing and removes nothing. *)
LEMMA FilesStay ==
    ASSUME StoreInv, StoreInv', items' = items, NEW r \in RelayId
    PROVE  FilesOf(r)' = FilesOf(r)
<1>1. ItemsOf(r)' = ItemsOf(r)
  BY DEF ItemsOf
<1> QED BY <1>1, SameFiles

(* CreateRelayBatch opens the box. *)
LEMMA CreateBatchOpens ==
    ASSUME StoreFacts, StoreFacts', NEW r \in RelayId, NEW chat \in Chat, NEW at \in Time,
           CreateRelayBatch(r, chat, at)
    PROVE  Box!Open(r)
<1> DEFINE row == [status |-> "collecting", src |-> NoUpdate, code |-> NoCode,
                   chat |-> chat, expiresAt |-> at, updatedAt |-> at]
<1>1. /\ relays[r].status = "unused" /\ relays[r].code = NoCode /\ items' = items
      /\ relays' = [relays EXCEPT ![r] = row]
  BY DEF CreateRelayBatch, FreshId, StoreFacts, CodeComesWithReady
<1>2. \A q \in RelayId : relays'[q] = IF q = r THEN row ELSE relays[q]
  BY <1>1 DEF StoreFacts, StoreInv, TypeOK
<1>3. \A q \in RelayId : /\ relays'[q].status = IF q = r THEN "collecting" ELSE relays[q].status
                         /\ relays'[q].code = relays[q].code
  BY <1>1, <1>2
<1>4. \A q \in RelayId : FilesOf(q)' = FilesOf(q)
  BY <1>1, FilesStay DEF StoreFacts
<1> HIDE DEF row
<1> QED BY <1>1, <1>3, <1>4 DEF Box!Open

(* FinalizeRelayBatch seals it: it matches only a collecting row, and the  *)
(* code is a new one.                                                      *)
LEMMA FinalizeSeals ==
    ASSUME StoreFacts, StoreFacts', NEW r \in RelayId, NEW c \in Code,
           NEW e \in Time, NEW at \in Time, FinalizeRelayBatch(r, c, e, at)
    PROVE  Box!Seal(r, c)
<1>1. /\ relays[r].status = "collecting" /\ FreshCode(c) /\ items' = items
      /\ relays' = [relays EXCEPT ![r].status = "ready", ![r].code = c,
                                  ![r].expiresAt = e, ![r].updatedAt = at]
  BY DEF FinalizeRelayBatch, FinalizeMatches
<1>2. /\ relays'[r].status = "ready" /\ relays'[r].code = c
      /\ \A q \in RelayId \ {r} : relays'[q] = relays[q]
  BY <1>1 DEF StoreFacts, StoreInv, TypeOK, Row
<1>3. \A q \in RelayId : FilesOf(q)' = FilesOf(q)
  BY <1>1, FilesStay DEF StoreFacts
<1>4. Box!NewCode(c)
  BY <1>1 DEF Box!NewCode, FreshCode
<1>5. \A q \in RelayId : /\ relays'[q].status = IF q = r THEN "ready" ELSE relays[q].status
                         /\ relays'[q].code = IF q = r THEN c ELSE relays[q].code
  BY <1>2
<1> QED BY <1>1, <1>3, <1>4, <1>5 DEF Box!Seal

(* CreateRelay of an upload that is filed elsewhere publishes an empty box. *)
LEMMA CreateOfFiledPublishes ==
    ASSUME StoreFacts, StoreFacts', NEW t \in Tx, NEW r \in RelayId, NEW u \in Update,
           NEW c \in Code, NEW chat \in Chat, NEW e \in Time, NEW at \in Time,
           CreateRelayOfFiledUpload(t, r, u, c, chat, e, at)
    PROVE  Box!Publish(r, u, c)
<1>1. /\ relays[r].status = "unused" /\ FreshCode(c) /\ items[u] # NoItem /\ items' = items
      /\ relays' = [relays EXCEPT ![r] = ReadyRow(u, c, chat, e, at)]
  BY DEF CreateRelayOfFiledUpload, CreateMayInsert, CreatesFrom, FreshId
<1>2. /\ relays'[r].status = "ready" /\ relays'[r].code = c
      /\ \A q \in RelayId \ {r} : relays'[q] = relays[q]
  BY <1>1 DEF StoreFacts, StoreInv, TypeOK, ReadyRow
<1>3. \A q \in RelayId : FilesOf(q)' = FilesOf(q)
  BY <1>1, FilesStay DEF StoreFacts
<1>4. Box!NewCode(c) /\ Box!Filed(u)
  BY <1>1, FiledInBox DEF Box!NewCode, FreshCode, StoreFacts
<1>5. \A q \in RelayId : /\ relays'[q].status = IF q = r THEN "ready" ELSE relays[q].status
                         /\ relays'[q].code = IF q = r THEN c ELSE relays[q].code
  BY <1>2
<1> QED BY <1>1, <1>3, <1>4, <1>5 DEF Box!Publish

(* ExpireRelays expires boxes, all that are due. *)
LEMMA ExpireExpires ==
    ASSUME StoreFacts, StoreFacts', NEW now \in Time, ExpireRelays(now)
    PROVE  \E S \in SUBSET RelayId : Box!Expire(S)
<1> DEFINE S == {r \in RelayId : relays[r].status = "ready" /\ Due(r, now)}
<1>1. /\ items' = items
      /\ \A r \in RelayId : relays'[r] =
             IF relays[r].status = "ready" /\ Due(r, now)
             THEN [relays[r] EXCEPT !.status = "expired", !.updatedAt = now]
             ELSE relays[r]
  BY DEF ExpireRelays
<1>2. \A r \in RelayId : /\ relays'[r].status = IF r \in S THEN "expired" ELSE relays[r].status
                         /\ relays'[r].code = relays[r].code
  BY <1>1 DEF StoreFacts, StoreInv, TypeOK, Row
<1>3. \A r \in RelayId : FilesOf(r)' = FilesOf(r)
  BY <1>1, FilesStay DEF StoreFacts
<1>4. S \in SUBSET RelayId /\ \A r \in S : relays[r].status = "ready"
  OBVIOUS
<1> HIDE DEF S
<1> QED BY <1>2, <1>3, <1>4 DEF Box!Expire

(* A DELETE and its cascade discard boxes with their files. *)
LEMMA DeleteDiscards ==
    ASSUME StoreFacts, StoreFacts', NEW S \in SUBSET RelayId,
           \A r \in S : Exists(r), DeleteRows(S)
    PROVE  Box!Discard(S)
<1>1. /\ \A r \in RelayId : relays'[r] = IF r \in S THEN DeletedRow(relays[r]) ELSE relays[r]
      /\ \A u \in Update : items'[u] = IF items[u].relay \in S THEN NoItem ELSE items[u]
  BY DEF DeleteRows
<1>2. \A r \in RelayId : /\ relays'[r].status = IF r \in S THEN "deleted" ELSE relays[r].status
                         /\ relays'[r].code = relays[r].code
  <2>1. \A r \in RelayId : /\ DeletedRow(relays[r]).status = "deleted"
                           /\ DeletedRow(relays[r]).code = relays[r].code
    BY DEF DeletedRow
  <2> QED BY <1>1, <2>1
<1>3. ASSUME NEW r \in S PROVE FilesOf(r)' = <<>>
  <2>1. ItemsOf(r)' = {}
    BY <1>1, <1>3, NullsAreNotValues DEF ItemsOf, NoItem
  <2> QED BY <2>1, FS_EmptySet DEF FilesOf
<1>4. ASSUME NEW r \in RelayId \ S PROVE FilesOf(r)' = FilesOf(r)
  <2>1. ItemsOf(r)' = ItemsOf(r) /\ \A u \in ItemsOf(r) : items'[u] = items[u]
    BY <1>1, <1>4, NullsAreNotValues DEF ItemsOf, NoItem
  <2> QED BY <2>1, SameFiles DEF StoreFacts
<1>5. \A r \in S : relays[r].status \in {"collecting", "ready", "expired"}
  BY DEF Exists, RowStatus
<1> QED BY <1>2, <1>3, <1>4, <1>5 DEF Box!Discard

(* Committing an insert puts the file last into an open box, or publishes  *)
(* a box with this one file.                                               *)
LEMMA CommitPutsOrPublishes ==
    ASSUME StoreFacts, StoreFacts', NEW t \in Tx, CommitInsert(t)
    PROVE  \E r \in RelayId, u \in Update :
              Box!Put(r, u) \/ \E c \in Code : Box!Publish(r, u, c)
<1>0. StoreInv /\ StoreInv' /\ TypeOK
  BY DEF StoreFacts, StoreInv
<1>1. /\ OpenTransaction(t) /\ tx[t].op \in {"add", "create"} /\ tx[t] \in TxRecord
  BY <1>0, InsertedItem DEF StoreInv
<1>2. PICK r \in RelayId, u \in Update, row \in {CommittedRow(t)} :
          /\ tx[t].relay = r /\ tx[t].src = u /\ CommittedRow(t) = row
          /\ tx[t].key = u /\ items[u] = NoItem
  BY <1>0, InsertedItem DEF StoreInv
<1> DEFINE n == Cardinality(ItemsOf(r))
<1>3. /\ items[u] = NoItem
      /\ items' = [items EXCEPT ![u] = [relay |-> r, order |-> tx[t].order]]
      /\ relays' = [relays EXCEPT ![r] = row]
  BY <1>2 DEF CommitInsert
<1>4. /\ relays'[r] = row /\ \A q \in RelayId \ {r} : relays'[q] = relays[q]
      /\ items'[u] = [relay |-> r, order |-> tx[t].order]
      /\ \A v \in Update \ {u} : items'[v] = items[v]
  BY <1>0, <1>3 DEF TypeOK
<1>5. /\ u \notin ItemsOf(r) /\ ItemsOf(r)' = ItemsOf(r) \cup {u}
      /\ \A q \in RelayId \ {r} : u \notin ItemsOf(q) /\ ItemsOf(q)' = ItemsOf(q)
  BY <1>3, <1>4, NullsAreNotValues DEF ItemsOf, NoItem
<1>6. \A q \in RelayId : \A v \in ItemsOf(q) : items'[v] = items[v]
  BY <1>4, <1>5 DEF ItemsOf
<1>7. n \in Nat /\ tx[t].order = n + 1 /\ (tx[t].op = "create" => n = 0)
  <2>1. n \in Nat
    BY ItemsFinite
  <2>2. CASE tx[t].op = "add"
    BY <1>1, <1>2, <2>1, <2>2 DEF OpenTransaction
  <2>3. CASE tx[t].op = "create"
    <3>1. tx[t].order = 1 /\ relays[r].status = "unused"
      BY <1>1, <1>2, <2>3 DEF OpenTransaction
    <3>2. ItemsOf(r) = {}
      BY <1>0, <1>2, <3>1, NullsAreNotValues
         DEF StoreInv, ItemsHaveRelay, Exists, RowStatus, ItemsOf
    <3> QED BY <3>1, <3>2, FS_EmptySet
  <2> QED BY <1>1, <2>2, <2>3
<1>8. /\ FilesOf(r)' = Append(FilesOf(r), u)
      /\ \A q \in RelayId \ {r} : FilesOf(q)' = FilesOf(q)
  BY <1>0, <1>4, <1>5, <1>6, <1>7, FileAppended, SameFiles
<1>9. ~Box!Filed(u)
  BY <1>0, <1>3, FiledInBox
<1>10. CASE tx[t].op = "add"
  <2>1. row = [relays[r] EXCEPT !.updatedAt = tx[t].at] /\ relays[r] \in Row
    BY <1>0, <1>2, <1>10 DEF CommittedRow, TypeOK
  <2>2. row.status = relays[r].status /\ row.code = relays[r].code
    BY <2>1 DEF Row
  <2>3. relays[r].status = "collecting" /\ n < MaxBatchItems
    BY <1>1, <1>2, <1>7, <1>10, MaxBatchItemsPositive DEF OpenTransaction
  <2>4. Len(FilesOf(r)) = n
    BY <1>0, FilesAreItems
  <2>5. Box!Put(r, u)
    BY <1>4, <1>8, <1>9, <2>2, <2>3, <2>4 DEF Box!Put
  <2> QED BY <2>5
<1>11. CASE tx[t].op = "create"
  <2>1. row = tx[t].row /\ row.status = "ready" /\ relays[r].status = "unused"
    BY <1>1, <1>2, <1>11 DEF CommittedRow, OpenTransaction
  <2>2. row.code \in Code /\ Box!NewCode(row.code)
    BY <1>11, <2>1 DEF StoreFacts, CodesUnique, Box!NewCode
  <2>3. FilesOf(r)' = <<u>>
    <3>1. FilesOf(r) \in Seq(Update) /\ Len(FilesOf(r)) = 0
      BY <1>0, <1>7, <1>11, FilesAreItems
    <3>2. FilesOf(r) = <<>>
      BY <3>1, EmptySeq
    <3> QED BY <1>8, <3>2
  <2>4. Box!Publish(r, u, row.code)
    BY <1>4, <1>8, <1>9, <2>1, <2>2, <2>3 DEF Box!Publish
  <2> QED BY <2>2, <2>4
<1> QED BY <1>1, <1>10, <1>11

(* Everything else the store does is not seen from outside: a transaction  *)
(* that opens or rolls back.                                               *)
LEMMA UnseenSteps ==
    ASSUME StoreFacts, StoreFacts', relays' = relays, items' = items
    PROVE  UNCHANGED Box!boxVars
<1>1. \A r \in RelayId : FilesOf(r)' = FilesOf(r)
  BY FilesStay DEF StoreFacts
<1> QED BY <1>1 DEF Box!boxVars

-----------------------------------------------------------------------------
(* An empty database is unused boxes. *)
LEMMA InitImplementsBox == StoreInit => Box!BoxInit
<1> SUFFICES ASSUME StoreInit PROVE Box!BoxInit
  OBVIOUS
<1>1. \A r \in RelayId : relays[r].status = "unused" /\ relays[r].code = NoCode
  BY DEF StoreInit, UnusedRow
<1>2. ASSUME NEW r \in RelayId PROVE FilesOf(r) = <<>>
  <2>1. ItemsOf(r) = {}
    BY <1>2, NullsAreNotValues DEF StoreInit, ItemsOf, NoItem
  <2> QED BY <2>1, FS_EmptySet DEF FilesOf
<1> QED BY <1>1, <1>2 DEF Box!BoxInit

(* Every step of the store is a step of the boxes or none. *)
LEMMA NextImplementsBox ==
    ASSUME StoreFacts, StoreFacts', [StoreNext]_storeVars
    PROVE  [Box!BoxNext]_Box!boxVars
<1>1. ASSUME NEW t \in Tx, TxNext(t) PROVE [Box!BoxNext]_Box!boxVars
  <2>1. ASSUME NEW r \in RelayId, NEW u \in Update, NEW c \in Code, NEW chat \in Chat,
               NEW e \in Time, NEW at \in Time,
               CreateRelayOfFiledUpload(t, r, u, c, chat, e, at)
        PROVE  Box!BoxNext
    BY <2>1, CreateOfFiledPublishes DEF Box!BoxNext
  <2>2. CASE CommitInsert(t)
    BY <2>2, CommitPutsOrPublishes DEF Box!BoxNext
  <2>3. CASE relays' = relays /\ items' = items
    BY <2>3, UnseenSteps
  <2> QED BY <1>1, <2>1, <2>2, <2>3 DEF TxNext, CreateRelay, AddRelayItem, InsertItem, RollbackInsert
<1>2. CASE StatementNext
  <2>1. ASSUME NEW r \in RelayId, NEW chat \in Chat, NEW at \in Time,
               CreateRelayBatch(r, chat, at)
        PROVE  Box!BoxNext
    BY <2>1, CreateBatchOpens DEF Box!BoxNext
  <2>2. ASSUME NEW r \in RelayId, NEW c \in Code, NEW e \in Time, NEW at \in Time,
               FinalizeRelayBatch(r, c, e, at)
        PROVE  Box!BoxNext
    BY <2>2, FinalizeSeals DEF Box!BoxNext
  <2>3. ASSUME NEW r \in RelayId, DeleteRelay(r) PROVE Box!BoxNext
    BY <2>3, DeleteDiscards DEF DeleteRelay, Box!BoxNext
  <2>4. ASSUME NEW before \in Time, DeleteCollectingRelaysBefore(before) PROVE Box!BoxNext
    <3>1. /\ StaleCollecting(before) \in SUBSET RelayId
          /\ \A r \in StaleCollecting(before) : Exists(r)
      BY DEF StaleCollecting, Exists, RowStatus
    <3> QED BY <2>4, <3>1, DeleteDiscards DEF DeleteCollectingRelaysBefore, Box!BoxNext
  <2>5. ASSUME NEW now \in Time, ExpireRelays(now) PROVE Box!BoxNext
    BY <2>5, ExpireExpires DEF Box!BoxNext
  <2>6. CASE RollbackAll
    BY <2>6, UnseenSteps DEF RollbackAll
  <2> QED BY <1>2, <2>1, <2>2, <2>3, <2>4, <2>5, <2>6 DEF StatementNext
<1>3. CASE UNCHANGED storeVars
  BY <1>3, UnseenSteps DEF storeVars
<1> QED BY <1>1, <1>2, <1>3 DEF StoreNext

(* At every moment a code leads to one relay, and no relay has one before  *)
(* it is ready (store.go:45, 279).                                         *)
THEOREM StoreFactsAlways == StoreSpec => []StoreFacts
<1>1. StoreFacts /\ [StoreNext]_storeVars => StoreFacts'
  BY StoreFactsStep
<1> QED BY <1>1, StoreFactsInit, PTL DEF StoreSpec

(* The tables, row locks, unique keys and transactions of store.go are a   *)
(* box per relay: whatever its callers interleave, each committed change   *)
(* is one of the few that may happen to a box.                             *)
THEOREM StoreImplementsBox == StoreSpec => ImplementsBox
<1> QED BY InitImplementsBox, NextImplementsBox, StoreFactsAlways, PTL
        DEF StoreSpec, ImplementsBox, Box!BoxSpec

=============================================================================
