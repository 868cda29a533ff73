--------------------------- MODULE StartupProofs ---------------------------
(***************************************************************************)
(* What MCStartup promises, proved for any number of instances, relays,    *)
(* items, requests, handlers and faults: the schema that instances leave   *)
(* which migrate one database together (Migrator), and the state in which  *)
(* a process exits (AppLifecycle).                                         *)
(*                                                                         *)
(* That script 003 numbers the items of a relay 1, 2, ... is a fact about  *)
(* ROW_NUMBER: the rank of an item in a finite total order (Renumbered).   *)
(***************************************************************************)
EXTENDS MCStartup, FiniteSetTheorems, TLAPS

-----------------------------------------------------------------------------
(* ROW_NUMBER() of script 003.                                             *)

UpTo(d, i) == {j \in Item : Before(d, j, i)}

RowNumber(d, i) == Cardinality(UpTo(d, i))

LEMMA DatabaseTypes ==
    ASSUME NEW d \in Database, NEW i \in Item
    PROVE  /\ d.items[i] \in Row \cup {NoRow} /\ d.items[i].order \in Nat /\ i \in Nat
           /\ d.single[i] \in Relay \cup {NoRelay}
           /\ d.items[i].relay \in Relay \cup {NoRelay}
           /\ d.items[i] # NoRow => d.items[i].relay \in Relay /\ d.items[i].relay # NoRelay
           /\ d.items[i] = NoRow => d.items[i].relay = NoRelay
BY ItemsAreNumbered, NoRelayIsNone DEF Database, Row, NoRow

LEMMA RowNumberTyped ==
    ASSUME NEW d, NEW i \in Item
    PROVE  IsFiniteSet(UpTo(d, i)) /\ RowNumber(d, i) \in Nat
<1>1. UpTo(d, i) \in SUBSET Item
  BY DEF UpTo
<1> QED BY <1>1, ItemsAreNumbered, FS_Subset, FS_CardinalityType DEF RowNumber

(* An item that is sent before another gets the smaller number. *)
LEMMA RowNumberKeepsOrder ==
    ASSUME NEW d \in Database, NEW i \in Item, NEW j \in Item, SentBefore(d, j, i)
    PROVE  RowNumber(d, j) < RowNumber(d, i)
<1>1. UpTo(d, j) \in SUBSET UpTo(d, i)
  BY DatabaseTypes DEF UpTo, Before, SentBefore
<1>2. i \in UpTo(d, i) /\ i \notin UpTo(d, j)
  BY DatabaseTypes DEF UpTo, Before, SentBefore
<1>3. /\ RowNumber(d, j) <= RowNumber(d, i)
      /\ RowNumber(d, i) = RowNumber(d, j) => UpTo(d, i) = UpTo(d, j)
  BY <1>1, RowNumberTyped, FS_Subset DEF RowNumber
<1> QED BY <1>2, <1>3, RowNumberTyped

Siblings(d, i) == {j \in Item : d.items[j].relay = d.items[i].relay}

(* The items of a relay get the numbers from 1 to how many they are, each  *)
(* once.                                                                   *)
LEMMA RowNumbersFill ==
    ASSUME NEW d \in Database, NEW i \in Item
    PROVE  {RowNumber(d, j) : j \in Siblings(d, i)} = 1 .. Cardinality(Siblings(d, i))
<1> DEFINE S == Siblings(d, i)
           n == Cardinality(S)
           f == [j \in S |-> RowNumber(d, j)]
<1>1. S \in SUBSET Item /\ IsFiniteSet(S) /\ n \in Nat
  <2>1. S \in SUBSET Item
    BY DEF Siblings
  <2> QED BY <2>1, ItemsAreNumbered, FS_Subset, FS_CardinalityType
<1>2. ASSUME NEW j \in S PROVE RowNumber(d, j) \in 1 .. n
  <2>1. UpTo(d, j) \in SUBSET S
    BY DEF UpTo, Before, Siblings
  <2>2. j \in UpTo(d, j)
    BY <1>1, DatabaseTypes DEF UpTo, Before
  <2>3. RowNumber(d, j) <= n
    BY <1>1, <2>1, FS_Subset DEF RowNumber
  <2>4. RowNumber(d, j) # 0
    BY <1>1, <2>2, RowNumberTyped, FS_EmptySet DEF RowNumber
  <2>5. RowNumber(d, j) \in Nat
    BY <1>1, RowNumberTyped
  <2> HIDE DEF n
  <2> QED BY <1>1, <2>3, <2>4, <2>5
<1>3. ASSUME NEW j \in S, NEW k \in S, RowNumber(d, j) = RowNumber(d, k) PROVE j = k
  <2>1. j = k \/ SentBefore(d, j, k) \/ SentBefore(d, k, j)
    BY <1>1, DatabaseTypes DEF SentBefore, Siblings
  <2> QED BY <1>1, <1>3, <2>1, RowNumberKeepsOrder, RowNumberTyped
<1>4. f \in Injection(S, 1 .. n)
  BY <1>2, <1>3 DEF Injection, IsInjective
<1>5. f \in Surjection(S, 1 .. n)
  <2>1. IsFiniteSet(1 .. n) /\ Cardinality(1 .. n) = n
    BY <1>1, FS_Interval
  <2> HIDE DEF f, n
  <2>2. Cardinality(S) = Cardinality(1 .. n)
    BY <2>1 DEF n
  <2> QED BY <1>4, <2>1, <2>2, FS_Injection
<1>6. \A m \in 1 .. n : \E j \in S : RowNumber(d, j) = m
  BY <1>5 DEF Surjection
<1>7. {RowNumber(d, j) : j \in S} = 1 .. n
  <2> HIDE DEF n, S
  <2> QED BY <1>2, <1>6
<1> QED BY <1>7

-----------------------------------------------------------------------------
(* The scripts.                                                            *)

LEMMA ScriptsDefined ==
    ASSUME NEW d
    PROVE  Script(1, d) = d /\ Script(2, d) = BatchRelays(d) /\ Script(3, d) = ItemOrderUnique(d)
BY DEF Script

LEMMA BatchRelaysDoes ==
    ASSUME NEW d \in Database
    PROVE  LET new == BatchRelays(d)
           IN  /\ new \in Database
               /\ new.recorded = d.recorded /\ new.single = d.single
               /\ new.indexes = d.indexes \cup {"plain"}
               /\ \A i \in Item : /\ d.items[i] # NoRow => new.items[i] = d.items[i]
                                  /\ d.single[i] # NoRelay => new.items[i] # NoRow
<1> DEFINE rows == [i \in Item |-> IF d.items[i] = NoRow /\ d.single[i] # NoRelay
                                   THEN [relay |-> d.single[i], order |-> 1]
                                   ELSE d.items[i]]
           new == BatchRelays(d)
<1>1. new = [d EXCEPT !.items = rows, !.indexes = @ \cup {"plain"}]
  BY DEF BatchRelays
<1>2. rows \in [Item -> Row \cup {NoRow}]
  <2> SUFFICES ASSUME NEW i \in Item PROVE rows[i] \in Row \cup {NoRow}
    OBVIOUS
  <2> QED BY DatabaseTypes DEF Row
<1>3. \A i \in Item : /\ d.items[i] # NoRow => rows[i] = d.items[i]
                      /\ d.single[i] # NoRelay => rows[i] # NoRow
  BY NoRelayIsNone DEF NoRow
<1> HIDE DEF rows
<1>4. /\ new.recorded = d.recorded /\ new.single = d.single /\ new.items = rows
      /\ new.indexes = d.indexes \cup {"plain"}
      /\ new = [recorded |-> d.recorded, single |-> d.single, items |-> rows,
                indexes |-> d.indexes \cup {"plain"}]
  BY <1>1 DEF Database
<1>5. new \in Database
  BY <1>2, <1>4 DEF Database
<1> QED BY <1>3, <1>4, <1>5

LEMMA ItemOrderUniqueDoes ==
    ASSUME NEW d \in Database
    PROVE  LET new == ItemOrderUnique(d)
           IN  /\ new \in Database
               /\ new.recorded = d.recorded /\ new.single = d.single
               /\ new.indexes = (d.indexes \ {"plain"}) \cup {"unique"}
               /\ \A i \in Item : /\ d.items[i] = NoRow => new.items[i] = NoRow
                                  /\ d.items[i] # NoRow =>
                                        /\ new.items[i] # NoRow
                                        /\ new.items[i].order = RowNumber(d, i)
                                  /\ new.items[i].relay = d.items[i].relay
<1> DEFINE rows == [i \in Item |->
                       IF d.items[i] = NoRow THEN NoRow
                       ELSE [d.items[i] EXCEPT !.order = Cardinality({j \in Item : Before(d, j, i)})]]
           new == ItemOrderUnique(d)
<1>1. new = [d EXCEPT !.items = rows, !.indexes = (@ \ {"plain"}) \cup {"unique"}]
  BY DEF ItemOrderUnique
<1>2. ASSUME NEW i \in Item
      PROVE  /\ rows[i] \in Row \cup {NoRow}
             /\ d.items[i] = NoRow => rows[i] = NoRow
             /\ d.items[i] # NoRow => rows[i] # NoRow /\ rows[i].order = RowNumber(d, i)
             /\ rows[i].relay = d.items[i].relay
  <2>1. rows[i] = IF d.items[i] = NoRow THEN NoRow
                  ELSE [d.items[i] EXCEPT !.order = RowNumber(d, i)]
    BY DEF RowNumber, UpTo
  <2>2. RowNumber(d, i) \in Nat /\ d.items[i] \in Row \cup {NoRow}
    BY RowNumberTyped, DatabaseTypes
  <2> HIDE DEF rows
  <2>3. CASE d.items[i] = NoRow
    BY <2>1, <2>3
  <2>4. CASE d.items[i] # NoRow
    <3>1. PICK row \in Row : row = d.items[i] /\ rows[i] = [row EXCEPT !.order = RowNumber(d, i)]
      BY <2>1, <2>2, <2>4
    <3>2. /\ rows[i] \in Row /\ rows[i].relay = row.relay
          /\ rows[i].order = RowNumber(d, i)
      BY <2>2, <3>1 DEF Row
    <3>3. rows[i] # NoRow
      BY <3>2, NoRelayIsNone DEF Row, NoRow
    <3> QED BY <2>4, <3>1, <3>2, <3>3
  <2> QED BY <2>3, <2>4
<1>3. rows \in [Item -> Row \cup {NoRow}]
  BY <1>2
<1> HIDE DEF rows
<1>4. /\ new.recorded = d.recorded /\ new.single = d.single /\ new.items = rows
      /\ new.indexes = (d.indexes \ {"plain"}) \cup {"unique"}
      /\ new = [recorded |-> d.recorded, single |-> d.single, items |-> rows,
                indexes |-> (d.indexes \ {"plain"}) \cup {"unique"}]
  BY <1>1 DEF Database
<1>5. new \in Database
  BY <1>3, <1>4 DEF Database
<1> QED BY <1>2, <1>4, <1>5

(* After 003 the items of each relay are numbered 1, 2, ... *)
LEMMA Renumbered ==
    ASSUME NEW d \in Database
    PROVE  Numbered(ItemOrderUnique(d).items)
<1> DEFINE new == ItemOrderUnique(d)
<1> SUFFICES ASSUME NEW i \in Item, new.items[i] # NoRow
             PROVE  {new.items[j].order : j \in {j \in Item : new.items[j].relay
                                                             = new.items[i].relay}}
                    = 1 .. Cardinality({j \in Item : new.items[j].relay = new.items[i].relay})
  BY DEF Numbered
<1>1. {j \in Item : new.items[j].relay = new.items[i].relay} = Siblings(d, i)
  BY ItemOrderUniqueDoes DEF Siblings
<1>2. ASSUME NEW j \in Siblings(d, i) PROVE new.items[j].order = RowNumber(d, j)
  <2>1. j \in Item /\ d.items[j].relay = d.items[i].relay /\ d.items[i] # NoRow
    BY ItemOrderUniqueDoes DEF Siblings
  <2>2. d.items[j] # NoRow
    BY <2>1, DatabaseTypes
  <2> QED BY <2>1, <2>2, ItemOrderUniqueDoes
<1> HIDE DEF new
<1>3. {new.items[j].order : j \in Siblings(d, i)} = {RowNumber(d, j) : j \in Siblings(d, i)}
  BY <1>2
<1> QED BY <1>1, <1>3, RowNumbersFill

-----------------------------------------------------------------------------
(* One instance moves and the database stays.                              *)

LEMMA MigrationsFaults ==
    ASSUME TypeOK, Fault \/ UNCHANGED faults
    PROVE  faults' \in 0 .. MaxFaults
BY MaxFaultsIsNat DEF TypeOK, Fault

LEMMA EmptyTypes ==
    /\ NoTx \in Database /\ Down \in InstanceState /\ Down.pc = "down" /\ Down.version = 1
BY DEF NoTx, Database, Row, NoRow, Down, InstanceState, Version

(* The instance p moves, and others may be thrown out. *)
LEMMA InstancesMove ==
    ASSUME MigrationsInv, NEW p \in Instance, UNCHANGED <<db, runs>>,
           Fault \/ UNCHANGED faults,
           inst' \in [Instance -> InstanceState],
           \A q \in Instance \ {p} : inst'[q] \in {inst[q], Down},
           NEW d \in Database, tx' = [tx EXCEPT ![p] = d],
           inst'[p].pc = "up" => db.recorded = Version,
           inst'[p].pc \in {"record", "commit"} => \A q \in Instance \ {p} : ~InTransaction(q),
           InstanceRight(p)'
    PROVE  MigrationsInv'
<1>0. /\ TypeOK /\ AppliedOnce /\ WholeSchema /\ ItemsMigrated /\ OneInTransaction
      /\ \A q \in Instance : InstanceRight(q)
      /\ inst \in [Instance -> InstanceState] /\ tx \in [Instance -> Database]
  BY DEF MigrationsInv, TypeOK
<1>1. /\ \A q \in Instance \ {p} : tx'[q] = tx[q]
      /\ tx' \in [Instance -> Database]
  BY <1>0
<1>2. TypeOK'
  BY <1>0, <1>1, MigrationsFaults DEF TypeOK
<1>3. AppliedOnce' /\ ItemsMigrated'
  BY <1>0 DEF AppliedOnce, ItemsMigrated
<1>4. WholeSchema'
  BY <1>0, EmptyTypes DEF WholeSchema, At
<1>5. OneInTransaction'
  BY <1>0, EmptyTypes DEF OneInTransaction, InTransaction
<1>6. ASSUME NEW q \in Instance PROVE InstanceRight(q)'
  <2>1. CASE q # p /\ inst'[q] = inst[q]
    BY <1>0, <1>1, <2>1 DEF InstanceRight, At
  <2>2. CASE q # p /\ inst'[q] = Down
    BY <2>2, EmptyTypes DEF InstanceRight, At
  <2> QED BY <2>1, <2>2
<1> QED BY <1>2, <1>3, <1>4, <1>5, <1>6 DEF MigrationsInv

LEMMA InstanceMoves ==
    ASSUME MigrationsInv, NEW p \in Instance, UNCHANGED <<db, runs>>,
           Fault \/ UNCHANGED faults,
           NEW s \in InstanceState, inst' = [inst EXCEPT ![p] = s],
           NEW d \in Database, tx' = [tx EXCEPT ![p] = d],
           s.pc = "up" => db.recorded = Version,
           s.pc \in {"record", "commit"} => \A q \in Instance \ {p} : ~InTransaction(q),
           InstanceRight(p)'
    PROVE  MigrationsInv'
<1>1. /\ inst' \in [Instance -> InstanceState] /\ inst'[p] = s
      /\ \A q \in Instance \ {p} : inst'[q] = inst[q]
  BY DEF MigrationsInv, TypeOK
<1> QED BY <1>1, InstancesMove

LEMMA MigrationsBefore ==
    ASSUME MigrationsInv, NEW p \in Instance
    PROVE  /\ TypeOK /\ AppliedOnce /\ WholeSchema /\ ItemsMigrated /\ OneInTransaction
           /\ InstanceRight(p)
           /\ inst[p] \in InstanceState /\ inst[p].version \in Version
           /\ tx[p] \in Database /\ db \in Database /\ db.recorded \subseteq Version
           /\ tx = [tx EXCEPT ![p] = tx[p]]
BY DEF MigrationsInv, TypeOK, InstanceState, Database

LEMMA ExitsOk ==
    ASSUME MigrationsInv, NEW p \in Instance, Exit(p), tx' = [tx EXCEPT ![p] = NoTx],
           UNCHANGED <<db, runs>>, Fault \/ UNCHANGED faults
    PROVE  MigrationsInv'
<1>1. inst'[p] = Down
  BY DEF Exit, MigrationsInv, TypeOK
<1>2. InstanceRight(p)'
  BY <1>1, EmptyTypes DEF InstanceRight, At
<1> QED BY <1>2, EmptyTypes, InstanceMoves DEF Exit

LEMMA GoesTo ==
    ASSUME NEW s \in InstanceState, NEW pc \in {"check", "exec", "record", "commit", "up"}
    PROVE  LET t == [s EXCEPT !.pc = pc]
           IN  t \in InstanceState /\ t.pc = pc /\ t.version = s.version
BY DEF InstanceState

LEMMA StartStep ==
    ASSUME MigrationsInv, NEW p \in Instance, Start(p)
    PROVE  MigrationsInv'
<1>1. PICK s \in InstanceState : s = inst[p] /\ s = Down
  BY MigrationsBefore DEF Start, At, InstanceRight
<1>2. PICK t \in InstanceState : t = [s EXCEPT !.pc = "check"] /\ t.pc = "check" /\ t.version = 1
  <2>1. s.version = 1
    BY <1>1, EmptyTypes
  <2>2. PICK t \in InstanceState :
           t = [s EXCEPT !.pc = "check"] /\ t.pc = "check" /\ t.version = s.version
    BY GoesTo
  <2> QED BY <2>1, <2>2
<1>3. inst' = [inst EXCEPT ![p] = t] /\ inst'[p] = t
  BY <1>1, <1>2 DEF Start, Go, MigrationsInv, TypeOK
<1>4. InstanceRight(p)'
  <2>1. \A w \in Version : ~(w < 1)
    BY DEF Version
  <2> QED BY <1>2, <1>3, <2>1 DEF InstanceRight, At
<1>5. /\ UNCHANGED <<db, runs, faults>> /\ tx' = [tx EXCEPT ![p] = tx[p]]
      /\ tx[p] \in Database
  BY MigrationsBefore DEF Start
<1> QED BY <1>2, <1>3, <1>4, <1>5, InstanceMoves

(* The next file, once a script is applied. *)
LEMMA NextFileIs ==
    ASSUME NEW s \in InstanceState
    PROVE  LET t == IF s.version = 3 THEN [s EXCEPT !.pc = "up"]
                    ELSE [pc |-> "check", version |-> s.version + 1]
           IN  /\ t \in InstanceState
               /\ \/ s.version = 3 /\ t.pc = "up" /\ t.version = 3
                  \/ s.version \in 1 .. 2 /\ t.pc = "check" /\ t.version = s.version + 1
BY DEF InstanceState, Version

LEMMA CheckStep ==
    ASSUME MigrationsInv, NEW p \in Instance, Check(p)
    PROVE  MigrationsInv'
<1>0. PICK s \in InstanceState : s = inst[p] /\ s.version \in Version
  BY MigrationsBefore
<1>1. /\ s.pc = "check" /\ \A w \in Version : w < s.version => w \in db.recorded
      /\ UNCHANGED <<db, runs, faults>> /\ tx' = [tx EXCEPT ![p] = tx[p]]
      /\ tx[p] \in Database
  BY <1>0, MigrationsBefore DEF Check, At, InstanceRight
<1>2. CASE s.version \in db.recorded
  <2>1. PICK t \in InstanceState :
           /\ inst' = [inst EXCEPT ![p] = t]
           /\ \/ s.version = 3 /\ t.pc = "up" /\ t.version = 3
              \/ s.version \in 1 .. 2 /\ t.pc = "check" /\ t.version = s.version + 1
    BY <1>0, <1>2, NextFileIs DEF Check, NextFile
  <2>2. \A w \in Version : w < t.version => w \in db.recorded
    BY <1>0, <1>1, <1>2, <2>1 DEF Version
  <2>3. t.pc = "up" => db.recorded = Version
    BY <1>1, <1>2, <2>1, MigrationsBefore DEF Version
  <2>4. inst'[p] = t
    BY <2>1 DEF MigrationsInv, TypeOK
  <2>5. InstanceRight(p)'
    BY <1>1, <2>1, <2>2, <2>4 DEF InstanceRight, At
  <2> QED BY <1>1, <2>1, <2>3, <2>5, InstanceMoves
<1>3. CASE s.version \notin db.recorded
  <2>1. PICK t \in InstanceState :
           t = [s EXCEPT !.pc = "exec"] /\ t.pc = "exec" /\ t.version = s.version
    BY GoesTo
  <2>2. inst' = [inst EXCEPT ![p] = t] /\ inst'[p] = t
    BY <1>0, <1>3, <2>1 DEF Check, Go, MigrationsInv, TypeOK
  <2>3. InstanceRight(p)'
    BY <1>1, <2>1, <2>2 DEF InstanceRight, At
  <2> QED BY <1>1, <2>1, <2>2, <2>3, InstanceMoves
<1> QED BY <1>2, <1>3

LEMMA ScriptDoes ==
    ASSUME NEW d \in Database, NEW v \in Version
    PROVE  /\ Script(v, d) \in Database
           /\ Script(v, d).recorded = d.recorded /\ Script(v, d).single = d.single
<1>1. v = 1 \/ v = 2 \/ v = 3
  BY DEF Version
<1> QED BY <1>1, ScriptsDefined, BatchRelaysDoes, ItemOrderUniqueDoes

LEMMA ExecStep ==
    ASSUME MigrationsInv, NEW p \in Instance, Exec(p)
    PROVE  MigrationsInv'
<1>0. PICK s \in InstanceState : s = inst[p] /\ s.version \in Version
  BY MigrationsBefore
<1>1. /\ s.pc = "exec" /\ \A w \in Version : w < s.version => w \in db.recorded
      /\ UNCHANGED <<db, runs, faults>>
      /\ \A q \in Instance : ~InTransaction(q)
  BY <1>0, MigrationsBefore DEF Exec, At, InstanceRight
<1>2. PICK d \in Database : d = Script(s.version, db)
  BY <1>0, MigrationsBefore, ScriptDoes
<1>3. PICK t \in InstanceState :
         t = [s EXCEPT !.pc = "record"] /\ t.pc = "record" /\ t.version = s.version
  BY GoesTo
<1>4. /\ inst' = [inst EXCEPT ![p] = t] /\ inst'[p] = t
      /\ tx' = [tx EXCEPT ![p] = d] /\ tx'[p] = d
  BY <1>0, <1>2, <1>3 DEF Exec, Go, MigrationsInv, TypeOK
<1>5. Script(s.version, db)' = Script(s.version, db)
  BY <1>1
<1>6. InstanceRight(p)'
  BY <1>1, <1>2, <1>3, <1>4 DEF InstanceRight, At
<1> QED BY <1>1, <1>3, <1>4, <1>6, InstanceMoves

(* Of two instances that deadlock one goes on as if it had been alone.     *)
LEMMA DeadlockStep ==
    ASSUME MigrationsInv, NEW p \in Instance, Deadlock(p)
    PROVE  MigrationsInv'
<1>0. PICK s \in InstanceState : s = inst[p] /\ s.version = 3
  BY MigrationsBefore DEF Deadlock
<1>1. /\ s.pc = "exec" /\ \A w \in Version : w < 3 => w \in db.recorded
      /\ UNCHANGED <<db, runs, faults>>
      /\ \A q \in Instance : ~InTransaction(q)
  BY <1>0, MigrationsBefore DEF Deadlock, At, InstanceRight
<1>2. PICK d \in Database : d = Script(3, db)
  BY <1>0, MigrationsBefore, ScriptDoes
<1>3. PICK t \in InstanceState :
         t = [s EXCEPT !.pc = "record"] /\ t.pc = "record" /\ t.version = s.version
  BY GoesTo
<1>4. PICK q \in Instance \ {p} : inst' = [inst EXCEPT ![p].pc = "record", ![q] = Down]
  BY DEF Deadlock
<1>5. inst' = [[inst EXCEPT ![p] = t] EXCEPT ![q] = Down]
  BY <1>0, <1>3, <1>4
<1>6. /\ inst' \in [Instance -> InstanceState] /\ inst'[p] = t
      /\ \A g \in Instance \ {p} : inst'[g] \in {inst[g], Down}
  BY <1>5, EmptyTypes DEF MigrationsInv, TypeOK
<1>7. tx' = [tx EXCEPT ![p] = d] /\ tx'[p] = d
  BY <1>2 DEF Deadlock, MigrationsInv, TypeOK
<1>8. Script(3, db)' = Script(3, db)
  BY <1>1
<1>9. InstanceRight(p)'
  BY <1>0, <1>1, <1>2, <1>3, <1>6, <1>7 DEF InstanceRight, At
<1> QED BY <1>1, <1>3, <1>6, <1>7, <1>9, InstancesMove

LEMMA RecordStep ==
    ASSUME MigrationsInv, NEW p \in Instance, Record(p)
    PROVE  MigrationsInv'
<1>0. PICK s \in InstanceState : s = inst[p] /\ s.version \in Version
  BY MigrationsBefore
<1>1. /\ s.pc = "record" /\ \A w \in Version : w < s.version => w \in db.recorded
      /\ UNCHANGED <<db, runs, faults>>
      /\ tx[p] = Script(s.version, db) /\ tx[p].recorded = db.recorded
  <2>1. /\ s.pc = "record" /\ \A w \in Version : w < s.version => w \in db.recorded
        /\ UNCHANGED <<db, runs, faults>>
        /\ tx[p] = Script(s.version, db) /\ db \in Database
    BY <1>0, MigrationsBefore DEF Record, At, InstanceRight
  <2> QED BY <1>0, <2>1, ScriptDoes
<1>2. CASE AlreadyRecorded(p)
  BY <1>1, <1>2, ExitsOk DEF Record
<1>3. CASE ~AlreadyRecorded(p)
  <2>1. PICK d \in Database : d = [tx[p] EXCEPT !.recorded = @ \cup {s.version}]
    BY <1>0, MigrationsBefore DEF Database
  <2>2. PICK t \in InstanceState :
           t = [s EXCEPT !.pc = "commit"] /\ t.pc = "commit" /\ t.version = s.version
    BY GoesTo
  <2>3. /\ inst' = [inst EXCEPT ![p] = t] /\ inst'[p] = t
        /\ tx' = [tx EXCEPT ![p] = d] /\ tx'[p] = d
    BY <1>0, <1>3, <2>1, <2>2 DEF Record, Go, MigrationsInv, TypeOK
  <2>4. s.version \notin db.recorded
    BY <1>0, <1>1, <1>3 DEF AlreadyRecorded
  <2>5. InstanceRight(p)'
    BY <1>1, <2>1, <2>2, <2>3, <2>4 DEF InstanceRight, At
  <2>6. \A q \in Instance \ {p} : ~InTransaction(q)
    BY <1>0, <1>1, MigrationsBefore DEF OneInTransaction, InTransaction
  <2> QED BY <1>1, <2>2, <2>3, <2>5, <2>6, InstanceMoves
<1> QED BY <1>2, <1>3

LEMMA FailStep ==
    ASSUME MigrationsInv, NEW p \in Instance, Fail(p)
    PROVE  MigrationsInv'
BY ExitsOk DEF Fail

-----------------------------------------------------------------------------
(* A script is committed.                                                  *)

(* What the commit of p's script makes of the database. *)
Applied(p) ==
    LET v == inst[p].version
    IN  /\ db' \in Database
        /\ v \in Version /\ v \notin db.recorded /\ db'.recorded = db.recorded \cup {v}
        /\ \A w \in Version : w < v => w \in db.recorded
        /\ db'.single = db.single
        /\ db'.items = Script(v, db).items /\ db'.indexes = Script(v, db).indexes

LEMMA CommitApplies ==
    ASSUME MigrationsInv, NEW p \in Instance, CommitTx(p)
    PROVE  Applied(p)
<1> DEFINE v == inst[p].version
<1>1. /\ db' = [Script(v, db) EXCEPT !.recorded = @ \cup {v}]
      /\ v \in Version /\ v \notin db.recorded /\ db \in Database
      /\ \A w \in Version : w < v => w \in db.recorded
  BY MigrationsBefore DEF CommitTx, At, InstanceRight
<1>2. PICK d \in Database : /\ d = Script(v, db) /\ d.recorded = db.recorded
                            /\ d.single = db.single
  BY <1>1, ScriptDoes
<1>3. /\ db' \in Database /\ db'.recorded = d.recorded \cup {v} /\ db'.single = d.single
      /\ db'.items = d.items /\ db'.indexes = d.indexes
  BY <1>1, <1>2 DEF Database
<1> QED BY <1>1, <1>2, <1>3 DEF Applied

LEMMA CommitKeepsSchema ==
    ASSUME MigrationsInv, NEW p \in Instance, CommitTx(p)
    PROVE  /\ AppliedOnce' /\ ItemsMigrated' /\ runs' \in [Version -> Nat]
           /\ \A v \in db'.recorded : 1 .. v \subseteq db'.recorded
<1> DEFINE v == inst[p].version
<1>0. /\ db \in Database /\ AppliedOnce /\ ItemsMigrated /\ WholeSchema
      /\ runs \in [Version -> Nat] /\ db.recorded \subseteq Version
  BY MigrationsBefore DEF TypeOK
<1>1. Applied(p)
  BY CommitApplies
<1>2. /\ v \in Version /\ v \notin db.recorded /\ db'.recorded = db.recorded \cup {v}
      /\ \A w \in Version : w < v => w \in db.recorded
      /\ db'.single = db.single
  BY <1>1 DEF Applied
<1>3. \A w \in db.recorded : 1 .. w \subseteq db.recorded
  BY <1>0 DEF WholeSchema
<1>4. \A w \in db.recorded : w < v
  BY <1>0, <1>2, <1>3 DEF Version
<1>5. \A w \in db'.recorded : 1 .. w \subseteq db'.recorded
  BY <1>0, <1>2, <1>3 DEF Version
<1>6. /\ runs' \in [Version -> Nat]
      /\ \A w \in Version : runs'[w] = IF w \in db'.recorded THEN 1 ELSE 0
  <2>1. runs' = [runs EXCEPT ![v] = @ + 1] /\ runs[v] = 0
    BY <1>0, <1>2 DEF CommitTx, AppliedOnce
  <2> QED BY <1>0, <1>2, <2>1 DEF AppliedOnce
<1>7. CASE v = 1
  <2>1. db'.items = db.items /\ db'.indexes = db.indexes
    BY <1>1, <1>7, ScriptsDefined DEF Applied
  <2>2. 2 \notin db'.recorded /\ 3 \notin db'.recorded /\ 2 \notin db.recorded /\ 3 \notin db.recorded
    BY <1>2, <1>4, <1>7
  <2>3. AppliedOnce'
    BY <1>0, <1>6, <2>1, <2>2 DEF AppliedOnce
  <2>4. ItemsMigrated'
    BY <2>2 DEF ItemsMigrated
  <2> QED BY <1>5, <1>6, <2>3, <2>4
<1>8. CASE v = 2
  <2>1. /\ db'.indexes = db.indexes \cup {"plain"}
        /\ \A i \in Item : db.single[i] # NoRelay => db'.items[i] # NoRow
    BY <1>0, <1>1, <1>8, ScriptsDefined, BatchRelaysDoes DEF Applied
  <2>2. 2 \in db'.recorded /\ 3 \notin db'.recorded /\ 3 \notin db.recorded
    BY <1>2, <1>4, <1>8
  <2>3. AppliedOnce'
    BY <1>0, <1>6, <2>1, <2>2 DEF AppliedOnce
  <2>4. ItemsMigrated'
    BY <1>2, <2>1, <2>2 DEF ItemsMigrated
  <2> QED BY <1>5, <1>6, <2>3, <2>4
<1>9. CASE v = 3
  <2>1. /\ db'.indexes = (db.indexes \ {"plain"}) \cup {"unique"}
        /\ db'.items = ItemOrderUnique(db).items
        /\ \A i \in Item : db.items[i] # NoRow => db'.items[i] # NoRow
    BY <1>0, <1>1, <1>9, ScriptsDefined, ItemOrderUniqueDoes DEF Applied
  <2>2. 2 \in db.recorded /\ 2 \in db'.recorded /\ 3 \in db'.recorded
    BY <1>2, <1>9 DEF Version
  <2>3. AppliedOnce'
    BY <1>0, <1>6, <2>1, <2>2 DEF AppliedOnce
  <2>4. Numbered(db'.items)
    BY <1>0, <2>1, Renumbered
  <2>5. ItemsMigrated'
    BY <1>0, <1>2, <2>1, <2>2, <2>4 DEF ItemsMigrated
  <2> QED BY <1>5, <1>6, <2>3, <2>5
<1> QED BY <1>2, <1>7, <1>8, <1>9 DEF Version

(* A commit leaves every instance right: nobody else is in a transaction,  *)
(* and p goes on to the next file or exits.                                *)
LEMMA CommitKeepsInv ==
    ASSUME MigrationsInv, NEW p \in Instance, CommitTx(p), Fault \/ UNCHANGED faults,
           NEW t \in InstanceState, inst' = [inst EXCEPT ![p] = t],
           \/ t = Down
           \/ inst[p].version = 3 /\ t.pc = "up" /\ t.version = 3
           \/ inst[p].version \in 1 .. 2 /\ t.pc = "check" /\ t.version = inst[p].version + 1
    PROVE  MigrationsInv'
<1>0. /\ TypeOK /\ OneInTransaction /\ WholeSchema
      /\ \A q \in Instance : InstanceRight(q)
      /\ inst \in [Instance -> InstanceState] /\ tx \in [Instance -> Database]
      /\ db.recorded \subseteq Version
  BY MigrationsBefore DEF MigrationsInv, TypeOK
<1> DEFINE v == inst[p].version
<1>1. /\ v \in Version /\ db' \in Database
      /\ v \notin db.recorded /\ db'.recorded = db.recorded \cup {v}
      /\ \A w \in Version : w < v => w \in db.recorded
  BY CommitApplies DEF Applied
<1>2. /\ AppliedOnce' /\ ItemsMigrated' /\ runs' \in [Version -> Nat]
      /\ \A w \in db'.recorded : 1 .. w \subseteq db'.recorded
  BY CommitKeepsSchema
<1>3. /\ inst'[p] = t /\ inst' \in [Instance -> InstanceState]
      /\ \A q \in Instance \ {p} : inst'[q] = inst[q] /\ tx'[q] = tx[q]
      /\ tx' \in [Instance -> Database]
  BY <1>0, EmptyTypes DEF CommitTx
<1>4. TypeOK'
  BY <1>0, <1>1, <1>2, <1>3, MigrationsFaults DEF TypeOK
<1>5. \A q \in Instance \ {p} : ~InTransaction(q)
  BY <1>0 DEF OneInTransaction, InTransaction, CommitTx, At
<1>6. ~InTransaction(p)'
  BY <1>3, EmptyTypes DEF InTransaction
<1>7. OneInTransaction'
  BY <1>3, <1>5, <1>6 DEF OneInTransaction, InTransaction
<1>8. ASSUME NEW q \in Instance, inst'[q].pc = "up" PROVE db'.recorded = Version
  <2>1. CASE q # p
    <3>1. db.recorded = Version
      BY <1>0, <1>3, <1>8, <2>1 DEF WholeSchema, At
    <3> QED BY <1>1, <3>1
  <2>2. CASE q = p
    <3>1. v = 3
      BY <1>3, <1>8, <2>2, EmptyTypes
    <3> QED BY <1>0, <1>1, <3>1 DEF Version
  <2> QED BY <2>1, <2>2
<1>9. ASSUME NEW q \in Instance PROVE InstanceRight(q)'
  <2>1. CASE q # p
    <3>1. ~InTransaction(q) /\ inst'[q] = inst[q]
      BY <1>3, <1>5, <2>1
    <3> QED BY <1>0, <1>1, <3>1 DEF InstanceRight, At, InTransaction
  <2>2. CASE q = p /\ t = Down
    BY <1>3, <2>2, EmptyTypes DEF InstanceRight, At
  <2>3. CASE q = p /\ t # Down
    <3>1. t.pc \in {"up", "check"}
      BY <2>3
    <3>2. \A w \in Version : w < t.version => w \in db'.recorded
      BY <1>1, <2>3 DEF Version
    <3> QED BY <1>3, <2>3, <3>1, <3>2 DEF InstanceRight, At
  <2> QED BY <2>1, <2>2, <2>3
<1> QED BY <1>2, <1>4, <1>7, <1>8, <1>9 DEF MigrationsInv, WholeSchema, At

LEMMA CommitStep ==
    ASSUME MigrationsInv, NEW p \in Instance, Commit(p) \/ CommitAnswerLost(p)
    PROVE  MigrationsInv'
<1>0. PICK s \in InstanceState : s = inst[p]
  BY MigrationsBefore
<1>1. CASE Commit(p)
  <2>1. PICK t \in InstanceState :
           /\ inst' = [inst EXCEPT ![p] = t]
           /\ \/ s.version = 3 /\ t.pc = "up" /\ t.version = 3
              \/ s.version \in 1 .. 2 /\ t.pc = "check" /\ t.version = s.version + 1
    BY <1>0, <1>1, NextFileIs DEF Commit, NextFile
  <2> QED BY <1>0, <1>1, <2>1, CommitKeepsInv DEF Commit
<1>2. CASE CommitAnswerLost(p)
  BY <1>2, EmptyTypes, CommitKeepsInv DEF CommitAnswerLost, Exit
<1> QED BY <1>1, <1>2

LEMMA MigrationsStep ==
    ASSUME MigrationsInv, Next \/ UNCHANGED vars
    PROVE  MigrationsInv'
<1>1. ASSUME NEW p \in Instance, Proceed(p) \/ CommitAnswerLost(p) \/ Fail(p)
      PROVE  MigrationsInv'
  BY <1>1, StartStep, CheckStep, ExecStep, DeadlockStep, RecordStep, CommitStep,
     FailStep DEF Proceed
<1>2. CASE UNCHANGED vars
  BY <1>2 DEF vars, MigrationsInv, TypeOK, AppliedOnce, WholeSchema, ItemsMigrated,
              OneInTransaction, InTransaction, InstanceRight, At
<1> QED BY <1>1, <1>2 DEF Next

(* Every database that an earlier version leaves is one of a prefix of the *)
(* scripts.                                                                *)
LEMMA MigrationsInitially ==
    ASSUME Init
    PROVE  MigrationsInv
<1>1. PICK n \in 0 .. 3 : db \in InitialDb(n)
  BY DEF Init
<1>2. /\ db.recorded = 1 .. n
      /\ db.indexes = IF n = 3 THEN {"unique"} ELSE IF n = 2 THEN {"plain"} ELSE {}
      /\ n = 3 => Numbered(db.items)
      /\ n >= 2 => \A i \in Item : db.single[i] = NoRelay
  BY <1>1 DEF InitialDb
<1>3. db \in Database
  <2>1. db.single \in [Item -> Relay \cup {NoRelay}]
    BY <1>1 DEF InitialDb
  <2>2. db.items \in [Item -> Row \cup {NoRow}]
    <3>1. \A m \in 1 .. Cardinality(Item) : m \in Nat
      BY ItemsAreNumbered, FS_CardinalityType
    <3>2. [relay : Relay, order : 1 .. Cardinality(Item)] \subseteq Row
      BY <3>1 DEF Row
    <3> QED BY <1>1, <3>2 DEF InitialDb
  <2>3. db = [recorded |-> db.recorded, single |-> db.single, items |-> db.items,
              indexes |-> db.indexes]
    BY <1>1 DEF InitialDb
  <2>4. db.recorded \subseteq Version /\ db.indexes \subseteq {"plain", "unique"}
    BY <1>2 DEF Version
  <2> QED BY <2>1, <2>2, <2>3, <2>4 DEF Database
<1>4. TypeOK
  BY <1>3, EmptyTypes, MaxFaultsIsNat DEF Init, TypeOK
<1>5. AppliedOnce
  BY <1>2 DEF Init, AppliedOnce, Version
<1>6. WholeSchema /\ ItemsMigrated
  BY <1>2, EmptyTypes DEF Init, WholeSchema, ItemsMigrated, At
<1>7. OneInTransaction /\ \A p \in Instance : InstanceRight(p)
  BY EmptyTypes DEF Init, OneInTransaction, InTransaction, InstanceRight, At
<1> QED BY <1>4, <1>5, <1>6, <1>7 DEF MigrationsInv

-----------------------------------------------------------------------------
(* The order in which the files of a relay are sent.                       *)

OrderKept ==
    \A i \in Item : db.items[i] # NoRow =>
        /\ db'.items[i] # NoRow
        /\ \A j \in Item : SentBefore(db, j, i) => SentBefore(db', j, i)

LEMMA CommitKeepsOrder ==
    ASSUME MigrationsInv, NEW p \in Instance, CommitTx(p)
    PROVE  OrderKept
<1> DEFINE v == inst[p].version
<1>0. db \in Database /\ Applied(p)
  BY MigrationsBefore, CommitApplies
<1> SUFFICES ASSUME NEW i \in Item, db.items[i] # NoRow
             PROVE  /\ db'.items[i] # NoRow
                    /\ \A j \in Item : SentBefore(db, j, i) => SentBefore(db', j, i)
  BY DEF OrderKept
<1>1. CASE v = 1
  <2>1. db'.items = db.items
    BY <1>0, <1>1, ScriptsDefined DEF Applied
  <2> QED BY <2>1 DEF SentBefore
<1>2. CASE v = 2
  <2>1. \A j \in Item : db.items[j] # NoRow => db'.items[j] = db.items[j]
    BY <1>0, <1>2, ScriptsDefined, BatchRelaysDoes DEF Applied
  <2>2. \A j \in Item : SentBefore(db, j, i) => db.items[j] # NoRow
    BY <1>0, DatabaseTypes DEF SentBefore
  <2> QED BY <2>1, <2>2 DEF SentBefore
<1>3. CASE v = 3
  <2>1. \A j \in Item : /\ db.items[j] # NoRow => /\ db'.items[j] # NoRow
                                                  /\ db'.items[j].order = RowNumber(db, j)
                        /\ db'.items[j].relay = db.items[j].relay
    BY <1>0, <1>3, ScriptsDefined, ItemOrderUniqueDoes DEF Applied
  <2>2. ASSUME NEW j \in Item, SentBefore(db, j, i) PROVE SentBefore(db', j, i)
    <3>1. db.items[j] # NoRow /\ db.items[j].relay = db.items[i].relay
      BY <1>0, <2>2, DatabaseTypes DEF SentBefore
    <3>2. RowNumber(db, j) < RowNumber(db, i)
      BY <1>0, <2>2, RowNumberKeepsOrder
    <3> QED BY <2>1, <3>1, <3>2 DEF SentBefore
  <2> QED BY <2>1, <2>2
<1> QED BY <1>0, <1>1, <1>2, <1>3 DEF Applied, Version

LEMMA StepKeepsOrder ==
    ASSUME MigrationsInv, Next
    PROVE  OrderKept
<1>1. CASE UNCHANGED db
  BY <1>1 DEF OrderKept, SentBefore
<1>2. ASSUME NEW p \in Instance, Commit(p) \/ CommitAnswerLost(p) PROVE OrderKept
  BY <1>2, CommitKeepsOrder DEF Commit, CommitAnswerLost
<1> QED BY <1>1, <1>2 DEF Next, Proceed, Start, Check, Exec, Deadlock, Record, Fail

-----------------------------------------------------------------------------
(* The life of a process.                                                  *)

LEMMA ProcessInitially ==
    ASSUME App!Init
    PROVE  App!LifecycleInv
<1>1. App!TypeOK
  BY DEF App!Init, App!TypeOK, App!Step
<1>2. App!StageRight
  BY DEF App!Init, App!StageRight, App!NoRequests
<1>3. App!ReadinessHonest
  BY DEF App!Init, App!ReadinessHonest
<1>4. App!CleanExitIsClean /\ App!ResourcesClosed
  BY DEF App!Init, App!CleanExitIsClean, App!ResourcesClosed
<1> QED BY <1>1, <1>2, <1>3, <1>4 DEF App!LifecycleInv

(* The promises of LifecycleInv about what was seen and what is returned.  *)
Promises == App!ReadinessHonest /\ App!CleanExitIsClean /\ App!ResourcesClosed

(* main moves on. *)
LEMMA MainStep ==
    ASSUME App!LifecycleInv, App!Main
    PROVE  App!LifecycleInv'
<1>0. App!TypeOK /\ App!StageRight /\ Promises
  BY DEF App!LifecycleInv, Promises
<1> SUFFICES App!TypeOK' /\ App!StageRight' /\ Promises'
  BY DEF App!LifecycleInv, Promises
<1> USE DEF App!mainOnly, App!Goto, App!Failed
<1>1. CASE App!LoadConfig
  <2>1. App!TypeOK'
    BY <1>0, <1>1 DEF App!LoadConfig, App!TypeOK, App!Step
  <2>2. App!StageRight'
    BY <1>0, <1>1 DEF App!LoadConfig, App!StageRight, App!NoRequests, App!TypeOK
  <2>3. Promises'
    BY <1>0, <1>1
       DEF App!LoadConfig, App!StageRight, App!NoRequests, Promises, App!ReadinessHonest,
           App!CleanExitIsClean, App!ResourcesClosed
  <2> QED BY <2>1, <2>2, <2>3
<1>2. CASE App!CreatePool
  <2>1. App!TypeOK'
    BY <1>0, <1>2 DEF App!CreatePool, App!TypeOK, App!Step
  <2>2. App!StageRight'
    BY <1>0, <1>2 DEF App!CreatePool, App!StageRight, App!NoRequests, App!TypeOK
  <2>3. Promises'
    BY <1>0, <1>2
       DEF App!CreatePool, App!StageRight, App!NoRequests, Promises, App!ReadinessHonest,
           App!CleanExitIsClean, App!ResourcesClosed
  <2> QED BY <2>1, <2>2, <2>3
<1>3. CASE App!Migrate
  <2>1. App!TypeOK'
    BY <1>0, <1>3 DEF App!Migrate, App!TypeOK, App!Step
  <2>2. App!StageRight'
    BY <1>0, <1>3 DEF App!Migrate, App!StageRight, App!NoRequests, App!TypeOK
  <2>3. Promises'
    BY <1>0, <1>3
       DEF App!Migrate, App!StageRight, App!NoRequests, Promises, App!ReadinessHonest,
           App!CleanExitIsClean, App!ResourcesClosed
  <2> QED BY <2>1, <2>2, <2>3
<1>4. CASE App!CreateBot
  <2>1. App!TypeOK'
    BY <1>0, <1>4 DEF App!CreateBot, App!TypeOK, App!Step
  <2>2. App!StageRight'
    BY <1>0, <1>4 DEF App!CreateBot, App!StageRight, App!NoRequests, App!TypeOK
  <2>3. Promises'
    BY <1>0, <1>4
       DEF App!CreateBot, App!StageRight, App!NoRequests, Promises, App!ReadinessHonest,
           App!CleanExitIsClean, App!ResourcesClosed
  <2> QED BY <2>1, <2>2, <2>3
<1>5. CASE App!StartGoroutines
  <2>1. App!TypeOK'
    BY <1>0, <1>5 DEF App!StartGoroutines, App!TypeOK, App!Step
  <2>2. App!StageRight'
    BY <1>0, <1>5 DEF App!StartGoroutines, App!StageRight, App!NoRequests, App!TypeOK
  <2>3. Promises'
    BY <1>0, <1>5
       DEF App!StartGoroutines, App!StageRight, App!NoRequests, Promises, App!ReadinessHonest,
           App!CleanExitIsClean, App!ResourcesClosed
  <2> QED BY <2>1, <2>2, <2>3
<1>6. CASE App!RegisterWebhook
  <2>1. App!TypeOK'
    <3>1. background' \subseteq {"runner", "bot"}
      BY <1>0, <1>6 DEF App!RegisterWebhook, App!TypeOK
    <3> QED BY <1>0, <1>6, <3>1 DEF App!RegisterWebhook, App!TypeOK, App!Step
  <2>2. App!StageRight'
    BY <1>0, <1>6 DEF App!RegisterWebhook, App!StageRight, App!NoRequests, App!TypeOK
  <2>3. Promises'
    BY <1>0, <1>6
       DEF App!RegisterWebhook, App!StageRight, App!NoRequests, Promises, App!ReadinessHonest,
           App!CleanExitIsClean, App!ResourcesClosed
  <2> QED BY <2>1, <2>2, <2>3
<1>7. CASE App!Select
  <2>1. App!TypeOK'
    BY <1>0, <1>7 DEF App!Select, App!TypeOK, App!Step
  <2>2. App!StageRight'
    BY <1>0, <1>7 DEF App!Select, App!StageRight, App!NoRequests, App!TypeOK
  <2>3. Promises'
    BY <1>0, <1>7
       DEF App!Select, App!StageRight, App!NoRequests, Promises, App!ReadinessHonest,
           App!CleanExitIsClean, App!ResourcesClosed
  <2> QED BY <2>1, <2>2, <2>3
<1>8. CASE App!Shutdown
  <2>1. App!TypeOK'
    <3>1. timedOut' \in BOOLEAN
      BY <1>0, <1>8 DEF App!Shutdown, App!TypeOK
    <3>2. main' \in App!Step /\ exitCode' \in {0, 1}
      BY <1>0, <1>8 DEF App!Shutdown, App!TypeOK, App!Step
    <3> QED BY <1>0, <1>8, <3>1, <3>2 DEF App!Shutdown, App!TypeOK
  <2>2. App!StageRight'
    BY <1>0, <1>8 DEF App!Shutdown, App!StageRight, App!NoRequests, App!TypeOK
  <2>3. Promises'
    BY <1>0, <1>8
       DEF App!Shutdown, App!StageRight, App!NoRequests, Promises, App!ReadinessHonest,
           App!CleanExitIsClean, App!ResourcesClosed
  <2> QED BY <2>1, <2>2, <2>3
<1>9. CASE App!CloseRedis
  <2>1. App!TypeOK'
    BY <1>0, <1>9 DEF App!CloseRedis, App!TypeOK, App!Step
  <2>2. App!StageRight'
    BY <1>0, <1>9 DEF App!CloseRedis, App!StageRight, App!NoRequests, App!TypeOK
  <2>3. Promises'
    BY <1>0, <1>9
       DEF App!CloseRedis, App!StageRight, App!NoRequests, Promises, App!ReadinessHonest,
           App!CleanExitIsClean, App!ResourcesClosed
  <2> QED BY <2>1, <2>2, <2>3
<1>10. CASE App!CloseStore
  <2>1. App!TypeOK'
    BY <1>0, <1>10 DEF App!CloseStore, App!TypeOK, App!Step
  <2>2. App!StageRight'
    BY <1>0, <1>10 DEF App!CloseStore, App!StageRight, App!NoRequests, App!TypeOK
  <2>3. Promises'
    BY <1>0, <1>10
       DEF App!CloseStore, App!StageRight, App!NoRequests, Promises, App!ReadinessHonest,
           App!CleanExitIsClean, App!ResourcesClosed
  <2> QED BY <2>1, <2>2, <2>3
<1>11. CASE App!Exit
  <2>1. App!TypeOK'
    BY <1>0, <1>11 DEF App!Exit, App!TypeOK, App!Step
  <2>2. App!StageRight'
    BY <1>0, <1>11 DEF App!Exit, App!StageRight, App!NoRequests, App!TypeOK
  <2>3. Promises'
    BY <1>0, <1>11
       DEF App!Exit, App!StageRight, App!NoRequests, Promises, App!ReadinessHonest,
           App!CleanExitIsClean, App!ResourcesClosed
  <2> QED BY <2>1, <2>2, <2>3
<1> QED BY <1>1, <1>2, <1>3, <1>4, <1>5, <1>6, <1>7, <1>8, <1>9, <1>10, <1>11 DEF App!Main

(* What runs beside it. *)
LEMMA BesideStep ==
    ASSUME App!LifecycleInv,
           \/ App!Signal \/ App!Listen \/ App!ServerFails
           \/ \E q \in Request : App!Ready(q)
           \/ \E u \in App!User : App!Acquire(u) \/ App!Release(u)
           \/ UNCHANGED appVars
    PROVE  App!LifecycleInv'
<1>0. App!TypeOK /\ App!StageRight /\ Promises
  BY DEF App!LifecycleInv, Promises
<1> SUFFICES App!TypeOK' /\ App!StageRight' /\ Promises'
  BY DEF App!LifecycleInv, Promises
<1> USE DEF App!mainVars, App!Running
<1>1. CASE App!Signal
  <2>1. App!TypeOK'
    BY <1>0, <1>1 DEF App!Signal, App!TypeOK
  <2>2. App!StageRight'
    BY <1>0, <1>1 DEF App!Signal, App!StageRight, App!NoRequests
  <2>3. Promises'
    BY <1>0, <1>1
       DEF App!Signal, App!NoRequests, Promises, App!ReadinessHonest,
           App!CleanExitIsClean, App!ResourcesClosed
  <2> QED BY <2>1, <2>2, <2>3
<1>2. CASE App!Listen
  <2>1. App!TypeOK'
    BY <1>0, <1>2 DEF App!Listen, App!TypeOK
  <2>2. App!StageRight'
    BY <1>0, <1>2 DEF App!Listen, App!StageRight, App!NoRequests
  <2>3. Promises'
    BY <1>0, <1>2
       DEF App!Listen, App!NoRequests, Promises, App!ReadinessHonest,
           App!CleanExitIsClean, App!ResourcesClosed
  <2> QED BY <2>1, <2>2, <2>3
<1>3. CASE App!ServerFails
  <2>1. App!TypeOK'
    BY <1>0, <1>3 DEF App!ServerFails, App!TypeOK
  <2>2. App!StageRight'
    BY <1>0, <1>3 DEF App!ServerFails, App!StageRight, App!NoRequests
  <2>3. Promises'
    BY <1>0, <1>3
       DEF App!ServerFails, App!NoRequests, Promises, App!ReadinessHonest,
           App!CleanExitIsClean, App!ResourcesClosed
  <2> QED BY <2>1, <2>2, <2>3
<1>4. ASSUME NEW q \in Request, App!Ready(q)
      PROVE  App!TypeOK' /\ App!StageRight' /\ Promises'
  <2>1. App!TypeOK'
    BY <1>0, <1>4 DEF App!Ready, App!TypeOK
  <2>2. App!StageRight'
    BY <1>0, <1>4 DEF App!Ready, App!StageRight, App!NoRequests, App!TypeOK
  <2>3. main # "exited" /\ main' = main /\ exitCode' = exitCode
    BY <1>4 DEF App!Ready
  <2>4. App!CleanExitIsClean' /\ App!ResourcesClosed'
    BY <2>3 DEF App!CleanExitIsClean, App!ResourcesClosed
  <2>5. App!ReadinessHonest'
    <3>1. CASE UNCHANGED unready
      BY <1>0, <2>3, <3>1 DEF Promises, App!ReadinessHonest
    <3>2. CASE request[q] # "idle" /\ (pool # "open" \/ redis # "open")
      <4>1. ~App!NoRequests
        BY <3>2 DEF App!NoRequests
      <4>2. exitCode = 1
        BY <1>0, <2>3, <3>2, <4>1 DEF App!TypeOK, App!Step, App!StageRight
      <4> QED BY <2>3, <4>2 DEF App!ReadinessHonest
    <3> QED BY <1>4, <3>1, <3>2 DEF App!Ready
  <2>6. Promises'
    BY <2>4, <2>5 DEF Promises
  <2> QED BY <2>1, <2>2, <2>6
<1>5. ASSUME NEW u \in App!User, App!Acquire(u) \/ App!Release(u)
      PROVE  App!TypeOK' /\ App!StageRight' /\ Promises'
  <2>1. busy' \subseteq App!User
    BY <1>0, <1>5 DEF App!Acquire, App!Release, App!TypeOK
  <2>2. UNCHANGED <<main, exitCode, webhook, cancelled, pool, redis, server, serverErr,
                    background, request, timedOut, unready>>
    BY <1>5 DEF App!Acquire, App!Release
  <2> QED BY <1>0, <2>1, <2>2
          DEF App!TypeOK, App!StageRight, App!NoRequests, Promises, App!ReadinessHonest,
              App!CleanExitIsClean, App!ResourcesClosed
<1>6. CASE UNCHANGED appVars
  BY <1>0, <1>6
     DEF appVars, App!TypeOK, App!StageRight, App!NoRequests, Promises, App!ReadinessHonest,
         App!CleanExitIsClean, App!ResourcesClosed
<1> QED BY <1>1, <1>2, <1>3, <1>4, <1>5, <1>6

-----------------------------------------------------------------------------
(* The theorems.                                                           *)

LEMMA StartupInitially == StartupInit => SchemaRight /\ ExitOrderly
BY MigrationsInitially, ProcessInitially DEF StartupInit, SchemaRight, ExitOrderly

LEMMA StartupSteps ==
    ASSUME [StartupNext]_startupVars
    PROVE  /\ active' = active
           /\ Next \/ UNCHANGED vars
           /\ active = "migrations" => Next \/ UNCHANGED vars
           /\ active = "process" =>
                \/ App!Main
                \/ App!Signal \/ App!Listen \/ App!ServerFails
                \/ \E q \in Request : App!Ready(q)
                \/ \E u \in App!User : App!Acquire(u) \/ App!Release(u)
                \/ UNCHANGED appVars
<1>1. CASE MigrationsNext
  BY <1>1 DEF MigrationsNext, MigrationsOnly, Next, Proceed
<1>2. CASE ProcessNext
  BY <1>2 DEF ProcessNext, ProcessOnly, App!Main
<1>3. CASE Ended \/ UNCHANGED startupVars
  BY <1>3 DEF Ended, startupVars
<1> QED BY <1>1, <1>2, <1>3 DEF StartupNext

LEMMA StartupStep ==
    SchemaRight /\ ExitOrderly /\ [StartupNext]_startupVars => (SchemaRight /\ ExitOrderly)'
<1> SUFFICES ASSUME SchemaRight, ExitOrderly, [StartupNext]_startupVars
             PROVE  SchemaRight' /\ ExitOrderly'
  OBVIOUS
<1>1. SchemaRight'
  BY StartupSteps, MigrationsStep DEF SchemaRight
<1>2. ExitOrderly'
  BY StartupSteps, MainStep, BesideStep DEF ExitOrderly
<1> QED BY <1>1, <1>2

(* However many instances migrate one database together, and wherever they *)
(* fail, each script takes effect once and in its order, an instance that  *)
(* comes up finds the whole schema, and every relay's items are numbered   *)
(* 1, 2, ... (migrator.go:44-70).                                          *)
THEOREM SchemaAlwaysRight == FairStartupSpec => []SchemaRight
<1> QED BY StartupInitially, StartupStep, PTL DEF FairStartupSpec

(* However a process ends its stores are closed, and exit status 0 says    *)
(* that a signal came and that no request was cut off or failed for want   *)
(* of a store (app.go:242-271, 292).                                       *)
THEOREM ExitAlwaysOrderly == FairStartupSpec => []ExitOrderly
<1> QED BY StartupInitially, StartupStep, PTL DEF FairStartupSpec

(* No migration changes the order in which a relay's files are sent, nor   *)
(* drops a file (db/migrations/003: ROW_NUMBER by item_order, then id).    *)
THEOREM FilesAlwaysKeepOrder == FairStartupSpec => FilesKeepOrder
<1>1. SchemaRight /\ [StartupNext]_startupVars
      => [\A i \in Item : db.items[i] # NoRow =>
             /\ db'.items[i] # NoRow
             /\ \A j \in Item : SentBefore(db, j, i) => SentBefore(db', j, i)]_vars
  <2> SUFFICES ASSUME SchemaRight, StartupNext, vars' # vars
               PROVE  OrderKept
    BY DEF OrderKept, startupVars
  <2>1. MigrationsNext
    BY DEF StartupNext, ProcessNext, ProcessOnly, Ended, startupVars
  <2>2. MigrationsInv /\ Next
    BY <2>1 DEF MigrationsNext, MigrationsOnly, SchemaRight, Next, Proceed
  <2> QED BY <2>2, StepKeepsOrder
<1> QED BY <1>1, SchemaAlwaysRight, PTL DEF FairStartupSpec, FilesKeepOrder

=============================================================================
