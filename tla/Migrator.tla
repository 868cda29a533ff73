------------------------------ MODULE Migrator ------------------------------
(***************************************************************************)
(* RunMigrations (internal/store/postgres/migrator.go) and the three       *)
(* scripts of db/migrations, run by every instance of the program when it  *)
(* starts. Several instances may start at once, and one that fails exits   *)
(* and is started again (compose-app.yaml:30).                             *)
(*                                                                         *)
(* A script and the record of it are one transaction. Its DDL locks the    *)
(* tables against the script of every other open transaction until COMMIT, *)
(* so of these one at a time gets to the end of its script. The others     *)
(* wait at a CREATE, or, in 003, deadlock with it: there the UPDATE comes  *)
(* first, which locks out no other UPDATE.                                 *)
(***************************************************************************)
EXTENDS Naturals, FiniteSets

CONSTANTS
    Instance,  \* instances of the program
    Relay,     \* rows of relays
    Item,      \* files, numbered as relay_items.id numbers them
    NoRelay,
    MaxFaults  \* bound: failed statements and crashes in one behaviour

ASSUME ItemsAreNumbered == Item \subseteq Nat /\ IsFiniteSet(Item)
ASSUME NoRelayIsNone == NoRelay \notin Relay
ASSUME MaxFaultsIsNat == MaxFaults \in Nat

Version == 1 .. 3  \* the files of db/migrations, in the order of their names

VARIABLES
    db,      \* the committed database
    inst,    \* what each instance is doing
    tx,      \* the database as each instance's open transaction sees it
    runs,    \* history: how often each script has been committed
    faults

vars == <<db, inst, tx, runs, faults>>

Row == [relay : Relay, order : Nat]
NoRow == [relay |-> NoRelay, order |-> 0]

Database == [recorded : SUBSET Version,                     \* schema_migrations
             single   : [Item -> Relay \cup {NoRelay}],     \* the relay a file made by itself
             items    : [Item -> Row \cup {NoRow}],         \* relay_items
             indexes  : SUBSET {"plain", "unique"}]         \* on (relay_id, item_order)

NoTx == [recorded |-> {}, single |-> [i \in Item |-> NoRelay],
         items |-> [i \in Item |-> NoRow], indexes |-> {}]

InstanceState == [pc : {"down", "check", "exec", "record", "commit", "up"}, version : Version]

Down == [pc |-> "down", version |-> 1]

TypeOK ==
    /\ db \in Database
    /\ inst \in [Instance -> InstanceState]
    /\ tx \in [Instance -> Database]
    /\ runs \in [Version -> Nat]
    /\ faults \in 0 .. MaxFaults

-----------------------------------------------------------------------------
(* The scripts. All of their CREATEs and DROPs are IF [NOT] EXISTS. *)

(* 002: every relay of the first schema becomes a relay of one item.       *)
BatchRelays(d) ==
    [d EXCEPT !.items = [i \in Item |->
                            IF d.items[i] = NoRow /\ d.single[i] # NoRelay
                            THEN [relay |-> d.single[i], order |-> 1]
                            ELSE d.items[i]],
              !.indexes = @ \cup {"plain"}]

(* Fault: ROW_NUMBER() over the ids only. *)
BeforeById(d, j, i) == d.items[j].relay = d.items[i].relay /\ j <= i

(* PARTITION BY relay_id ORDER BY item_order, id. *)
Before(d, j, i) ==
    /\ d.items[j].relay = d.items[i].relay
    /\ \/ d.items[j].order < d.items[i].order
       \/ d.items[j].order = d.items[i].order /\ j <= i

(* 003: items are numbered again, and no two may share a number. *)
ItemOrderUnique(d) ==
    [d EXCEPT !.items = [i \in Item |->
                            IF d.items[i] = NoRow THEN NoRow
                            ELSE [d.items[i] EXCEPT
                                    !.order = Cardinality({j \in Item : Before(d, j, i)})]],
              !.indexes = (@ \ {"plain"}) \cup {"unique"}]

(* 001 creates the tables that the model has from the start. *)
Script(v, d) ==
    CASE v = 1 -> d
      [] v = 2 -> BatchRelays(d)
      [] v = 3 -> ItemOrderUnique(d)

-----------------------------------------------------------------------------
Fault == faults < MaxFaults /\ faults' = faults + 1

At(p, pc) == inst[p].pc = pc

Go(p, pc) == inst' = [inst EXCEPT ![p].pc = pc]

(* The error is returned and the program exits. *)
Exit(p) == inst' = [inst EXCEPT ![p] = Down]

NextFile(p) ==
    inst' = [inst EXCEPT ![p] = IF @.version = 3 THEN [@ EXCEPT !.pc = "up"]
                                ELSE [pc |-> "check", version |-> @.version + 1]]

Start(p) ==
    /\ At(p, "down")
    /\ Go(p, "check")
    /\ UNCHANGED <<db, tx, runs, faults>>

(* Fault: every file executed, applied or not. *)
CheckNothing(p) ==
    /\ At(p, "check")
    /\ Go(p, "exec")
    /\ UNCHANGED <<db, tx, runs, faults>>

(* migrationApplied *)
Check(p) ==
    /\ At(p, "check")
    /\ IF inst[p].version \in db.recorded THEN NextFile(p) ELSE Go(p, "exec")
    /\ UNCHANGED <<db, tx, runs, faults>>

(* p's transaction has executed its script, whose DDL holds the tables' locks. *)
InTransaction(p) == inst[p].pc \in {"record", "commit"}

Exec(p) ==
    /\ At(p, "exec")
    /\ \A q \in Instance : ~InTransaction(q)
    /\ tx' = [tx EXCEPT ![p] = Script(inst[p].version, db)]
    /\ Go(p, "record")
    /\ UNCHANGED <<db, runs, faults>>

(* Two instances are past the UPDATE of 003, neither can drop the index    *)
(* that the other's UPDATE has locked, and PostgreSQL aborts one of them.  *)
Deadlock(p) ==
    /\ At(p, "exec") /\ inst[p].version = 3
    /\ \A q \in Instance : ~InTransaction(q)
    /\ tx' = [tx EXCEPT ![p] = Script(3, db)]
    /\ \E q \in Instance \ {p} :
          /\ inst[q] = inst[p]
          /\ inst' = [inst EXCEPT ![p].pc = "record", ![q] = Down]
    /\ UNCHANGED <<db, runs, faults>>

(* Fault: INSERT ... ON CONFLICT DO NOTHING. *)
NeverRecorded(p) == FALSE

AlreadyRecorded(p) == inst[p].version \in tx[p].recorded

(* INSERT INTO schema_migrations; its primary key refuses a version that   *)
(* another instance has recorded since the check.                          *)
Record(p) ==
    /\ At(p, "record")
    /\ IF AlreadyRecorded(p)
       THEN Exit(p) /\ tx' = [tx EXCEPT ![p] = NoTx]
       ELSE Go(p, "commit") /\ tx' = [tx EXCEPT ![p].recorded = @ \cup {inst[p].version}]
    /\ UNCHANGED <<db, runs, faults>>

CommitTx(p) ==
    /\ At(p, "commit")
    /\ db' = tx[p]
    /\ tx' = [tx EXCEPT ![p] = NoTx]
    /\ runs' = [runs EXCEPT ![inst[p].version] = @ + 1]

Commit(p) ==
    /\ CommitTx(p)
    /\ NextFile(p)
    /\ UNCHANGED faults

CommitAnswerLost(p) ==
    /\ CommitTx(p)
    /\ Fault
    /\ Exit(p)

(* A statement fails, two CREATE TABLE IF NOT EXISTS at once among the     *)
(* reasons, or the process is killed; its transaction is rolled back.      *)
Fail(p) ==
    /\ ~At(p, "down")
    /\ Fault
    /\ Exit(p)
    /\ tx' = [tx EXCEPT ![p] = NoTx]
    /\ UNCHANGED <<db, runs>>

-----------------------------------------------------------------------------
(* The numbers of each relay's items are 1, 2, ... *)
Numbered(items) ==
    \A i \in Item : items[i] # NoRow =>
        LET siblings == {j \in Item : items[j].relay = items[i].relay}
        IN  {items[j].order : j \in siblings} = 1 .. Cardinality(siblings)

(* A database left by any earlier version of the program. The first knew   *)
(* single files; 003 takes the numbers of the second as it finds them.     *)
InitialDb(n) ==
    {d \in [recorded : {1 .. n},
            single   : [Item -> IF n = 1 THEN Relay \cup {NoRelay} ELSE {NoRelay}],
            items    : [Item -> IF n < 2 THEN {NoRow}
                                ELSE [relay : Relay, order : 1 .. Cardinality(Item)]],
            indexes  : {IF n = 3 THEN {"unique"} ELSE IF n = 2 THEN {"plain"} ELSE {}}] :
        /\ \A i, j \in Item : i # j /\ d.single[i] # NoRelay => d.single[i] # d.single[j]
        /\ n = 3 => Numbered(d.items)}

Init ==
    /\ db \in UNION {InitialDb(n) : n \in 0 .. 3}
    /\ inst = [p \in Instance |-> Down]
    /\ tx = [p \in Instance |-> NoTx]
    /\ runs = [v \in Version |-> IF v \in db.recorded THEN 1 ELSE 0]
    /\ faults = 0

Proceed(p) ==
    Start(p) \/ Check(p) \/ Exec(p) \/ Deadlock(p) \/ Record(p) \/ Commit(p)

Next == \E p \in Instance : Proceed(p) \/ CommitAnswerLost(p) \/ Fail(p)

Spec == Init /\ [][Next]_vars

(* A statement returns or fails, and an instance that exits is restarted. *)
FairSpec == Spec /\ \A p \in Instance : WF_vars(Proceed(p))

-----------------------------------------------------------------------------
(* Each script takes effect once, and a script has taken effect if and     *)
(* only if it is recorded, although two instances may both find it missing *)
(* and both execute it, and either may fail between the two statements     *)
(* (migrator.go:44-70).                                                    *)
AppliedOnce ==
    /\ \A v \in Version : runs[v] = IF v \in db.recorded THEN 1 ELSE 0
    /\ ("plain" \in db.indexes) = (2 \in db.recorded /\ 3 \notin db.recorded)
    /\ ("unique" \in db.indexes) = (3 \in db.recorded)

(* Scripts are recorded in the order of their names, with none left out:   *)
(* what an instance that comes up finds is the whole schema.               *)
WholeSchema ==
    /\ \A v \in db.recorded : 1 .. v \subseteq db.recorded
    /\ \A p \in Instance : At(p, "up") => db.recorded = Version

(* What the program of this version relies on (RelayStore's OrderGapFree): *)
(* a relay's items are numbered 1, 2, ... and every old relay has its item. *)
ItemsMigrated ==
    /\ 3 \in db.recorded => Numbered(db.items)
    /\ 2 \in db.recorded => \A i \in Item : db.single[i] # NoRelay => db.items[i] # NoRow

(* What p knows of the database: every script before its own is applied,   *)
(* what its transaction has made of the tables, and, once it has recorded  *)
(* its script, that nobody else has.                                       *)
InstanceRight(p) ==
    LET v == inst[p].version
    IN  /\ IF At(p, "down") THEN inst[p] = Down
           ELSE \A w \in Version : w < v => w \in db.recorded
        /\ At(p, "record") => tx[p] = Script(v, db)
        /\ At(p, "commit") => /\ v \notin db.recorded
                              /\ tx[p] = [Script(v, db) EXCEPT !.recorded = @ \cup {v}]

OneInTransaction ==
    \A p, q \in Instance : InTransaction(p) /\ InTransaction(q) => p = q

(* The inductive invariant of the migrations. *)
MigrationsInv ==
    /\ TypeOK /\ AppliedOnce /\ WholeSchema /\ ItemsMigrated
    /\ OneInTransaction
    /\ \A p \in Instance : InstanceRight(p)

SentBefore(d, j, i) ==
    /\ d.items[j].relay = d.items[i].relay
    /\ \/ d.items[j].order < d.items[i].order
       \/ d.items[j].order = d.items[i].order /\ j < i

(* Migrations never change the order in which a relay's files are sent     *)
(* (item_order, then id), nor drop one.                                    *)
FilesKeepOrder ==
    [][\A i \in Item : db.items[i] # NoRow =>
          /\ db'.items[i] # NoRow
          /\ \A j \in Item : SentBefore(db, j, i) => SentBefore(db', j, i)]_vars

(* Every instance has come up, which each does in the end: the loser of a  *)
(* race exits, is restarted and finds the migration applied.               *)
AllUp == \A p \in Instance : At(p, "up")

=============================================================================
