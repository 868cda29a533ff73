------------------------ MODULE BatchProgressProofs ------------------------
(***************************************************************************)
(* What BatchProgress promises, proved for any number of handlers, relays, *)
(* messages, files and faults.                                             *)
(*                                                                         *)
(* A batch never becomes unknown again, it only gets more files, what was  *)
(* shown stays shown and a message keeps its batch (WorldGrows), so what a *)
(* record said once it says for ever (RecordStays), however late it is     *)
(* merged. ProgressInv then follows action by action.                      *)
(***************************************************************************)
EXTENDS BatchProgress, SequenceTheorems, TLAPS

-----------------------------------------------------------------------------
(* What every step leaves of the chat and of the relays. *)
WorldGrows ==
    /\ \A r \in Relay : batch[r] # "none" => batch'[r] # "none"
    /\ \A r \in Relay : items[r] <= items'[r]
    /\ announced \subseteq announced'
    /\ Len(messages) <= Len(messages')
    /\ \A m \in 1 .. Len(messages) : messages'[m].relay = messages[m].relay
    /\ \A shown \in announced' \ announced : shown[2] <= items'[shown[1]]

LEMMA QuietGrows ==
    ASSUME TypeOK, UNCHANGED <<batch, items, messages, announced>>
    PROVE  WorldGrows
BY DEF TypeOK, WorldGrows

LEMMA NamesStays ==
    ASSUME TypeOK, TypeOK', WorldGrows, NEW m, NEW r, Names(m, r)
    PROVE  Names(m, r)'
<1>1. Len(messages) \in Nat /\ Len(messages') \in Nat
  BY DEF TypeOK
<1> QED BY <1>1 DEF WorldGrows, Names

LEMMA CountStays ==
    ASSUME TypeOK, TypeOK', WorldGrows, NEW r \in Relay, NEW n \in Nat,
           batch[r] # "none", n <= items[r]
    PROVE  batch'[r] # "none" /\ n <= items'[r]
<1>1. items[r] \in Nat /\ items'[r] \in Nat
  BY ProgressAssumption DEF TypeOK
<1> QED BY <1>1 DEF WorldGrows

(* What a record says stays true. *)
LEMMA RecordStays ==
    ASSUME TypeOK, TypeOK', WorldGrows, NEW s \in Session, RecordTrue(s)
    PROVE  RecordTrue(s)'
<1>1. CASE s.relay = NoRelay
  BY <1>1 DEF RecordTrue
<1>2. CASE s.relay # NoRelay
  <2>1. s.relay \in Relay /\ s.count \in Nat
    BY <1>2 DEF Session
  <2>2. batch'[s.relay] # "none" /\ s.count <= items'[s.relay]
    BY <1>2, <2>1, CountStays DEF RecordTrue
  <2>3. s.message # NoMessage => Names(s.message, s.relay)'
    BY <1>2, NamesStays DEF RecordTrue
  <2>4. s.notified > 0 => <<s.relay, s.notified>> \in announced'
    BY <1>2 DEF RecordTrue, WorldGrows
  <2> QED BY <1>2, <2>2, <2>3, <2>4 DEF RecordTrue
<1> QED BY <1>1, <1>2

(* So does what a handler has read, wherever it is. *)
LEMMA HandlerStays ==
    ASSUME TypeOK, TypeOK', WorldGrows, NEW s \in HandlerState, HandlerTrue(s)
    PROVE  HandlerTrue(s)'
<1>1. s.own \in Session /\ s.count \in Nat /\ s.relay \in Relay \cup {NoRelay}
  BY ProgressAssumption DEF HandlerState
<1>2. RecordTrue(s.own)'
  BY <1>1, RecordStays DEF HandlerTrue
<1>3. s.relay # NoRelay => batch'[s.relay] # "none" /\ s.count <= items'[s.relay]
  BY <1>1, CountStays DEF HandlerTrue
<1>4. s.pc = "reload" => Names(s.message, s.relay)' /\ <<s.relay, s.count>> \in announced'
  BY NamesStays DEF HandlerTrue, WorldGrows
<1> QED BY <1>2, <1>3, <1>4 DEF HandlerTrue

-----------------------------------------------------------------------------
(* One handler moves.                                                      *)

(* The relays that h or the session knows. *)
Known(h) == {NoRelay, session.relay, handler[h].relay, handler[h].own.relay}

(* It goes on as t, with relays that were known. *)
GoesOnAs(h, t) ==
    /\ handler' = [handler EXCEPT ![h] = t]
    /\ t.pc # "set"
    /\ t.relay \in Known(h) /\ t.own.relay \in Known(h) /\ session'.relay \in Known(h)

LEMMA ShownStaysTrue ==
    ASSUME TypeOK, TypeOK', WorldGrows, ShownCountsTrue
    PROVE  ShownCountsTrue'
<1> SUFFICES ASSUME NEW shown \in announced' PROVE shown[2] <= items'[shown[1]]
  BY DEF ShownCountsTrue, TypeOK
<1>1. CASE shown \notin announced
  BY <1>1 DEF WorldGrows
<1>2. CASE shown \in announced
  <2>1. shown \in Relay \X (0 .. MaxItems) /\ shown[2] <= items[shown[1]]
    BY <1>2 DEF TypeOK, ShownCountsTrue
  <2>2. PICK r \in Relay, n \in 0 .. MaxItems : shown = <<r, n>>
    BY <2>1
  <2>3. items[r] \in Nat /\ items'[r] \in Nat /\ n \in Nat
    BY ProgressAssumption DEF TypeOK
  <2> QED BY <2>1, <2>2, <2>3 DEF WorldGrows
<1> QED BY <1>1, <1>2

(* The parts of ProgressInv about the session are parts of RecordTrue. *)
LEMMA SessionTrue ==
    ASSUME RecordTrue(session)
    PROVE  SessionNamesOwnMessage /\ NotifiedWasShown
BY DEF RecordTrue, SessionNamesOwnMessage, NotifiedWasShown, NoSession, Names, NoMessage

LEMMA OneMoves ==
    ASSUME ProgressInv, NEW h \in Handler, NEW t \in HandlerState, TypeOK', WorldGrows,
           GoesOnAs(h, t), RecordTrue(session)', HandlerTrue(t)'
    PROVE  ProgressInv'
<1>0. /\ TypeOK /\ ShownCountsTrue /\ handler \in [Handler -> HandlerState]
      /\ \A g \in Handler : HandlerTrue(handler[g]) /\ StartAlone(g)
  BY DEF ProgressInv, TypeOK
<1>1. SessionNamesOwnMessage' /\ NotifiedWasShown'
  BY SessionTrue, PTL
<1>2. handler'[h] = t /\ \A g \in Handler \ {h} : handler'[g] = handler[g]
  BY <1>0 DEF GoesOnAs
<1>3. ASSUME NEW g \in Handler PROVE HandlerTrue(handler[g])'
  <2>1. PICK s \in HandlerState : s = handler'[g] /\ (g = h => s = t)
                                  /\ (g # h => s = handler[g])
    BY <1>0, <1>2
  <2>2. HandlerTrue(s)'
    BY <1>0, <2>1, HandlerStays
  <2> QED BY <2>1, <2>2 DEF HandlerTrue, RecordTrue
<1>4. ASSUME NEW g \in Handler PROVE StartAlone(g)'
  <2> SUFFICES ASSUME handler'[g].pc = "set"
               PROVE  /\ session'.relay # handler'[g].relay
                      /\ \A k \in Handler : /\ handler'[k].own.relay # handler'[g].relay
                                            /\ handler'[k].relay = handler'[g].relay => k = g
    BY DEF StartAlone
  <2>1. g # h /\ handler'[g] = handler[g]
    BY <1>2 DEF GoesOnAs
  <2>2. PICK r : r = handler[g].relay
    OBVIOUS
  <2>3. /\ r # NoRelay /\ session.relay # r
        /\ \A k \in Handler : handler[k].own.relay # r /\ (handler[k].relay = r => k = g)
    BY <1>0, <2>1, <2>2 DEF HandlerTrue, StartAlone
  <2>4. t.relay # r /\ t.own.relay # r /\ session'.relay # r
    BY <2>1, <2>3 DEF GoesOnAs, Known
  <2> QED BY <1>2, <2>1, <2>2, <2>3, <2>4
<1> QED BY <1>0, <1>1, <1>3, <1>4, ShownStaysTrue DEF ProgressInv

-----------------------------------------------------------------------------
(* Steps that leave the chat and the relays as they are.                   *)

(* What a step of h starts from. *)
LEMMA Before ==
    ASSUME ProgressInv, NEW h \in Handler
    PROVE  /\ TypeOK /\ RecordTrue(session) /\ session \in Session
           /\ HandlerTrue(handler[h]) /\ handler[h] \in HandlerState
           /\ handler \in [Handler -> HandlerState]
BY DEF ProgressInv, TypeOK

Quiet ==
    /\ UNCHANGED <<batch, items, messages, announced>>
    /\ UNCHANGED faults \/ Fault

LEMMA QuietTyped ==
    ASSUME TypeOK, Quiet, session' \in Session, handler' \in [Handler -> HandlerState]
    PROVE  TypeOK'
<1>1. faults' \in 0 .. MaxFaults
  BY ProgressAssumption DEF TypeOK, Quiet, Fault
<1> QED BY <1>1 DEF Quiet, TypeOK

(* h goes on, and the session becomes the record s. *)
LEMMA QuietMoves ==
    ASSUME ProgressInv, NEW h \in Handler, Quiet,
           NEW s \in Session, session' = s, RecordTrue(s),
           NEW t \in HandlerState, GoesOnAs(h, t), HandlerTrue(t)
    PROVE  ProgressInv'
<1>1. TypeOK /\ handler' \in [Handler -> HandlerState]
  BY Before DEF GoesOnAs
<1>2. TypeOK' /\ WorldGrows
  BY <1>1, QuietTyped, QuietGrows DEF Quiet
<1>3. RecordTrue(s)' /\ HandlerTrue(t)'
  BY <1>1, <1>2, RecordStays, HandlerStays
<1>4. RecordTrue(session)'
  BY <1>3 DEF RecordTrue
<1> QED BY <1>2, <1>3, <1>4, OneMoves

LEMMA NothingKnown ==
    /\ Idle \in HandlerState /\ HandlerTrue(Idle)
    /\ Idle.pc = "idle" /\ Idle.relay = NoRelay /\ Idle.own = NoSession
    /\ NoSession \in Session /\ RecordTrue(NoSession) /\ NoSession.relay = NoRelay
BY ProgressAssumption
   DEF HandlerTrue, RecordTrue, HandlerState, Idle, NoSession, Session

(* The session is kept or dropped. *)
LEMMA QuietStep ==
    ASSUME ProgressInv, NEW h \in Handler, Quiet, session' \in {session, NoSession},
           NEW t \in HandlerState, handler' = [handler EXCEPT ![h] = t],
           t.pc # "set", t.relay \in Known(h), t.own.relay \in Known(h), HandlerTrue(t)
    PROVE  ProgressInv'
<1>1. PICK s \in Session : s = session' /\ RecordTrue(s) /\ s.relay \in Known(h)
  BY Before, NothingKnown DEF Known
<1>2. GoesOnAs(h, t)
  BY <1>1 DEF GoesOnAs
<1> QED BY <1>1, <1>2, QuietMoves

LEMMA QuietReturn ==
    ASSUME ProgressInv, NEW h \in Handler, Quiet, session' \in {session, NoSession}, Return(h)
    PROVE  ProgressInv'
<1>1. Idle.pc # "set" /\ Idle.relay \in Known(h) /\ Idle.own.relay \in Known(h)
  BY NothingKnown DEF Known
<1> QED BY <1>1, NothingKnown, QuietStep DEF Return

(* h goes on to pc and keeps all it has. *)
LEMMA GoStep ==
    ASSUME ProgressInv, NEW h \in Handler, NEW s \in HandlerState, s = handler[h],
           NEW pc \in {"create", "drop", "list", "insert", "recount", "close"},
           Go(h, pc), Quiet, session' \in {session, NoSession},
           s.pc # "idle",
           pc # "create" => s.relay # NoRelay,
           pc \in {"create", "drop"} => s.count = 0,
           pc \in {"insert", "recount"} => s.own.relay = s.relay
    PROVE  ProgressInv'
<1>1. PICK t \in HandlerState : t = [s EXCEPT !.pc = pc]
  BY DEF HandlerState
<1>2. /\ t.op = s.op /\ t.relay = s.relay /\ t.count = s.count /\ t.own = s.own
      /\ t.pc = pc
  BY <1>1 DEF HandlerState
<1>3. HandlerTrue(t)
  BY <1>2, Before DEF HandlerTrue
<1>4. t.relay \in Known(h) /\ t.own.relay \in Known(h)
  BY <1>2 DEF Known
<1> QED BY <1>1, <1>2, <1>3, <1>4, QuietStep DEF Go

LEMMA ReceiveStep ==
    ASSUME ProgressInv, NEW h \in Handler, Receive(h)
    PROVE  ProgressInv'
<1>1. PICK op \in {"start", "append", "finish", "cancel"}, pc \in {"snapshot", "load"} :
         handler' = [handler EXCEPT ![h].op = op, ![h].pc = pc]
  BY DEF Receive
<1>2. handler[h] = Idle /\ Quiet /\ session' = session
  BY DEF Receive, Quiet
<1>3. PICK t \in HandlerState : t = [Idle EXCEPT !.op = op, !.pc = pc]
  BY NothingKnown DEF HandlerState
<1>4. /\ t.op = op /\ t.pc = pc /\ t.relay = NoRelay /\ t.own = NoSession /\ t.count = 0
  BY <1>3 DEF Idle
<1>5. HandlerTrue(t) /\ t.own.relay = NoRelay
  BY <1>4, NothingKnown DEF HandlerTrue
<1> QED BY <1>1, <1>2, <1>3, <1>4, <1>5, QuietStep DEF Known

LEMMA SnapshotStep ==
    ASSUME ProgressInv, NEW h \in Handler, Snapshot(h)
    PROVE  ProgressInv'
<1>0. PICK s \in HandlerState : s = handler[h]
  BY Before
<1>1. PICK own \in Session :
         /\ own \in {session, s.own} /\ RecordTrue(own)
         /\ handler' = [handler EXCEPT ![h] = [s EXCEPT !.pc = "load", !.own = own]]
  <2>1. CASE handler' = [handler EXCEPT ![h].pc = "load", ![h].own = session]
    BY <1>0, <2>1, Before
  <2>2. CASE Go(h, "load")
    <3>1. s.own \in Session /\ RecordTrue(s.own)
      BY <1>0, Before DEF HandlerState, HandlerTrue
    <3>2. [s EXCEPT !.pc = "load", !.own = s.own] = [s EXCEPT !.pc = "load"]
      BY DEF HandlerState
    <3> QED BY <1>0, <2>2, <3>1, <3>2 DEF Go
  <2> QED BY <2>1, <2>2 DEF Snapshot
<1>2. s.pc = "snapshot" /\ Quiet /\ session' = session
  BY <1>0 DEF Snapshot, Quiet
<1>3. PICK t \in HandlerState : t = [s EXCEPT !.pc = "load", !.own = own]
  BY DEF HandlerState
<1>4. /\ t.op = s.op /\ t.pc = "load" /\ t.relay = s.relay /\ t.own = own
      /\ t.count = s.count
  BY <1>3 DEF HandlerState
<1>5. HandlerTrue(t)
  BY <1>0, <1>1, <1>2, <1>4, Before DEF HandlerTrue
<1> QED BY <1>0, <1>1, <1>2, <1>3, <1>4, <1>5, QuietStep DEF Known

LEMMA LoadSessionStep ==
    ASSUME ProgressInv, NEW h \in Handler, LoadSession(h)
    PROVE  ProgressInv'
<1>0. PICK s \in HandlerState : s = handler[h]
  BY Before
<1>1. s.pc = "load" /\ Quiet /\ session' = session /\ s.count = 0 /\ s.op # "none"
  BY <1>0, Before DEF LoadSession, Quiet, HandlerTrue
<1>2. CASE session # NoSession
  <2>1. PICK own \in Session :
           /\ own \in {session, s.own} /\ RecordTrue(own)
           /\ s.op = "append" => own = session
           /\ handler' = [handler EXCEPT ![h] =
                  [s EXCEPT !.pc = "check", !.relay = session.relay, !.own = own]]
    <3>1. s.own \in Session /\ RecordTrue(s.own)
      BY <1>0, Before DEF HandlerState, HandlerTrue
    <3> QED BY <1>0, <1>2, <3>1, Before DEF LoadSession
  <2>2. PICK r \in Relay : r = session.relay /\ batch[r] # "none" /\ 0 <= items[r]
    BY <1>2, Before DEF RecordTrue, TypeOK, Session
  <2>3. PICK t \in HandlerState :
           t = [s EXCEPT !.pc = "check", !.relay = r, !.own = own]
    BY DEF HandlerState
  <2>4. /\ t.op = s.op /\ t.pc = "check" /\ t.relay = r /\ t.own = own
        /\ t.count = s.count
    BY <2>3 DEF HandlerState
  <2>5. HandlerTrue(t)
    BY <1>1, <2>1, <2>2, <2>4, ProgressAssumption DEF HandlerTrue
  <2> QED BY <1>0, <1>1, <2>1, <2>2, <2>3, <2>4, <2>5, QuietStep DEF Known
<1>3. CASE session = NoSession /\ s.op = "start"
  <2>1. Go(h, "create")
    BY <1>0, <1>3 DEF LoadSession
  <2> QED BY <1>0, <1>1, <2>1, GoStep
<1>4. CASE session = NoSession /\ s.op # "start"
  BY <1>0, <1>1, <1>4, QuietReturn DEF LoadSession
<1> QED BY <1>2, <1>3, <1>4

LEMMA CheckRelayStep ==
    ASSUME ProgressInv, NEW h \in Handler, CheckRelay(h)
    PROVE  ProgressInv'
<1>0. PICK s \in HandlerState : s = handler[h]
  BY Before
<1>1. /\ s.pc = "check" /\ Quiet /\ session' = session
      /\ s.op \in {"start", "append", "finish", "cancel"} /\ s.relay # NoRelay /\ s.count = 0
      /\ s.op = "append" => s.own.relay = s.relay
  BY <1>0, Before DEF CheckRelay, Quiet, HandlerTrue, HandlerState
<1>2. PICK pc : pc = AfterCheck(s.op, batch[s.relay])
  OBVIOUS
<1>3. pc \in {"idle", "insert", "list", "drop"} /\ (pc = "insert" => s.op = "append")
  BY <1>1, <1>2 DEF AfterCheck
<1>4. CASE pc = "idle"
  BY <1>0, <1>1, <1>2, <1>4, QuietReturn DEF CheckRelay
<1>5. CASE pc # "idle"
  <2>1. Go(h, pc)
    BY <1>0, <1>2, <1>5 DEF CheckRelay
  <2> QED BY <1>0, <1>1, <1>3, <1>5, <2>1, GoStep
<1> QED BY <1>4, <1>5

LEMMA DropStaleSessionStep ==
    ASSUME ProgressInv, NEW h \in Handler, DropStaleSession(h)
    PROVE  ProgressInv'
<1>0. PICK s \in HandlerState : s = handler[h]
  BY Before
<1>1. s.pc = "drop" /\ Quiet /\ session' \in {session, NoSession} /\ s.count = 0
  BY <1>0, Before DEF DropStaleSession, DeleteSession, Quiet, HandlerTrue
<1>2. CASE s.op = "start"
  <2>1. Go(h, "create")
    BY <1>0, <1>2 DEF DropStaleSession
  <2> QED BY <1>0, <1>1, <2>1, GoStep
<1>3. CASE s.op # "start"
  BY <1>0, <1>1, <1>3, QuietReturn DEF DropStaleSession
<1> QED BY <1>2, <1>3

(* How many files a relay is found to have. *)
LEMMA FilesFound ==
    ASSUME TypeOK, NEW r \in Relay
    PROVE  FilesIn(r) \in 0 .. MaxItems /\ FilesIn(r) <= items[r]
BY ProgressAssumption DEF TypeOK, FilesIn

LEMMA ListItemsStep ==
    ASSUME ProgressInv, NEW h \in Handler, ListItems(h)
    PROVE  ProgressInv'
<1>0. PICK s \in HandlerState : s = handler[h]
  BY Before
<1>1. s.pc = "list" /\ Quiet /\ session' = session
  BY <1>0 DEF ListItems, Quiet
<1>2. PICK r \in Relay, n \in 0 .. MaxItems :
         r = s.relay /\ n = FilesIn(r) /\ n <= items[r]
  <2>1. s.relay \in Relay
    BY <1>0, <1>1, Before DEF HandlerTrue, HandlerState
  <2> QED BY <2>1, FilesFound, Before
<1>3. CASE s.op = "finish" /\ n = 0
  BY <1>0, <1>1, <1>2, <1>3, QuietReturn DEF ListItems
<1>4. CASE ~(s.op = "finish" /\ n = 0)
  <2>1. PICK t \in HandlerState : t = [s EXCEPT !.pc = "end", !.count = n]
    BY DEF HandlerState
  <2>2. /\ t.op = s.op /\ t.pc = "end" /\ t.relay = r /\ t.own = s.own /\ t.count = n
    BY <1>2, <2>1 DEF HandlerState
  <2>3. handler' = [handler EXCEPT ![h] = t]
    BY <1>0, <1>2, <1>4, <2>1 DEF ListItems
  <2>4. HandlerTrue(t)
    BY <1>0, <1>1, <1>2, <2>2, Before DEF HandlerTrue
  <2> QED BY <1>0, <1>1, <1>2, <2>2, <2>3, <2>4, QuietStep DEF Known
<1> QED BY <1>3, <1>4

LEMMA ClearSessionStep ==
    ASSUME ProgressInv, NEW h \in Handler, ClearSession(h)
    PROVE  ProgressInv'
<1>0. PICK s \in HandlerState : s = handler[h]
  BY Before
<1>1. s.pc = "clear" /\ Quiet /\ session' \in {session, NoSession} /\ s.relay # NoRelay
  BY <1>0, Before DEF ClearSession, DeleteSession, Quiet, HandlerTrue
<1>2. Go(h, "close")
  BY DEF ClearSession
<1> QED BY <1>0, <1>1, <1>2, GoStep

(* A copy with another count. *)
LEMMA RecountedRecord ==
    ASSUME NEW own \in Session, NEW n \in Nat, RecordTrue(own), own.relay # NoRelay,
           n <= items[own.relay]
    PROVE  LET new == [own EXCEPT !.count = n]
           IN  new \in Session /\ RecordTrue(new) /\ new.relay = own.relay
BY DEF Session, RecordTrue

LEMMA AppendRecountStep ==
    ASSUME ProgressInv, NEW h \in Handler, AppendRecount(h)
    PROVE  ProgressInv'
<1>0. PICK s \in HandlerState : s = handler[h]
  BY Before
<1>1. /\ s.pc = "recount" /\ s.op = "append" /\ Quiet /\ session' = session
      /\ s.relay # NoRelay /\ s.own.relay = s.relay /\ s.own \in Session /\ RecordTrue(s.own)
  BY <1>0, Before DEF AppendRecount, At, Quiet, HandlerTrue, HandlerState
<1>2. PICK r \in Relay, n \in 0 .. MaxItems :
         r = s.relay /\ n = FilesIn(r) /\ n <= items[r]
  <2>1. s.relay \in Relay
    BY <1>1 DEF HandlerState
  <2> QED BY <2>1, FilesFound, Before
<1>3. PICK own \in Session :
         own = [s.own EXCEPT !.count = n] /\ RecordTrue(own) /\ own.relay = r
  <2>1. n \in Nat /\ s.own.relay = r
    BY <1>1, <1>2, ProgressAssumption
  <2> QED BY <1>1, <1>2, <2>1, RecountedRecord
<1>4. PICK t \in HandlerState : t = [s EXCEPT !.pc = "merge", !.own = own]
  BY DEF HandlerState
<1>5. /\ t.op = s.op /\ t.pc = "merge" /\ t.relay = r /\ t.own = own /\ t.count = s.count
  BY <1>2, <1>4 DEF HandlerState
<1>6. handler' = [handler EXCEPT ![h] = t]
  BY <1>0, <1>2, <1>3, <1>4 DEF AppendRecount
<1>7. HandlerTrue(t)
  BY <1>0, <1>1, <1>2, <1>3, <1>5, Before DEF HandlerTrue
<1> QED BY <1>0, <1>1, <1>2, <1>3, <1>5, <1>6, <1>7, QuietStep DEF Known

-----------------------------------------------------------------------------
(* Merging.                                                                *)

LEMMA MergedGrows ==
    ASSUME session \in Session, RecordTrue(session),
           NEW own \in Session, RecordTrue(own), own.relay # NoRelay,
           NEW new, new = Merged(own)
    PROVE  /\ new \in Session /\ RecordTrue(new)
           /\ new.relay \in {session.relay, own.relay}
           /\ session # NoSession =>
                 /\ new.relay = session.relay
                 /\ new.count >= session.count /\ new.notified >= session.notified
                 /\ session.message # NoMessage => new.message # NoMessage
<1>1. CASE session = NoSession
  BY <1>1 DEF Merged
<1>2. CASE session # NoSession /\ session.relay # own.relay
  BY <1>2 DEF Merged, Session
<1>3. CASE session # NoSession /\ session.relay = own.relay
  <2>1. new = [session EXCEPT !.count = Larger(@, own.count),
                              !.notified = Larger(@, own.notified),
                              !.message = IF own.message # NoMessage THEN own.message ELSE @]
    BY <1>3 DEF Merged
  <2>2. /\ new.relay = session.relay
        /\ new.count = Larger(session.count, own.count)
        /\ new.notified = Larger(session.notified, own.notified)
        /\ new.message = IF own.message # NoMessage THEN own.message ELSE session.message
        /\ new = [relay |-> new.relay, count |-> new.count, message |-> new.message,
                  notified |-> new.notified]
    BY <2>1 DEF Session
  <2>3. \A m, n \in Nat : Larger(m, n) \in {m, n} /\ Larger(m, n) >= m
    BY DEF Larger
  <2>4. /\ new.count \in {session.count, own.count} /\ new.count >= session.count
        /\ new.notified \in {session.notified, own.notified}
        /\ new.notified >= session.notified
    BY <2>2, <2>3 DEF Session
  <2>5. new \in Session
    BY <2>2, <2>4 DEF Session
  <2>6. RecordTrue(new)
    BY <1>3, <2>2, <2>4 DEF RecordTrue
  <2> QED BY <1>3, <2>2, <2>4, <2>5, <2>6
<1> QED BY <1>1, <1>2, <1>3

LEMMA AppendMergeStep ==
    ASSUME ProgressInv, NEW h \in Handler, AppendMerge(h)
    PROVE  ProgressInv'
<1>0. PICK s \in HandlerState : s = handler[h]
  BY Before
<1>1. /\ s.pc = "merge" /\ s.op = "append" /\ Quiet
      /\ s.own \in Session /\ RecordTrue(s.own) /\ s.own.relay = s.relay
      /\ s.relay \in Relay /\ s.relay # NoRelay
  BY <1>0, Before DEF AppendMerge, At, Quiet, HandlerTrue, HandlerState
<1>2. PICK new \in Session :
         /\ new = Merged(s.own) /\ RecordTrue(new)
         /\ new.relay \in {session.relay, s.own.relay}
  BY <1>1, MergedGrows, Before
<1>3. PICK n \in 0 .. MaxItems :
         /\ n = (IF new.relay = s.own.relay THEN new.count ELSE s.own.count)
         /\ batch[s.relay] # "none" /\ n <= items[s.relay]
  <2>1. /\ batch[s.relay] # "none" /\ s.own.count <= items[s.relay]
        /\ new.relay = s.own.relay => new.count <= items[s.relay]
    BY <1>1, <1>2 DEF RecordTrue
  <2>2. /\ items[s.relay] \in 0 .. MaxItems /\ MaxItems \in Nat
        /\ s.own.count \in Nat /\ new.count \in Nat
    BY <1>1, Before, ProgressAssumption DEF TypeOK, Session
  <2> QED BY <2>1, <2>2
<1>4. PICK t \in HandlerState :
         t = [s EXCEPT !.pc = "notify", !.own = NoSession, !.count = n]
  BY NothingKnown DEF HandlerState
<1>5. /\ t.op = s.op /\ t.pc = "notify" /\ t.relay = s.relay /\ t.own = NoSession
      /\ t.count = n
  BY <1>4 DEF HandlerState
<1>6. session' = new /\ handler' = [handler EXCEPT ![h] = t]
  BY <1>0, <1>2, <1>3, <1>4 DEF AppendMerge
<1>7. HandlerTrue(t)
  BY <1>1, <1>3, <1>5, NothingKnown DEF HandlerTrue
<1>8. GoesOnAs(h, t)
  BY <1>0, <1>1, <1>2, <1>5, <1>6, NothingKnown DEF GoesOnAs, Known
<1> QED BY <1>1, <1>2, <1>6, <1>7, <1>8, QuietMoves

LEMMA PersistProgressStep ==
    ASSUME ProgressInv, NEW h \in Handler, PersistProgress(h)
    PROVE  ProgressInv'
<1>0. PICK s \in HandlerState : s = handler[h]
  BY Before
<1>1. /\ s.pc = "persist" /\ Quiet /\ session' = Merged(s.own)
      /\ handler' = [handler EXCEPT ![h] = Idle]
      /\ s.own \in Session /\ RecordTrue(s.own)
  BY <1>0, Before DEF PersistProgress, Return, Quiet, HandlerTrue, HandlerState
<1>2. PICK new \in Session :
         /\ new = Merged(s.own) /\ RecordTrue(new)
         /\ new.relay \in {session.relay, s.own.relay}
  <2>1. CASE s.own.relay # NoRelay
    BY <1>1, <2>1, MergedGrows, Before
  <2>2. CASE s.own.relay = NoRelay
    <3>1. s.own = NoSession /\ (session.relay = NoRelay => session = NoSession)
      BY <1>1, <2>2, Before DEF RecordTrue
    <3> QED BY <2>2, <3>1, Before DEF Merged
  <2> QED BY <2>1, <2>2
<1>3. GoesOnAs(h, Idle)
  BY <1>0, <1>1, <1>2, NothingKnown DEF GoesOnAs, Known
<1> QED BY <1>1, <1>2, <1>3, NothingKnown, QuietMoves

LEMMA ReloadSessionStep ==
    ASSUME ProgressInv, NEW h \in Handler, ReloadSession(h)
    PROVE  ProgressInv'
<1>0. PICK s \in HandlerState : s = handler[h]
  BY Before
<1>1. /\ s.pc = "reload" /\ Quiet /\ session' = session
      /\ s.relay \in Relay /\ s.relay # NoRelay /\ batch[s.relay] # "none" /\ s.op # "none"
      /\ Names(s.message, s.relay) /\ <<s.relay, s.count>> \in announced
  BY <1>0, Before DEF ReloadSession, Quiet, HandlerTrue, HandlerState
<1>2. CASE ~SessionOf(s.relay)
  BY <1>0, <1>1, <1>2, QuietReturn DEF ReloadSession
<1>3. CASE SessionOf(s.relay)
  <2>1. PICK own \in Session :
           own = [session EXCEPT !.message = s.message,
                                 !.notified = IF s.count > 0 THEN s.count ELSE @]
    <3>1. /\ session \in Session /\ s.message \in MessageId \cup {NoMessage}
          /\ s.count \in Nat
      BY Before, ProgressAssumption DEF HandlerState
    <3> QED BY <3>1 DEF Session
  <2>2. /\ own.relay = s.relay /\ own.count = session.count /\ own.message = s.message
        /\ own.notified = IF s.count > 0 THEN s.count ELSE session.notified
    BY <1>3, <2>1, Before DEF SessionOf, Session
  <2>3. RecordTrue(own)
    BY <1>1, <1>3, <2>2, Before DEF RecordTrue, SessionOf
  <2>4. PICK t \in HandlerState :
           t = [s EXCEPT !.pc = "persist", !.message = NoMessage, !.count = 0, !.own = own]
    <3>1. 0 \in 0 .. MaxItems
      BY ProgressAssumption
    <3> QED BY <3>1 DEF HandlerState
  <2>5. /\ t.op = s.op /\ t.pc = "persist" /\ t.relay = s.relay /\ t.own = own
        /\ t.count = 0
    BY <2>4 DEF HandlerState
  <2>6. handler' = [handler EXCEPT ![h] = t]
    BY <1>0, <1>3, <2>1, <2>4 DEF ReloadSession
  <2>7. 0 <= items[s.relay]
    BY <1>1, Before, ProgressAssumption DEF TypeOK
  <2>8. HandlerTrue(t)
    BY <1>1, <2>3, <2>5, <2>7 DEF HandlerTrue
  <2> QED BY <1>0, <1>1, <2>2, <2>5, <2>6, <2>8, QuietStep DEF Known
<1> QED BY <1>2, <1>3

LEMMA AppendNotifyStep ==
    ASSUME ProgressInv, NEW h \in Handler, AppendNotify(h)
    PROVE  ProgressInv'
<1>0. PICK s \in HandlerState : s = handler[h]
  BY Before
<1>1. s.pc = "notify" /\ s.op = "append" /\ Quiet /\ session' = session /\ s.relay # NoRelay
  BY <1>0, Before DEF AppendNotify, At, Quiet, HandlerTrue
<1>2. CASE Return(h)
  BY <1>1, <1>2, QuietReturn
<1>3. CASE /\ SessionOf(s.relay)
           /\ handler' = [handler EXCEPT
                  ![h].own = IF session.message # NoMessage THEN session ELSE @,
                  ![h].pc = IF session.message # NoMessage THEN "edit" ELSE "send"]
  <2>1. CASE session.message # NoMessage
    <3>1. PICK t \in HandlerState : t = [s EXCEPT !.own = session, !.pc = "edit"]
      BY Before DEF HandlerState
    <3>2. /\ t.op = s.op /\ t.pc = "edit" /\ t.relay = s.relay /\ t.own = session
          /\ t.count = s.count
      BY <3>1 DEF HandlerState
    <3>3. handler' = [handler EXCEPT ![h] = t]
      BY <1>0, <1>3, <2>1, <3>1
    <3>4. HandlerTrue(t)
      BY <1>0, <1>1, <1>3, <2>1, <3>2, Before DEF HandlerTrue, SessionOf
    <3> QED BY <1>0, <1>1, <3>2, <3>3, <3>4, QuietStep DEF Known
  <2>2. CASE session.message = NoMessage
    <3>1. PICK t \in HandlerState : t = [s EXCEPT !.own = s.own, !.pc = "send"]
      BY DEF HandlerState
    <3>2. /\ t.op = s.op /\ t.pc = "send" /\ t.relay = s.relay /\ t.own = s.own
          /\ t.count = s.count
      BY <3>1 DEF HandlerState
    <3>3. handler' = [handler EXCEPT ![h] = t]
      BY <1>0, <1>3, <2>2, <3>1
    <3>4. HandlerTrue(t)
      BY <1>0, <1>1, <3>2, Before DEF HandlerTrue
    <3> QED BY <1>0, <1>1, <3>2, <3>3, <3>4, QuietStep DEF Known
  <2> QED BY <2>1, <2>2
<1> QED BY <1>0, <1>2, <1>3 DEF AppendNotify

-----------------------------------------------------------------------------
(* Failures.                                                               *)

LEMMA GivesUpStep ==
    ASSUME ProgressInv, NEW h \in Handler, Abandon(h) \/ OutOfRelays(h)
    PROVE  ProgressInv'
<1>1. Return(h) /\ Quiet /\ session' = session
  BY DEF Abandon, OutOfRelays, Quiet
<1> QED BY <1>1, QuietReturn

(* No handler moves: the session is lost, or nothing happens. *)
LEMMA NobodyStep ==
    ASSUME ProgressInv, LoseSession \/ UNCHANGED vars
    PROVE  ProgressInv'
<1>0. /\ TypeOK /\ ShownCountsTrue /\ RecordTrue(session) /\ session \in Session
      /\ handler \in [Handler -> HandlerState]
      /\ \A h \in Handler : HandlerTrue(handler[h]) /\ StartAlone(h)
  BY DEF ProgressInv, TypeOK
<1>1. Quiet /\ handler' = handler /\ session' \in {session, NoSession}
  BY DEF LoseSession, vars, Quiet
<1>2. TypeOK' /\ WorldGrows
  BY <1>0, <1>1, NothingKnown, QuietTyped, QuietGrows DEF Quiet
<1>3. RecordTrue(session)'
  <2>1. PICK s \in Session : s = session' /\ RecordTrue(s)
    BY <1>0, <1>1, NothingKnown
  <2>2. RecordTrue(s)'
    BY <1>0, <1>2, <2>1, RecordStays
  <2> QED BY <2>1, <2>2 DEF RecordTrue
<1>4. SessionNamesOwnMessage' /\ NotifiedWasShown'
  BY <1>3, SessionTrue, PTL
<1>5. ASSUME NEW h \in Handler PROVE HandlerTrue(handler[h])' /\ StartAlone(h)'
  <2>1. PICK s \in HandlerState : s = handler[h] /\ HandlerTrue(s)
    BY <1>0
  <2>2. HandlerTrue(s)'
    BY <1>0, <1>2, <2>1, HandlerStays
  <2>3. HandlerTrue(handler[h])'
    BY <1>1, <2>1, <2>2 DEF HandlerTrue, RecordTrue
  <2>4. StartAlone(h)'
    BY <1>0, <1>1, <2>1, NothingKnown DEF StartAlone, HandlerTrue
  <2> QED BY <2>3, <2>4
<1> QED BY <1>0, <1>2, <1>3, <1>4, <1>5, ShownStaysTrue DEF ProgressInv

-----------------------------------------------------------------------------
(* The actions that change the relays.                                     *)

LEMMA StepTyped ==
    ASSUME TypeOK, UNCHANGED faults \/ Fault, session' \in Session,
           handler' \in [Handler -> HandlerState]
    PROVE  /\ faults' \in 0 .. MaxFaults
           /\ UNCHANGED <<messages, announced>>
              /\ batch' \in [Relay -> {"none", "collecting", "ready", "deleted"}]
              /\ items' \in [Relay -> 0 .. MaxItems]
              => TypeOK'
<1>1. faults' \in 0 .. MaxFaults
  BY ProgressAssumption DEF TypeOK, Fault
<1> QED BY <1>1 DEF TypeOK

(* h goes on as t, and the session is left. *)
LEMMA WorldStep ==
    ASSUME ProgressInv, NEW h \in Handler, NEW t \in HandlerState, TypeOK', WorldGrows,
           session' = session, handler' = [handler EXCEPT ![h] = t],
           t.pc # "set", t.relay \in Known(h), t.own.relay \in Known(h), HandlerTrue(t)'
    PROVE  ProgressInv'
<1>1. PICK s \in Session : s = session /\ RecordTrue(s)
  BY Before
<1>2. RecordTrue(s)'
  BY <1>1, Before, RecordStays
<1>3. RecordTrue(session)'
  BY <1>1, <1>2 DEF RecordTrue
<1>4. GoesOnAs(h, t)
  BY DEF GoesOnAs, Known
<1> QED BY <1>3, <1>4, OneMoves

LEMMA WorldReturn ==
    ASSUME ProgressInv, NEW h \in Handler, TypeOK', WorldGrows, session' = session, Return(h)
    PROVE  ProgressInv'
<1>1. Idle.pc # "set" /\ Idle.relay \in Known(h) /\ Idle.own.relay \in Known(h)
  BY NothingKnown DEF Known
<1>2. HandlerTrue(Idle)'
  BY Before, NothingKnown, HandlerStays
<1> QED BY <1>1, <1>2, NothingKnown, WorldStep DEF Return

(* A batch that is not unknown becomes something else that is not. *)
LEMMA BatchGrows ==
    ASSUME TypeOK, NEW r \in Relay, NEW status \in {"collecting", "ready", "deleted"},
           batch' = [batch EXCEPT ![r] = status], UNCHANGED <<items, messages, announced>>,
           UNCHANGED faults \/ Fault, session' \in Session,
           handler' \in [Handler -> HandlerState]
    PROVE  TypeOK' /\ WorldGrows
<1>1. TypeOK'
  BY StepTyped DEF TypeOK
<1>2. WorldGrows
  BY DEF TypeOK, WorldGrows
<1> QED BY <1>1, <1>2

LEMMA StartCreateStep ==
    ASSUME ProgressInv, NEW h \in Handler, StartCreate(h)
    PROVE  ProgressInv'
<1>0. /\ TypeOK /\ ShownCountsTrue /\ RecordTrue(session) /\ session \in Session
      /\ handler \in [Handler -> HandlerState]
      /\ \A g \in Handler : HandlerTrue(handler[g]) /\ StartAlone(g)
  BY DEF ProgressInv, TypeOK
<1>1. PICK s \in HandlerState : s = handler[h]
  BY <1>0
<1>2. PICK r \in Relay :
         /\ batch[r] = "none" /\ batch' = [batch EXCEPT ![r] = "collecting"]
         /\ handler' = [handler EXCEPT ![h].pc = "set", ![h].relay = r]
  BY DEF StartCreate
<1>3. /\ UNCHANGED <<items, messages, announced, session, faults>>
      /\ s.op = "start" /\ s.pc = "create" /\ s.count = 0
  BY <1>0, <1>1 DEF StartCreate, At, HandlerTrue
<1>4. PICK t \in HandlerState : t = [s EXCEPT !.pc = "set", !.relay = r]
  BY DEF HandlerState
<1>5. /\ t.op = "start" /\ t.pc = "set" /\ t.relay = r /\ t.own = s.own /\ t.count = 0
  BY <1>3, <1>4 DEF HandlerState
<1>6. /\ handler'[h] = t /\ handler' \in [Handler -> HandlerState]
      /\ \A g \in Handler \ {h} : handler'[g] = handler[g]
  BY <1>0, <1>1, <1>2, <1>4
<1>7. TypeOK' /\ WorldGrows
  BY <1>0, <1>2, <1>3, <1>6, BatchGrows
<1>8. RecordTrue(session)' /\ SessionNamesOwnMessage' /\ NotifiedWasShown'
  <2>1. PICK x \in Session : x = session /\ RecordTrue(x)
    BY <1>0
  <2>2. RecordTrue(x)'
    BY <1>0, <1>7, <2>1, RecordStays
  <2>3. RecordTrue(session)'
    BY <1>3, <2>1, <2>2 DEF RecordTrue
  <2> QED BY <2>3, SessionTrue, PTL
<1>9. \A g \in Handler : HandlerTrue(handler[g])'
  <2> SUFFICES ASSUME NEW g \in Handler PROVE HandlerTrue(handler[g])'
    OBVIOUS
  <2>1. PICK x \in HandlerState : x = handler[g] /\ HandlerTrue(x)
    BY <1>0
  <2>2. HandlerTrue(x)'
    BY <1>0, <1>7, <2>1, HandlerStays
  <2>3. CASE g # h
    BY <1>6, <2>1, <2>2, <2>3 DEF HandlerTrue, RecordTrue
  <2>4. CASE g = h
    <3>1. s = x /\ RecordTrue(s.own)'
      BY <1>1, <2>1, <2>2, <2>4 DEF HandlerTrue
    <3>2. batch'[r] # "none" /\ 0 <= items'[r] /\ r # NoRelay
      BY <1>0, <1>2, <1>3, ProgressAssumption DEF TypeOK
    <3>3. HandlerTrue(t)'
      BY <1>5, <3>1, <3>2 DEF HandlerTrue
    <3> QED BY <1>6, <2>4, <3>3 DEF HandlerTrue, RecordTrue
  <2> QED BY <2>3, <2>4
<1>10. /\ session.relay # r
       /\ \A k \in Handler : handler[k].own.relay # r /\ handler[k].relay # r
  <2>1. \A x \in Session : RecordTrue(x) => x.relay # r
    BY <1>2, ProgressAssumption DEF RecordTrue
  <2>2. ASSUME NEW k \in Handler
        PROVE  /\ handler[k].own \in Session /\ RecordTrue(handler[k].own)
               /\ handler[k].relay # r
    <3>1. handler[k] \in HandlerState /\ HandlerTrue(handler[k])
      BY <1>0
    <3>2. handler[k].relay # NoRelay => batch[handler[k].relay] # "none"
      BY <3>1 DEF HandlerTrue
    <3>3. r # NoRelay
      BY ProgressAssumption
    <3> QED BY <1>2, <3>1, <3>2, <3>3 DEF HandlerTrue, HandlerState
  <2> QED BY <1>0, <2>1, <2>2
<1>11. ASSUME NEW g \in Handler PROVE StartAlone(g)'
  <2>1. CASE g = h
    BY <1>3, <1>1, <1>5, <1>6, <1>10, <2>1 DEF StartAlone
  <2>2. CASE g # h
    <3> SUFFICES ASSUME handler[g].pc = "set"
                 PROVE  /\ session'.relay # handler[g].relay
                        /\ \A k \in Handler : /\ handler'[k].own.relay # handler[g].relay
                                              /\ handler'[k].relay = handler[g].relay => k = g
      BY <1>6, <2>2 DEF StartAlone
    <3>1. /\ session.relay # handler[g].relay /\ handler[g].relay # r
          /\ \A k \in Handler : /\ handler[k].own.relay # handler[g].relay
                                /\ handler[k].relay = handler[g].relay => k = g
      BY <1>0, <1>10 DEF StartAlone
    <3> QED BY <1>1, <1>3, <1>5, <1>6, <3>1
  <2> QED BY <2>1, <2>2
<1> QED BY <1>0, <1>7, <1>8, <1>9, <1>11, ShownStaysTrue DEF ProgressInv

LEMMA StartSetSessionStep ==
    ASSUME ProgressInv, NEW h \in Handler, StartSetSession(h)
    PROVE  ProgressInv'
<1>0. PICK s \in HandlerState, r \in Relay : s = handler[h] /\ r = s.relay
  <2>1. handler[h].relay \in Relay
    BY Before DEF StartSetSession, At, HandlerTrue, HandlerState
  <2> QED BY <2>1, Before
<1>1. /\ s.pc = "set" /\ s.op = "start" /\ s.count = 0
      /\ batch[r] # "none" /\ r # NoRelay /\ RecordTrue(s.own)
  BY <1>0, Before, ProgressAssumption DEF StartSetSession, At, HandlerTrue
<1>2. PICK started \in Session : /\ started = [NoSession EXCEPT !.relay = r]
                                 /\ RecordTrue(started) /\ started.relay = r
  <2>1. PICK new \in Session : new = [NoSession EXCEPT !.relay = r]
    BY DEF NoSession, Session
  <2>2. new = [relay |-> r, count |-> 0, message |-> NoMessage, notified |-> 0]
    BY <2>1 DEF NoSession
  <2>3. 0 <= items[r]
    BY Before, ProgressAssumption DEF TypeOK
  <2>4. RecordTrue(new) /\ new.relay = r
    BY <1>1, <2>2, <2>3 DEF RecordTrue
  <2> QED BY <2>1, <2>4
<1>3. PICK pc \in {"send", "undo"} :
         Quiet /\ session' \in {session, started} /\ Go(h, pc)
  BY <1>0, <1>2 DEF StartSetSession, Quiet
<1>4. PICK new \in Session : new = session' /\ RecordTrue(new) /\ new.relay \in Known(h)
  BY <1>0, <1>2, <1>3, Before DEF Known
<1>5. PICK t \in HandlerState : t = [s EXCEPT !.pc = pc]
  BY DEF HandlerState
<1>6. /\ t.op = s.op /\ t.pc = pc /\ t.relay = r /\ t.own = s.own /\ t.count = s.count
  BY <1>0, <1>5 DEF HandlerState
<1>7. HandlerTrue(t)
  BY <1>0, <1>1, <1>6, Before DEF HandlerTrue
<1>8. GoesOnAs(h, t)
  BY <1>0, <1>3, <1>4, <1>5, <1>6 DEF Go, GoesOnAs, Known
<1> QED BY <1>3, <1>4, <1>7, <1>8, QuietMoves

LEMMA StartUndoStep ==
    ASSUME ProgressInv, NEW h \in Handler, StartUndo(h)
    PROVE  ProgressInv'
<1>1. PICK r \in Relay : r = handler[h].relay
  BY Before DEF StartUndo, At, HandlerTrue, HandlerState
<1>2. handler' \in [Handler -> HandlerState] /\ session' \in Session
  BY Before, NothingKnown DEF StartUndo, Return
<1>3. TypeOK' /\ WorldGrows
  BY <1>1, <1>2, Before, BatchGrows DEF StartUndo
<1> QED BY <1>3, WorldReturn DEF StartUndo

LEMMA EndBatchStep ==
    ASSUME ProgressInv, NEW h \in Handler, EndBatch(h)
    PROVE  ProgressInv'
<1>0. PICK s \in HandlerState, r \in Relay : s = handler[h] /\ r = s.relay
  <2>1. handler[h].relay \in Relay
    BY Before DEF EndBatch, HandlerTrue, HandlerState
  <2> QED BY <2>1, Before
<1>1. /\ s.pc = "end" /\ UNCHANGED <<items, session, messages, announced, faults>>
      /\ r # NoRelay
  BY <1>0, ProgressAssumption DEF EndBatch
<1>2. CASE Return(h) /\ UNCHANGED batch
  BY <1>1, <1>2, QuietReturn DEF Quiet
<1>3. CASE Go(h, "clear") /\ \E status \in {"ready", "deleted"} :
                                 batch' = [batch EXCEPT ![r] = status]
  <2>1. PICK t \in HandlerState : t = [s EXCEPT !.pc = "clear"]
    BY DEF HandlerState
  <2>2. /\ t.op = s.op /\ t.pc = "clear" /\ t.relay = r /\ t.own = s.own /\ t.count = s.count
    BY <1>0, <2>1 DEF HandlerState
  <2>3. HandlerTrue(t)
    BY <1>0, <1>1, <2>2, Before DEF HandlerTrue
  <2>4. handler' = [handler EXCEPT ![h] = t]
    BY <1>0, <1>3, <2>1 DEF Go
  <2>5. handler' \in [Handler -> HandlerState] /\ session' \in Session
    BY <1>1, <2>4, Before
  <2>6. TypeOK' /\ WorldGrows
    BY <1>1, <1>3, <2>5, Before, BatchGrows
  <2>7. HandlerTrue(t)'
    BY <2>3, <2>6, Before, HandlerStays
  <2> QED BY <1>0, <1>1, <2>2, <2>4, <2>6, <2>7, WorldStep DEF Known
<1> QED BY <1>0, <1>2, <1>3 DEF EndBatch

LEMMA AppendInsertStep ==
    ASSUME ProgressInv, NEW h \in Handler, AppendInsert(h)
    PROVE  ProgressInv'
<1>0. PICK s \in HandlerState, r \in Relay : s = handler[h] /\ r = s.relay
  <2>1. handler[h].relay \in Relay
    BY Before DEF AppendInsert, At, HandlerTrue, HandlerState
  <2> QED BY <2>1, Before
<1>1. /\ s.pc = "insert" /\ s.op = "append" /\ r # NoRelay /\ s.own.relay = r
      /\ s.own \in Session /\ RecordTrue(s.own)
      /\ UNCHANGED <<batch, session, messages, announced, faults>>
  BY <1>0, Before, ProgressAssumption DEF AppendInsert, At, HandlerTrue, HandlerState
<1>2. CASE Go(h, "recount") /\ UNCHANGED items
  <2>1. Quiet
    BY <1>1, <1>2 DEF Quiet
  <2> QED BY <1>0, <1>1, <1>2, <2>1, GoStep
<1>3. CASE Return(h) /\ UNCHANGED items
  BY <1>1, <1>3, QuietReturn DEF Quiet
<1>4. CASE /\ items[r] < MaxItems /\ items' = [items EXCEPT ![r] = @ + 1]
           /\ handler' = [handler EXCEPT ![h].pc = "merge", ![h].own.count = items[r] + 1]
  <2>1. PICK n \in 0 .. MaxItems : n = items[r] + 1 /\ n \in Nat
    BY <1>4, Before, ProgressAssumption DEF TypeOK
  <2>2. PICK own \in Session : own = [s.own EXCEPT !.count = n]
    BY <1>1, <2>1 DEF Session
  <2>3. /\ own.relay = r /\ own.count = n
        /\ own.message = s.own.message /\ own.notified = s.own.notified
    BY <1>1, <2>2 DEF Session
  <2>4. PICK t \in HandlerState : t = [s EXCEPT !.pc = "merge", !.own = own]
    BY DEF HandlerState
  <2>5. /\ t.op = s.op /\ t.pc = "merge" /\ t.relay = r /\ t.own = own /\ t.count = s.count
    BY <1>0, <2>4 DEF HandlerState
  <2>6. handler' = [handler EXCEPT ![h] = t]
    BY <1>0, <1>4, <2>1, <2>2, <2>4
  <2>7. /\ handler' \in [Handler -> HandlerState]
        /\ items' \in [Relay -> 0 .. MaxItems] /\ items'[r] = n
    BY <1>4, <2>1, <2>6, Before DEF TypeOK
  <2>8. TypeOK'
    BY <1>1, <2>7, Before DEF TypeOK
  <2>9. WorldGrows
    BY <1>1, <1>4, Before, ProgressAssumption DEF TypeOK, WorldGrows
  <2>10. RecordTrue(s.own)' /\ HandlerTrue(s)'
    BY <1>0, <1>1, <2>8, <2>9, Before, RecordStays, HandlerStays
  <2>11. RecordTrue(own)'
    BY <1>1, <2>1, <2>3, <2>7, <2>10 DEF RecordTrue
  <2>12. HandlerTrue(t)'
    BY <1>0, <1>1, <2>3, <2>5, <2>10, <2>11 DEF HandlerTrue
  <2> QED BY <1>0, <1>1, <2>3, <2>5, <2>6, <2>8, <2>9, <2>12, WorldStep DEF Known
<1> QED BY <1>0, <1>2, <1>3, <1>4 DEF AppendInsert

-----------------------------------------------------------------------------
(* The actions that change the chat.                                       *)

(* A text that is true is sent, or put where one of its batch was. *)
LEMMA ChatGrows ==
    ASSUME TypeOK, UNCHANGED <<batch, items>>,
           NEW text \in Text, text.count <= items[text.relay],
           Shows(text),
           \/ \E m \in 1 .. Len(messages) : /\ messages[m].relay = text.relay
                                            /\ messages' = [messages EXCEPT ![m] = text]
           \/ Len(messages) < MaxMessages /\ messages' = Append(messages, text)
    PROVE  /\ messages' \in Seq(Text) /\ Len(messages') <= MaxMessages
           /\ announced' \subseteq Relay \X (0 .. MaxItems)
           /\ WorldGrows
           /\ \A m \in 1 .. Len(messages') :
                 messages'[m] = text \/ m \in 1 .. Len(messages)
<1>0. messages \in Seq(Text) /\ Len(messages) \in Nat /\ Len(messages) <= MaxMessages
  BY DEF TypeOK
<1>1. /\ text.relay \in Relay /\ text.count \in 0 .. MaxItems
      /\ announced' \subseteq announced \cup {<<text.relay, text.count>>}
      /\ announced \subseteq announced'
  BY DEF Text, Shows
<1>2. /\ \A r \in Relay : items[r] <= items'[r] /\ (batch[r] # "none" => batch'[r] # "none")
      /\ \A shown \in announced' \ announced : shown[2] <= items'[shown[1]]
      /\ announced' \subseteq Relay \X (0 .. MaxItems)
  BY <1>1 DEF TypeOK
<1>3. /\ messages' \in Seq(Text) /\ Len(messages') <= MaxMessages
      /\ Len(messages) <= Len(messages')
      /\ \A m \in 1 .. Len(messages) : messages'[m].relay = messages[m].relay
      /\ \A m \in 1 .. Len(messages') : messages'[m] = text \/ m \in 1 .. Len(messages)
  <2>1. CASE \E m \in 1 .. Len(messages) : /\ messages[m].relay = text.relay
                                           /\ messages' = [messages EXCEPT ![m] = text]
    <3>1. PICK m \in 1 .. Len(messages) : /\ messages[m].relay = text.relay
                                          /\ messages' = [messages EXCEPT ![m] = text]
      BY <2>1
    <3>2. /\ messages' \in Seq(Text) /\ Len(messages') = Len(messages)
          /\ \A j \in 1 .. Len(messages) :
                messages'[j] = IF j = m THEN text ELSE messages[j]
      BY <1>0, <3>1, ExceptSeq
    <3>3. \A j \in 1 .. Len(messages) : messages'[j].relay = messages[j].relay
      BY <3>1, <3>2
    <3>4. Len(messages') <= MaxMessages /\ Len(messages) <= Len(messages')
      BY <1>0, <3>2
    <3> QED BY <3>2, <3>3, <3>4
  <2>2. CASE Len(messages) < MaxMessages /\ messages' = Append(messages, text)
    <3>1. /\ messages' \in Seq(Text) /\ Len(messages') = Len(messages) + 1
          /\ \A j \in 1 .. Len(messages) : messages'[j] = messages[j]
          /\ messages'[Len(messages) + 1] = text
      BY <1>0, <2>2, AppendProperties
    <3>2. \A j \in 1 .. Len(messages') : j \in 1 .. Len(messages) \/ j = Len(messages) + 1
      BY <1>0, <3>1
    <3>3. Len(messages') <= MaxMessages
      BY <1>0, <2>2, <3>1, ProgressAssumption
    <3> QED BY <1>0, <3>1, <3>2, <3>3
  <2> QED BY <2>1, <2>2
<1> QED BY <1>1, <1>2, <1>3 DEF WorldGrows

LEMMA ChatTyped ==
    ASSUME TypeOK, messages' \in Seq(Text), Len(messages') <= MaxMessages,
           announced' \subseteq Relay \X (0 .. MaxItems),
           UNCHANGED <<batch, items, session, faults>>, handler' \in [Handler -> HandlerState]
    PROVE  TypeOK'
BY DEF TypeOK

(* No message changes its batch. *)
MessagesKept == \A m \in 1 .. Len(messages) : messages'[m].relay = messages[m].relay

(* What h says while the batch collects. *)
LEMMA CollectingTrue ==
    ASSUME ProgressInv, NEW h \in Handler, handler[h].relay # NoRelay
    PROVE  LET text == CollectingText(h)
           IN  /\ text \in Text /\ text.relay = handler[h].relay
               /\ text.kind = "collecting" /\ text.count = handler[h].count
               /\ text.count <= items[text.relay]
BY Before DEF CollectingText, Text, HandlerTrue, HandlerState

LEMMA CloseMessageStep ==
    ASSUME ProgressInv, NEW h \in Handler, CloseMessage(h)
    PROVE  ProgressInv' /\ MessagesKept
<1>0. PICK s \in HandlerState : s = handler[h]
  BY Before
<1>1. /\ UNCHANGED <<batch, items, session, faults>> /\ Return(h)
      /\ s.pc = "close" /\ s.relay \in Relay /\ s.relay # NoRelay
      /\ RecordTrue(s.own) /\ s.count <= items[s.relay]
  BY <1>0, Before DEF CloseMessage, HandlerTrue, HandlerState
<1>2. CASE UNCHANGED <<messages, announced>>
  BY <1>1, <1>2, QuietReturn DEF Quiet, MessagesKept
<1>3. CASE ~UNCHANGED <<messages, announced>>
  <2>1. PICK text \in Text, m \in 1 .. Len(messages) :
           /\ text.relay = s.relay /\ text.count = s.count /\ messages[m].relay = s.relay
           /\ EditTo(m, text)
    <3>1. PICK text : /\ text = [relay |-> s.relay, count |-> s.count,
                                 kind |-> IF s.op = "cancel" THEN "canceled" ELSE "finished"]
                      /\ s.own.message # NoMessage /\ s.own.relay = s.relay
                      /\ EditTo(s.own.message, text)
      BY <1>0, <1>3 DEF CloseMessage
    <3>2. text \in Text /\ text.relay = s.relay /\ text.count = s.count
      BY <1>1, <3>1 DEF Text, HandlerState
    <3>3. Names(s.own.message, s.relay)
      BY <1>1, <3>1 DEF RecordTrue
    <3> QED BY <3>1, <3>2, <3>3 DEF Names
  <2>2. /\ messages' \in Seq(Text) /\ Len(messages') <= MaxMessages /\ WorldGrows
        /\ announced' \subseteq Relay \X (0 .. MaxItems)
    BY <1>1, <2>1, Before, ChatGrows DEF EditTo
  <2>3. TypeOK'
    BY <1>1, <2>2, Before, NothingKnown, ChatTyped DEF Return
  <2> QED BY <1>1, <2>2, <2>3, WorldReturn DEF WorldGrows, MessagesKept
<1> QED BY <1>2, <1>3

(* h has shown its count in the message m and goes on, or to send another. *)
LEMMA ShownStep ==
    ASSUME ProgressInv, NEW h \in Handler, NEW s \in HandlerState, s = handler[h],
           s.relay # NoRelay, s.op # "none",
           TypeOK', WorldGrows, UNCHANGED session,
           NEW m \in MessageId, NEW own \in {s.own, NoSession},
           handler' = [handler EXCEPT ![h] = [s EXCEPT !.pc = "reload", !.own = own,
                                                       !.message = m]],
           Names(m, s.relay)', <<s.relay, s.count>> \in announced'
    PROVE  ProgressInv'
<1>1. own \in Session /\ RecordTrue(own)
  BY Before, NothingKnown DEF HandlerTrue, HandlerState
<1>2. PICK t \in HandlerState : t = [s EXCEPT !.pc = "reload", !.own = own, !.message = m]
  BY <1>1 DEF HandlerState
<1>3. /\ t.op = s.op /\ t.pc = "reload" /\ t.relay = s.relay /\ t.own = own
      /\ t.count = s.count /\ t.message = m
  BY <1>2 DEF HandlerState
<1>4. HandlerTrue(s)' /\ RecordTrue(own)'
  BY <1>1, Before, HandlerStays, RecordStays
<1>5. HandlerTrue(t)'
  BY <1>3, <1>4 DEF HandlerTrue
<1> QED BY <1>2, <1>3, <1>5, NothingKnown, WorldStep DEF Known

LEMMA EditProgressStep ==
    ASSUME ProgressInv, NEW h \in Handler, EditProgress(h)
    PROVE  ProgressInv' /\ MessagesKept
<1>0. PICK s \in HandlerState : s = handler[h]
  BY Before
<1>1. /\ UNCHANGED <<batch, items, session, faults>>
      /\ s.pc = "edit" /\ s.op # "none" /\ s.relay # NoRelay
      /\ s.own.message # NoMessage /\ s.own.relay = s.relay /\ RecordTrue(s.own)
  BY <1>0, Before DEF EditProgress, HandlerTrue
<1>2. PICK m \in 1 .. Len(messages) :
         m = s.own.message /\ m \in MessageId /\ messages[m].relay = s.relay
  <2>1. Names(s.own.message, s.relay) /\ s.own.message \in MessageId
    BY <1>1 DEF RecordTrue, HandlerState, Session
  <2> QED BY <2>1 DEF Names
<1>3. PICK text \in Text :
         /\ text = CollectingText(h) /\ text.relay = s.relay /\ text.kind = "collecting"
         /\ text.count = s.count /\ text.count <= items[text.relay]
  BY <1>0, <1>1, CollectingTrue
<1>4. PICK t \in HandlerState : t = [s EXCEPT !.pc = "send", !.own = NoSession]
  BY NothingKnown DEF HandlerState
<1>5. /\ t.op = s.op /\ t.pc = "send" /\ t.relay = s.relay /\ t.own = NoSession
      /\ t.count = s.count
  BY <1>4 DEF HandlerState
<1>6. HandlerTrue(t)
  BY <1>0, <1>1, <1>5, NothingKnown, Before DEF HandlerTrue
<1>7. CASE GoSend(h) /\ UNCHANGED <<messages, announced>>
  <2>1. Quiet /\ handler' = [handler EXCEPT ![h] = t]
    BY <1>0, <1>1, <1>4, <1>7 DEF Quiet, GoSend
  <2>2. ProgressInv'
    BY <1>0, <1>1, <1>5, <1>6, <2>1, NothingKnown, QuietStep DEF Known
  <2> QED BY <1>7, <2>2 DEF MessagesKept
<1>8. CASE EditTo(m, text)
  <2>1. /\ messages' \in Seq(Text) /\ Len(messages') <= MaxMessages /\ WorldGrows
        /\ announced' \subseteq Relay \X (0 .. MaxItems)
    BY <1>1, <1>2, <1>3, <1>8, Before, ChatGrows DEF EditTo
  <2>2. MessagesKept
    BY <2>1 DEF WorldGrows, MessagesKept
  <2>3. CASE GoSend(h)
    <3>1. handler' = [handler EXCEPT ![h] = t]
      BY <1>0, <1>4, <2>3 DEF GoSend
    <3>2. TypeOK'
      BY <1>1, <2>1, <3>1, Before, ChatTyped
    <3>3. HandlerTrue(t)'
      BY <1>6, <2>1, <3>2, Before, HandlerStays
    <3>4. ProgressInv'
      BY <1>0, <1>1, <1>5, <2>1, <3>1, <3>2, <3>3, NothingKnown, WorldStep DEF Known
    <3> QED BY <2>2, <3>4
  <2>4. CASE handler' = [handler EXCEPT ![h].pc = "reload", ![h].own = NoSession,
                                        ![h].message = handler[h].own.message]
    <3>1. PICK k \in HandlerState :
             k = [s EXCEPT !.pc = "reload", !.own = NoSession, !.message = m]
      BY <1>2, NothingKnown DEF HandlerState
    <3>2. handler' = [handler EXCEPT ![h] = k]
      BY <1>0, <1>2, <2>4, <3>1
    <3>3. TypeOK'
      BY <1>1, <2>1, <3>2, Before, ChatTyped
    <3>4. Names(m, s.relay)'
      BY <1>2, <2>1, <3>3, Before, NamesStays DEF Names
    <3>5. <<s.relay, s.count>> \in announced'
      BY <1>3, <1>8 DEF EditTo, Shows
    <3> QED BY <1>0, <1>1, <1>2, <2>1, <2>2, <3>1, <3>2, <3>3, <3>4, <3>5, ShownStep
  <2> QED BY <1>0, <1>2, <1>3, <1>8, <2>3, <2>4, <1>7 DEF EditProgress
<1> QED BY <1>0, <1>2, <1>3, <1>7, <1>8 DEF EditProgress

LEMMA SendProgressStep ==
    ASSUME ProgressInv, NEW h \in Handler, SendProgress(h)
    PROVE  ProgressInv' /\ MessagesKept
<1>0. PICK s \in HandlerState : s = handler[h]
  BY Before
<1>1. /\ UNCHANGED <<batch, items, session, faults>>
      /\ s.pc = "send" /\ s.op # "none" /\ s.relay # NoRelay /\ s.own \in Session
  BY <1>0, Before DEF SendProgress, HandlerTrue, HandlerState
<1>2. PICK text \in Text :
         /\ text = CollectingText(h) /\ text.relay = s.relay /\ text.kind = "collecting"
         /\ text.count = s.count /\ text.count <= items[text.relay]
  BY <1>0, <1>1, CollectingTrue
<1>3. CASE Return(h) /\ UNCHANGED <<messages, announced>>
  BY <1>1, <1>3, QuietReturn DEF Quiet, MessagesKept
<1>4. CASE SendMessage(text)
  <2>1. /\ messages' \in Seq(Text) /\ Len(messages') <= MaxMessages /\ WorldGrows
        /\ announced' \subseteq Relay \X (0 .. MaxItems)
    BY <1>1, <1>2, <1>4, Before, ChatGrows DEF SendMessage
  <2>2. MessagesKept
    BY <2>1 DEF WorldGrows, MessagesKept
  <2>3. CASE Return(h)
    <3>1. TypeOK'
      BY <1>1, <2>1, <2>3, Before, NothingKnown, ChatTyped DEF Return
    <3> QED BY <1>1, <2>1, <2>3, <2>2, <3>1, WorldReturn
  <2>4. CASE handler' = [handler EXCEPT ![h].pc = "reload", ![h].message = Len(messages')]
    <3>1. PICK m \in 1 .. Len(messages') :
             m = Len(messages') /\ m \in MessageId /\ messages'[m] = text
      <4>1. Len(messages) \in Nat /\ messages \in Seq(Text)
        BY Before DEF TypeOK
      <4>2. Len(messages') = Len(messages) + 1 /\ messages'[Len(messages) + 1] = text
        BY <1>4, <4>1, AppendProperties DEF SendMessage
      <4> QED BY <2>1, <4>1, <4>2, ProgressAssumption DEF MessageId
    <3>2. PICK k \in HandlerState :
             k = [s EXCEPT !.pc = "reload", !.own = s.own, !.message = m]
      BY <1>1, <3>1 DEF HandlerState
    <3>3. handler' = [handler EXCEPT ![h] = k]
      BY <1>0, <2>4, <3>1, <3>2
    <3>4. TypeOK'
      BY <1>1, <2>1, <3>3, Before, ChatTyped
    <3>5. Names(m, s.relay)'
      BY <1>2, <3>1 DEF Names
    <3>6. <<s.relay, s.count>> \in announced'
      BY <1>2, <1>4 DEF SendMessage, Shows
    <3> QED BY <1>0, <1>1, <2>1, <2>2, <3>1, <3>2, <3>3, <3>4, <3>5, <3>6, ShownStep
  <2> QED BY <1>0, <1>2, <1>3, <1>4, <2>3, <2>4 DEF SendProgress
<1> QED BY <1>0, <1>2, <1>3, <1>4 DEF SendProgress

-----------------------------------------------------------------------------
(* The theorems.                                                           *)

(* Before anything has happened every part of the invariant holds: there   *)
(* is no session, nothing was shown and every handler is idle.             *)
LEMMA InvInitially == Init => ProgressInv
<1> SUFFICES ASSUME Init PROVE ProgressInv
  OBVIOUS
<1>1. TypeOK
  <2>1. <<>> \in Seq(Text) /\ Len(<<>>) = 0
    OBVIOUS
  <2>2. 0 \in 0 .. MaxItems /\ 0 \in 0 .. MaxFaults /\ 0 <= MaxMessages
    BY ProgressAssumption
  <2> QED BY <2>1, <2>2, NothingKnown DEF Init, TypeOK
<1>2. RecordTrue(session)
  BY NothingKnown DEF Init
<1>3. \A h \in Handler : HandlerTrue(handler[h]) /\ StartAlone(h)
  BY NothingKnown DEF Init, StartAlone
<1>4. ShownCountsTrue
  BY DEF Init, ShownCountsTrue
<1> QED BY <1>1, <1>2, <1>3, <1>4, SessionTrue DEF ProgressInv

LEMMA InvStep == ProgressInv /\ [Next]_vars => ProgressInv'
<1> SUFFICES ASSUME ProgressInv, [Next]_vars PROVE ProgressInv'
  OBVIOUS
<1>1. ASSUME NEW h \in Handler,
             \/ Receive(h) \/ Snapshot(h) \/ LoadSession(h) \/ CheckRelay(h)
             \/ DropStaleSession(h) \/ StartCreate(h) \/ StartSetSession(h) \/ StartUndo(h)
      PROVE  ProgressInv'
  BY <1>1, ReceiveStep, SnapshotStep, LoadSessionStep, CheckRelayStep, DropStaleSessionStep,
     StartCreateStep, StartSetSessionStep, StartUndoStep
<1>2. ASSUME NEW h \in Handler,
             \/ AppendInsert(h) \/ AppendRecount(h) \/ AppendMerge(h) \/ AppendNotify(h)
             \/ EditProgress(h) \/ SendProgress(h) \/ ReloadSession(h) \/ PersistProgress(h)
      PROVE  ProgressInv'
  BY <1>2, AppendInsertStep, AppendRecountStep, AppendMergeStep, AppendNotifyStep,
     EditProgressStep, SendProgressStep, ReloadSessionStep, PersistProgressStep
<1>3. ASSUME NEW h \in Handler,
             \/ ListItems(h) \/ EndBatch(h) \/ ClearSession(h) \/ CloseMessage(h)
             \/ Abandon(h) \/ OutOfRelays(h)
      PROVE  ProgressInv'
  BY <1>3, ListItemsStep, EndBatchStep, ClearSessionStep, CloseMessageStep, GivesUpStep
<1>4. CASE LoseSession \/ UNCHANGED vars
  BY <1>4, NobodyStep
<1> QED BY <1>1, <1>2, <1>3, <1>4 DEF Next

(* What the uploader reads is true, and what the session keeps of it       *)
(* agrees, for any number of handlers that merge old copies of records     *)
(* (router.go:367-421, rediscache.go:219-250).                             *)
THEOREM ProgressAlwaysTrue == Spec => []ProgressInv
<1> QED BY InvInitially, InvStep, PTL DEF Spec

(* A progress message is about one batch for ever, whoever edits it and    *)
(* however late (router.go:376, 411).                                      *)
THEOREM MessagesKeepTheirBatch == Spec => MessageKeepsBatch
<1>1. ASSUME ProgressInv, [Next]_vars PROVE MessagesKept
  <2>1. CASE UNCHANGED messages
    BY <2>1 DEF MessagesKept
  <2>2. ASSUME NEW h \in Handler, EditProgress(h) \/ SendProgress(h) \/ CloseMessage(h)
        PROVE  MessagesKept
    BY <1>1, <2>2, EditProgressStep, SendProgressStep, CloseMessageStep
  <2> QED BY <1>1, <2>1, <2>2
         DEF Next, vars, Receive, Snapshot, LoadSession, CheckRelay, DropStaleSession,
             StartCreate, StartSetSession, StartUndo, AppendInsert, AppendRecount, AppendMerge,
             AppendNotify, ReloadSession, PersistProgress, ListItems, EndBatch,
             ClearSession, Abandon, OutOfRelays, LoseSession
<1>2. ProgressInv /\ [Next]_vars
      => [\A m \in 1 .. Len(messages) : messages'[m].relay = messages[m].relay]_vars
  BY <1>1 DEF MessagesKept
<1> QED BY <1>2, ProgressAlwaysTrue, PTL DEF Spec, MessageKeepsBatch

LEMMA SessionGrows ==
    ASSUME ProgressInv, [Next]_vars, session # NoSession, session'.relay = session.relay
    PROVE  /\ session'.count >= session.count
           /\ session'.notified >= session.notified
           /\ session.message # NoMessage => session'.message # NoMessage
<1>0. RecordTrue(session) /\ session \in Session /\ session.relay # NoRelay
  BY DEF ProgressInv, TypeOK, RecordTrue
<1>1. CASE session' \in {session, NoSession}
  <2>1. session' = session
    BY <1>0, <1>1, NothingKnown
  <2> QED BY <1>0, <2>1 DEF Session
<1>2. ASSUME NEW h \in Handler, AppendMerge(h) \/ PersistProgress(h),
             session' \notin {session, NoSession}
      PROVE  /\ session'.count >= session.count
             /\ session'.notified >= session.notified
             /\ session.message # NoMessage => session'.message # NoMessage
  <2>1. PICK own \in Session : own = handler[h].own /\ RecordTrue(own)
    BY <1>2, Before DEF HandlerTrue, HandlerState
  <2>2. session' = Merged(own)
    BY <1>2, <2>1 DEF AppendMerge, PersistProgress
  <2>3. CASE own.relay # NoRelay
    <3>1. PICK new : new = Merged(own)
      OBVIOUS
    <3> QED BY <1>0, <2>1, <2>2, <2>3, <3>1, MergedGrows
  <2>4. CASE own.relay = NoRelay
    BY <1>0, <1>2, <2>2, <2>4 DEF Merged
  <2> QED BY <2>3, <2>4
<1>3. ASSUME NEW h \in Handler, StartSetSession(h)
      PROVE  session' \in {session, NoSession}
  <2>1. PICK r : r = handler[h].relay /\ session.relay # r
    BY <1>3, Before DEF ProgressInv, StartSetSession, At, StartAlone
  <2>2. session' = [NoSession EXCEPT !.relay = r] => session'.relay = r
    BY DEF NoSession
  <2> QED BY <1>3, <2>1, <2>2 DEF StartSetSession
<1>4. session' \in {session, NoSession} \/ \E h \in Handler : \/ AppendMerge(h)
                                                              \/ PersistProgress(h)
                                                              \/ StartSetSession(h)
  BY DEF Next, vars, Receive, Snapshot, LoadSession, CheckRelay, DropStaleSession,
         DeleteSession, StartCreate, StartUndo, AppendInsert, AppendRecount, AppendNotify,
         EditProgress, SendProgress, ReloadSession, ListItems, EndBatch,
         ClearSession, CloseMessage, Abandon, OutOfRelays, LoseSession
<1> QED BY <1>1, <1>2, <1>3, <1>4

(* While a session lasts its counts never go down and its message is not   *)
(* forgotten: MergeBatchUploadSession keeps the larger counts, and nobody  *)
(* else can name the relay that /batch_start writes the session of         *)
(* (rediscache.go:219-250).                                                *)
THEOREM SessionNeverShrinks == Spec => SessionOnlyGrows
<1>1. ProgressInv /\ [Next]_vars
      => [session # NoSession /\ session'.relay = session.relay
          => /\ session'.count >= session.count
             /\ session'.notified >= session.notified
             /\ session.message # NoMessage => session'.message # NoMessage]_vars
  BY SessionGrows
<1> QED BY <1>1, ProgressAlwaysTrue, PTL DEF Spec, SessionOnlyGrows

=============================================================================
