--------------------------- MODULE ServingProofs ---------------------------
(***************************************************************************)
(* What MCServing promises of the codes of messages (ClaimMessages), the   *)
(* rate limit (RateLimit), the pages of a relay (Paging) and the buttons   *)
(* that lead through them (PageNavigator), proved for any number of        *)
(* handlers, messages, files, pages and faults and for every limit. The    *)
(* sender of a page has proofs of its own (PageSenderProofs).              *)
(***************************************************************************)
EXTENDS MCServing, FiniteSetTheorems, WellFoundedInduction, TLAPS

-----------------------------------------------------------------------------
(* One part moves in a behaviour, and by its own actions.                  *)

LEMMA ServingSteps ==
    ASSUME [ServingNext]_servingVars
    PROVE  /\ active' = active
           /\ active = "messages" => Messages!Next \/ UNCHANGED messageVars
           /\ active = "pager" => Pager!Next \/ UNCHANGED pagerVars
           /\ active = "navigator" => Navigator!Next \/ UNCHANGED navigatorVars
           /\ active # "navigator" => UNCHANGED navigatorVars
<1>1. CASE MessagesNext
  BY <1>1 DEF MessagesNext, MessagesOnly, Messages!Next
<1>2. CASE LimiterNext
  BY <1>2 DEF LimiterNext, LimiterOnly
<1>3. CASE PagerNext
  BY <1>3 DEF PagerNext, PagerOnly, Pager!Next
<1>4. CASE SenderNext
  BY <1>4 DEF SenderNext, SenderOnly
<1>5. CASE NavigatorNext
  BY <1>5 DEF NavigatorNext, NavigatorOnly, Navigator!Next, Navigator!Proceed
<1>6. CASE UNCHANGED servingVars
  BY <1>6 DEF servingVars
<1> QED BY <1>1, <1>2, <1>3, <1>4, <1>5, <1>6 DEF ServingNext

-----------------------------------------------------------------------------
(* The buttons.                                                            *)

LEMMA NavigatorConstants ==
    /\ NoMessage \notin PagedMessage
    /\ PageTotal \in Nat \ {0} /\ ExpiresAt \in Nat /\ MaxFaults \in Nat
    /\ 1 \in Navigator!Page
BY ServingAssumption DEF Navigator!NavigatorAssumption, Navigator!Page

LEMMA NavigatorInitially ==
    Navigator!Init => Navigator!NavigatorInv
<1> SUFFICES ASSUME Navigator!Init PROVE Navigator!NavigatorInv
  OBVIOUS
<1> USE NavigatorConstants
<1>1. Navigator!Idle \in Navigator!HandlerState
  BY DEF Navigator!Idle, Navigator!HandlerState
<1>2. Navigator!TypeOK
  <2>1. shown \in [PagedMessage -> 0 .. PageTotal]
    BY DEF Navigator!Init
  <2>2. presser \in [Handler -> Navigator!HandlerState]
    BY <1>1 DEF Navigator!Init
  <2> QED BY <2>1, <2>2 DEF Navigator!Init, Navigator!TypeOK
<1>3. \A h \in Handler : presser[h].pc = "idle"
  BY DEF Navigator!Init, Navigator!Idle
<1> QED
  BY <1>2, <1>3
     DEF Navigator!Init, Navigator!NavigatorInv, Navigator!ShownWasSent, Navigator!SentWhileLive,
         Navigator!HandlerRight, Navigator!At

(* A step that only moves the handler h, or sends its page: what has to be *)
(* shown is about h.                                                       *)
LEMMA HandlerMoves ==
    ASSUME Navigator!NavigatorInv,
           NEW h \in Handler, NEW s \in Navigator!HandlerState,
           presser' = [presser EXCEPT ![h] = s],
           status' = status, now' = now,
           arrived' \in SUBSET Navigator!Page, arrived \subseteq arrived',
           pressed' \in SUBSET Navigator!Press,
           navigatorFaults' \in 0 .. MaxFaults,
           shown' \in [PagedMessage -> 0 .. PageTotal],
           \A m \in PagedMessage : shown'[m] # 0 => shown'[m] \in arrived',
           s.pc \in {"list", "send", "show", "edit"} => s.live,
           s.pc \in {"show", "edit"} => s.page \in arrived',
           s.pc = "edit" => s.message # NoMessage,
           s.pc = "lookup" /\ Navigator!Servable(s.now) => s.live
    PROVE  Navigator!NavigatorInv'
<1>0. /\ Navigator!TypeOK /\ Navigator!SentWhileLive
      /\ \A g \in Handler : Navigator!HandlerRight(g)
  BY DEF Navigator!NavigatorInv
<1>1. presser' \in [Handler -> Navigator!HandlerState]
  BY <1>0 DEF Navigator!TypeOK
<1>2. Navigator!TypeOK'
  BY <1>0, <1>1 DEF Navigator!TypeOK
<1>3. presser'[h] = s /\ \A g \in Handler \ {h} : presser'[g] = presser[g]
  BY <1>0 DEF Navigator!TypeOK
<1>4. ASSUME NEW g \in Handler
      PROVE  /\ Navigator!HandlerRight(g)'
             /\ presser'[g].pc \in {"send", "show", "edit"} => presser'[g].live
  <2>1. CASE g = h
    BY <1>3, <2>1 DEF Navigator!HandlerRight, Navigator!At, Navigator!Servable
  <2>2. CASE g # h
    <3>1. presser'[g] = presser[g]
      BY <1>3, <2>2
    <3> QED
      BY <1>0, <3>1
         DEF Navigator!HandlerRight, Navigator!At, Navigator!Servable, Navigator!SentWhileLive
  <2> QED BY <2>1, <2>2
<1> QED
  BY <1>2, <1>4 DEF Navigator!NavigatorInv, Navigator!ShownWasSent, Navigator!SentWhileLive

LEMMA HandlerFields ==
    ASSUME Navigator!TypeOK, NEW h \in Handler
    PROVE  /\ presser[h] \in Navigator!HandlerState
           /\ presser[h].page \in Navigator!Page /\ presser[h].page \in 1 .. PageTotal
           /\ presser[h].message \in PagedMessage \cup {NoMessage}
           /\ Navigator!Idle \in Navigator!HandlerState /\ Navigator!Idle.pc = "idle"
<1>1. presser[h] \in Navigator!HandlerState
  BY DEF Navigator!TypeOK
<1> QED BY <1>1, NavigatorConstants DEF Navigator!HandlerState, Navigator!Idle, Navigator!Page

(* A fault is counted, up to the bound. *)
LEMMA NavigatorFault ==
    ASSUME Navigator!TypeOK, Navigator!Fault
    PROVE  navigatorFaults' \in 0 .. MaxFaults /\ navigatorFaults' # navigatorFaults
BY NavigatorConstants DEF Navigator!TypeOK, Navigator!Fault

LEMMA NavigatorProceeds ==
    ASSUME Navigator!NavigatorInv, NEW h \in Handler, Navigator!Proceed(h) \/ Navigator!Fail(h)
    PROVE  Navigator!NavigatorInv'
<1>0. /\ Navigator!TypeOK /\ Navigator!SentWhileLive /\ Navigator!ShownWasSent
      /\ Navigator!HandlerRight(h)
  BY DEF Navigator!NavigatorInv
<1> DEFINE to(pc) == [presser[h] EXCEPT !.pc = pc]
<1>1. /\ presser[h] \in Navigator!HandlerState /\ presser[h].page \in Navigator!Page
      /\ presser[h].message \in PagedMessage \cup {NoMessage}
      /\ Navigator!Idle \in Navigator!HandlerState /\ Navigator!Idle.pc = "idle"
  BY <1>0, HandlerFields
<1>2. \A pc \in {"list", "send", "show", "edit"} :
        /\ to(pc) \in Navigator!HandlerState /\ to(pc).pc = pc
        /\ to(pc).page = presser[h].page /\ to(pc).message = presser[h].message
        /\ to(pc).now = presser[h].now /\ to(pc).live = presser[h].live
        /\ Navigator!Go(h, pc) => presser' = [presser EXCEPT ![h] = to(pc)]
  <2> SUFFICES ASSUME NEW pc \in {"list", "send", "show", "edit"}
               PROVE  /\ to(pc) \in Navigator!HandlerState /\ to(pc).pc = pc
                      /\ to(pc).page = presser[h].page /\ to(pc).message = presser[h].message
                      /\ to(pc).now = presser[h].now /\ to(pc).live = presser[h].live
                      /\ Navigator!Go(h, pc) => presser' = [presser EXCEPT ![h] = to(pc)]
    OBVIOUS
  <2>1. Navigator!Go(h, pc) => presser' = [presser EXCEPT ![h] = to(pc)]
    BY DEF Navigator!Go
  <2>2. /\ to(pc) \in Navigator!HandlerState /\ to(pc).pc = pc
        /\ to(pc).page = presser[h].page /\ to(pc).message = presser[h].message
        /\ to(pc).now = presser[h].now /\ to(pc).live = presser[h].live
    BY <1>1 DEF Navigator!HandlerState
  <2> QED BY <2>1, <2>2
<1>3. Navigator!Return(h) => presser' = [presser EXCEPT ![h] = Navigator!Idle]
  BY DEF Navigator!Return
<1>4. /\ arrived \in SUBSET Navigator!Page /\ pressed \in SUBSET Navigator!Press
      /\ navigatorFaults \in 0 .. MaxFaults /\ shown \in [PagedMessage -> 0 .. PageTotal]
      /\ \A m \in PagedMessage : shown[m] # 0 => shown[m] \in arrived
  BY <1>0 DEF Navigator!TypeOK, Navigator!ShownWasSent
<1>5. /\ presser[h].pc \in {"send", "show", "edit"} => presser[h].live
      /\ presser[h].pc \in {"show", "edit"} => presser[h].page \in arrived
      /\ presser[h].pc = "edit" => presser[h].message # NoMessage
      /\ presser[h].pc = "lookup" /\ Navigator!Servable(presser[h].now) => presser[h].live
      /\ presser[h].pc = "list" => presser[h].live
  BY <1>0 DEF Navigator!SentWhileLive, Navigator!HandlerRight, Navigator!At
<1> HIDE DEF to
<1>6. CASE Navigator!Lookup(h)
  <2>1. UNCHANGED <<status, now, shown, pressed, arrived, navigatorFaults>>
    BY <1>6 DEF Navigator!Lookup
  <2>2. CASE Navigator!Servable(presser[h].now)
    <3>1. presser[h].live /\ Navigator!Go(h, "list")
      BY <1>5, <1>6, <2>2 DEF Navigator!Lookup, Navigator!At
    <3> QED BY <1>2, <1>4, <2>1, <3>1, HandlerMoves
  <2>3. CASE ~Navigator!Servable(presser[h].now)
    <3>1. Navigator!Return(h)
      BY <1>6, <2>3 DEF Navigator!Lookup
    <3> QED BY <1>1, <1>3, <1>4, <2>1, <3>1, HandlerMoves
  <2> QED BY <2>2, <2>3
<1>7. CASE Navigator!ListItems(h)
  <2>1. UNCHANGED <<status, now, shown, pressed, arrived, navigatorFaults>>
    BY <1>7 DEF Navigator!ListItems
  <2>2. presser[h].live /\ (Navigator!Go(h, "send") \/ Navigator!Return(h))
    BY <1>5, <1>7 DEF Navigator!ListItems, Navigator!At
  <2> QED BY <1>1, <1>2, <1>3, <1>4, <2>1, <2>2, HandlerMoves
<1>8. CASE Navigator!Send(h)
  <2>1. UNCHANGED <<status, now, shown, pressed>> /\ presser[h].live
    BY <1>5, <1>8 DEF Navigator!Send, Navigator!At
  <2>2. arrived' \in SUBSET Navigator!Page /\ arrived \subseteq arrived'
    BY <1>1, <1>4, <1>8 DEF Navigator!Send
  <2>3. CASE /\ Navigator!AfterSend(h) /\ arrived' = arrived \cup {presser[h].page}
             /\ UNCHANGED navigatorFaults
    <3>1. presser[h].page \in arrived'
      BY <2>3
    <3>2. CASE presser[h].message = NoMessage
      <4>1. Navigator!Go(h, "show")
        BY <2>3, <3>2 DEF Navigator!AfterSend
      <4> QED BY <1>2, <1>4, <2>1, <2>2, <2>3, <3>1, <4>1, HandlerMoves
    <3>3. CASE presser[h].message # NoMessage
      <4>1. Navigator!Go(h, "edit")
        BY <2>3, <3>3 DEF Navigator!AfterSend
      <4> QED BY <1>2, <1>4, <2>1, <2>2, <2>3, <3>1, <3>3, <4>1, HandlerMoves
    <3> QED BY <3>2, <3>3
  <2>4. CASE Navigator!Fault /\ Navigator!Return(h)
    BY <1>0, <1>1, <1>3, <1>4, <2>1, <2>2, <2>4, NavigatorFault, HandlerMoves
  <2> QED BY <1>8, <2>3, <2>4 DEF Navigator!Send
<1>9. CASE Navigator!Show(h)
  <2>1. /\ UNCHANGED <<status, now, pressed, arrived>> /\ Navigator!Return(h)
        /\ presser[h].page \in arrived
    BY <1>5, <1>9 DEF Navigator!Show, Navigator!At
  <2>2. navigatorFaults' \in 0 .. MaxFaults
    BY <1>0, <1>4, <1>9, NavigatorFault DEF Navigator!Show
  <2>3. /\ shown' \in [PagedMessage -> 0 .. PageTotal]
        /\ \A m \in PagedMessage : shown'[m] # 0 => shown'[m] \in arrived
    <3>1. CASE UNCHANGED shown
      BY <1>4, <3>1
    <3>2. CASE \E m \in PagedMessage : shown' = [shown EXCEPT ![m] = presser[h].page]
      BY <1>1, <1>4, <2>1, <3>2, NavigatorConstants DEF Navigator!Page
    <3> QED BY <1>9, <3>1, <3>2 DEF Navigator!Show
  <2> QED BY <1>1, <1>3, <1>4, <2>1, <2>2, <2>3, HandlerMoves
<1>10. CASE Navigator!Edit(h)
  <2>1. /\ UNCHANGED <<status, now, pressed, arrived>> /\ Navigator!Return(h)
        /\ presser[h].page \in arrived /\ presser[h].message \in PagedMessage
    BY <1>1, <1>5, <1>10 DEF Navigator!Edit, Navigator!At
  <2>2. navigatorFaults' \in 0 .. MaxFaults
    BY <1>0, <1>4, <1>10, NavigatorFault DEF Navigator!Edit
  <2>3. /\ shown' \in [PagedMessage -> 0 .. PageTotal]
        /\ \A m \in PagedMessage : shown'[m] # 0 => shown'[m] \in arrived
    <3>1. CASE UNCHANGED shown
      BY <1>4, <3>1
    <3>2. CASE shown' = [shown EXCEPT ![presser[h].message] = presser[h].page]
      BY <1>1, <1>4, <2>1, <3>2, NavigatorConstants DEF Navigator!Page
    <3> QED BY <1>10, <3>1, <3>2 DEF Navigator!Edit
  <2> QED BY <1>1, <1>3, <1>4, <2>1, <2>2, <2>3, HandlerMoves
<1>11. CASE Navigator!Fail(h)
  <2>1. UNCHANGED <<status, now, shown, pressed, arrived>> /\ Navigator!Return(h)
    BY <1>11 DEF Navigator!Fail
  <2>2. navigatorFaults' \in 0 .. MaxFaults
    BY <1>0, <1>11, NavigatorFault DEF Navigator!Fail
  <2> QED BY <1>1, <1>3, <1>4, <2>1, <2>2, HandlerMoves
<1> QED BY <1>6, <1>7, <1>8, <1>9, <1>10, <1>11 DEF Navigator!Proceed

LEMMA NavigatorBegins ==
    ASSUME Navigator!NavigatorInv, NEW h \in Handler,
           \/ Navigator!ReceiveClaim(h)
           \/ \E p \in pressed : Navigator!ReceivePress(h, p)
    PROVE  Navigator!NavigatorInv'
<1>0. Navigator!TypeOK /\ Navigator!ShownWasSent
  BY DEF Navigator!NavigatorInv
<1>1. /\ UNCHANGED <<status, now, shown, arrived, navigatorFaults>>
      /\ pressed' \in SUBSET Navigator!Press
  BY <1>0 DEF Navigator!ReceiveClaim, Navigator!ReceivePress, Navigator!TypeOK
<1>2. PICK message \in PagedMessage \cup {NoMessage}, target \in Navigator!Page :
        Navigator!Begin(h, message, target)
  <2>1. CASE Navigator!ReceiveClaim(h)
    BY <2>1, NavigatorConstants DEF Navigator!ReceiveClaim
  <2>2. CASE \E p \in pressed : Navigator!ReceivePress(h, p)
    <3>1. PICK p \in pressed : Navigator!Begin(h, p.message, p.page)
      BY <2>2 DEF Navigator!ReceivePress
    <3>2. p.message \in PagedMessage /\ p.page \in Navigator!Page
      BY <1>0 DEF Navigator!TypeOK, Navigator!Press
    <3> QED BY <3>1, <3>2
  <2> QED BY <2>1, <2>2
<1> DEFINE s == [pc |-> "lookup", message |-> message, page |-> target, now |-> now,
                 live |-> Navigator!Claimable(now)]
<1>3. presser' = [presser EXCEPT ![h] = s]
  BY <1>2 DEF Navigator!Begin
<1>4. s \in Navigator!HandlerState
  <2>1. now \in Nat
    BY <1>0, ServingAssumption DEF Navigator!TypeOK, Navigator!NavigatorAssumption
  <2>2. Navigator!Claimable(now) \in BOOLEAN
    BY DEF Navigator!Claimable
  <2> QED BY <1>2, <2>1, <2>2 DEF Navigator!HandlerState
<1>5. s.pc = "lookup" /\ (Navigator!Servable(s.now) => s.live)
  BY DEF Navigator!Servable, Navigator!Claimable
<1> HIDE DEF s
<1> QED
  BY <1>0, <1>1, <1>3, <1>4, <1>5, HandlerMoves
     DEF Navigator!TypeOK, Navigator!ShownWasSent

LEMMA NavigatorSteps ==
    ASSUME Navigator!NavigatorInv, Navigator!Next \/ UNCHANGED navigatorVars
    PROVE  Navigator!NavigatorInv'
<1>0. /\ Navigator!TypeOK /\ Navigator!SentWhileLive /\ Navigator!ShownWasSent
      /\ \A h \in Handler : Navigator!HandlerRight(h)
  BY DEF Navigator!NavigatorInv
<1>1. ASSUME NEW h \in Handler, Navigator!Proceed(h) \/ Navigator!Fail(h)
      PROVE  Navigator!NavigatorInv'
  BY <1>1, NavigatorProceeds
<1>2. ASSUME NEW h \in Handler,
             \/ Navigator!ReceiveClaim(h)
             \/ \E p \in pressed : Navigator!ReceivePress(h, p)
      PROVE  Navigator!NavigatorInv'
  BY <1>2, NavigatorBegins
<1>3. ASSUME NEW m \in PagedMessage, NEW p \in Navigator!Buttons(shown[m]),
             Navigator!PressButton(m, p)
      PROVE  Navigator!NavigatorInv'
  <2>1. UNCHANGED <<status, now, shown, presser, arrived, navigatorFaults>>
    BY <1>3 DEF Navigator!PressButton
  <2>2. pressed' \in SUBSET Navigator!Press
    BY <1>0, <1>3
       DEF Navigator!PressButton, Navigator!Buttons, Navigator!TypeOK, Navigator!Press
  <2> QED
    BY <1>0, <2>1, <2>2
       DEF Navigator!NavigatorInv, Navigator!TypeOK, Navigator!SentWhileLive,
           Navigator!ShownWasSent, Navigator!HandlerRight, Navigator!At, Navigator!Servable
<1>4. CASE Navigator!Crash
  <2>1. UNCHANGED <<status, now, shown, pressed, arrived>>
        /\ presser' = [h \in Handler |-> Navigator!Idle]
    BY <1>4 DEF Navigator!Crash
  <2>2. navigatorFaults' \in 0 .. MaxFaults
    BY <1>0, <1>4, NavigatorFault DEF Navigator!Crash
  <2>3. \A h \in Handler : /\ presser'[h] = Navigator!Idle /\ presser'[h].pc = "idle"
                           /\ presser'[h] \in Navigator!HandlerState
    BY <1>0, <2>1, HandlerFields
  <2>4. presser' \in [Handler -> Navigator!HandlerState]
    BY <2>1, <2>3
  <2>5. Navigator!TypeOK'
    BY <1>0, <2>1, <2>2, <2>4 DEF Navigator!TypeOK
  <2> QED
    BY <1>0, <2>1, <2>3, <2>5
       DEF Navigator!NavigatorInv, Navigator!SentWhileLive, Navigator!ShownWasSent,
           Navigator!HandlerRight, Navigator!At
<1>5. CASE Navigator!RelayExpires \/ Navigator!RelayDeleted
  <2>1. /\ UNCHANGED <<now, shown, pressed, presser, arrived, navigatorFaults>>
        /\ status' \in {"expired", "deleted"}
    BY <1>5 DEF Navigator!RelayExpires, Navigator!RelayDeleted
  <2> QED
    BY <1>0, <2>1
       DEF Navigator!NavigatorInv, Navigator!TypeOK, Navigator!SentWhileLive,
           Navigator!ShownWasSent, Navigator!HandlerRight, Navigator!At, Navigator!Servable
<1>6. CASE Navigator!Tick
  <2>1. UNCHANGED <<status, shown, pressed, presser, arrived, navigatorFaults>>
    BY <1>6 DEF Navigator!Tick
  <2>2. now' \in 0 .. ExpiresAt
    BY <1>0, <1>6, NavigatorConstants DEF Navigator!Tick, Navigator!TypeOK
  <2> QED
    BY <1>0, <2>1, <2>2
       DEF Navigator!NavigatorInv, Navigator!TypeOK, Navigator!SentWhileLive,
           Navigator!ShownWasSent, Navigator!HandlerRight, Navigator!At, Navigator!Servable
<1>7. CASE UNCHANGED navigatorVars
  BY <1>0, <1>7
     DEF navigatorVars, Navigator!NavigatorInv, Navigator!TypeOK, Navigator!SentWhileLive,
         Navigator!ShownWasSent, Navigator!HandlerRight, Navigator!At, Navigator!Servable
<1> QED BY <1>1, <1>2, <1>3, <1>4, <1>5, <1>6, <1>7 DEF Navigator!Next

(* Every button leads to a page of the relay, and so does every press.     *)
LEMMA OnlyDeletedOutOfRange ==
    ASSUME Navigator!NavigatorInv, Navigator!Next,
           NEW h \in Handler, Navigator!At(h, "list"), presser'[h] = Navigator!Idle,
           navigatorFaults' = navigatorFaults
    PROVE  status = "deleted"
<1>0. Navigator!TypeOK
  BY DEF Navigator!NavigatorInv
<1>1. presser[h].pc = "list" /\ Navigator!Idle.pc = "idle" /\ presser'[h] # presser[h]
  BY <1>0, HandlerFields DEF Navigator!At
<1>2. ~Navigator!Fault
  BY <1>0, NavigatorFault
<1>3. PICK g \in Handler :
        \/ Navigator!ReceiveClaim(g) \/ Navigator!Proceed(g)
        \/ \E p \in pressed : Navigator!ReceivePress(g, p)
  BY <1>1, <1>2
     DEF Navigator!Next, Navigator!Fail, Navigator!Crash, Navigator!PressButton,
         Navigator!RelayExpires, Navigator!RelayDeleted, Navigator!Tick
<1>4. g = h
  <2> SUFFICES ASSUME g # h PROVE FALSE
    OBVIOUS
  <2>1. presser'[h] = presser[h]
    BY <1>0, <1>3
       DEF Navigator!TypeOK, Navigator!ReceiveClaim, Navigator!ReceivePress, Navigator!Begin,
           Navigator!Proceed, Navigator!Lookup, Navigator!ListItems, Navigator!Send,
           Navigator!Show, Navigator!Edit, Navigator!Go, Navigator!Return, Navigator!AfterSend
  <2> QED BY <1>1, <2>1
<1>5. Navigator!ListItems(h)
  BY <1>1, <1>3, <1>4
     DEF Navigator!At, Navigator!ReceiveClaim, Navigator!ReceivePress, Navigator!Begin,
         Navigator!Proceed, Navigator!Lookup, Navigator!Send, Navigator!Show, Navigator!Edit
<1>6. CASE presser[h].page <= Navigator!PagesFound
  <2>1. Navigator!Go(h, "send")
    BY <1>5, <1>6 DEF Navigator!ListItems
  <2>2. presser'[h].pc = "send"
    BY <1>0, <2>1 DEF Navigator!Go, Navigator!TypeOK, Navigator!HandlerState
  <2> QED BY <1>1, <2>2
<1>7. CASE ~(presser[h].page <= Navigator!PagesFound)
  <2>1. presser[h].page \in 1 .. PageTotal
    BY <1>0, HandlerFields
  <2>2. ~(presser[h].page <= PageTotal) => FALSE
    BY <2>1, NavigatorConstants
  <2> QED BY <1>7, <2>2 DEF Navigator!PagesFound
<1> QED BY <1>6, <1>7

-----------------------------------------------------------------------------
(* Cutting files into pages.                                               *)

(* A set of numbers that is not empty has a least one. *)
LEMMA LeastNumber ==
    ASSUME NEW T \in SUBSET Nat, T # {}
    PROVE  \E x \in T : \A y \in T : x <= y
<1>1. PICK x \in T : \A y \in T : <<y, x>> \notin OpToRel(<, Nat)
  BY WFMin, NatLessThanWellFounded, Zenon
<1>2. \A y \in T : ~(y < x)
  BY <1>1, Zenon DEF OpToRel
<1>3. x \in T
  OBVIOUS
<1> QED BY <1>2, <1>3

LEMMA PagerConstants ==
    RunSize \in Nat \ {0} /\ MaxItems \in Nat /\ NoGroup \notin Group
BY ServingAssumption DEF Pager!PagingAssumption

LEMMA ItemsAreSequence ==
    ASSUME items \in Pager!Inputs
    PROVE  /\ Len(items) \in Nat /\ DOMAIN items = 1 .. Len(items)
           /\ \A i \in 1 .. Len(items) : items[i] \in Group \cup {NoGroup}
<1>1. PICK n \in 0 .. MaxItems : items \in [1 .. n -> Group \cup {NoGroup}]
  BY DEF Pager!Inputs
<1>2. n \in Nat
  BY <1>1, PagerConstants
<1> QED BY <1>1, <1>2

(* RunEnd is the last of the items from i on that have i's media group. *)
LEMMA RunEndRight ==
    ASSUME items \in Pager!Inputs, NEW i \in 1 .. Len(items)
    PROVE  LET e == Pager!RunEnd(i)
           IN  /\ e \in i .. Len(items)
               /\ \A k \in i .. e : items[k] = items[i]
               /\ e = Len(items) \/ items[e + 1] # items[i]
<1> DEFINE T == {e \in i .. Len(items) : e = Len(items) \/ items[e + 1] # items[i]}
<1>1. Len(items) \in Nat /\ i \in Nat
  BY ItemsAreSequence
<1>2. T \in SUBSET Nat /\ Len(items) \in T
  BY <1>1
<1>3. PICK x \in T : \A y \in T : x <= y
  <2> HIDE DEF T
  <2> QED BY <1>2, LeastNumber
<1>4. ASSUME NEW k \in i .. x PROVE items[k] = items[i]
  <2>1. CASE k = i
    BY <2>1
  <2>2. CASE k # i
    <3>1. k - 1 \in i .. Len(items) /\ k - 1 < x /\ (k - 1) + 1 = k
      BY <1>1, <1>3, <2>2
    <3>2. k - 1 \notin T
      <4> HIDE DEF T
      <4>1. x \in Nat /\ k - 1 \in Nat /\ ~(x <= k - 1)
        BY <1>1, <1>2, <3>1
      <4> QED BY <1>3, <4>1
    <3> QED BY <3>1, <3>2
  <2> QED BY <2>1, <2>2
<1>5. \E e \in i .. Len(items) : /\ \A k \in i .. e : items[k] = items[i]
                                 /\ e = Len(items) \/ items[e + 1] # items[i]
  BY <1>3, <1>4
<1> QED BY <1>5 DEF Pager!RunEnd

(* length files make needed pages: that many are needed and fill them. *)
LEMMA PagesNeeded ==
    ASSUME NEW size \in Nat \ {0}, NEW length \in Nat \ {0}
    PROVE  LET needed == (length - 1 + size) \div size
           IN  /\ needed \in Nat \ {0}
               /\ (needed - 1) * size < length /\ length <= needed * size
<1> DEFINE needed == (length - 1 + size) \div size
           rest == (length - 1 + size) % size
<1>1. /\ needed \in Nat /\ rest \in 0 .. size - 1
      /\ length - 1 + size = size * needed + rest
  OBVIOUS
<1> HIDE DEF needed, rest
<1>2. size * needed = needed * size /\ (needed - 1) * size = needed * size - size
  BY <1>1
<1>3. needed # 0
  BY <1>1
<1> QED BY <1>1, <1>2, <1>3 DEF needed

(* The pages of the run i .. e: where each begins and ends. *)
CutsRun(run, i, e) ==
    /\ run \in Seq(Pager!Page) /\ Len(run) \in Nat \ {0}
    /\ run[1].first = i /\ run[Len(run)].last = e
    /\ \A k \in 1 .. Len(run) :
          /\ run[k].first \in i .. e /\ run[k].last \in run[k].first .. e
          /\ run[k].last <= run[k].first + RunSize - 1
          /\ k > 1 => run[k].first = run[k - 1].last + 1 /\ run[k].first - RunSize >= i
          /\ k < Len(run) => run[k].last = run[k].first + RunSize - 1

LEMMA RunPagesRight ==
    ASSUME NEW i \in Nat \ {0}, NEW e \in Nat, i <= e
    PROVE  CutsRun(Pager!RunPages(i, e), i, e)
<1> DEFINE run == Pager!RunPages(i, e)
           n == (e - i + RunSize) \div RunSize
<1>0. RunSize \in Nat \ {0} /\ e - i + 1 \in Nat \ {0}
  BY PagerConstants
<1>1. n \in Nat \ {0} /\ (n - 1) * RunSize <= e - i /\ e - i + 1 <= n * RunSize
  <2>1. (e - i + 1) - 1 + RunSize = e - i + RunSize
    BY <1>0
  <2>2. LET needed == ((e - i + 1) - 1 + RunSize) \div RunSize
        IN  /\ needed \in Nat \ {0}
            /\ (needed - 1) * RunSize < e - i + 1 /\ e - i + 1 <= needed * RunSize
    BY <1>0, PagesNeeded
  <2>3. n = ((e - i + 1) - 1 + RunSize) \div RunSize
    BY <2>1
  <2> HIDE DEF n
  <2>4. n \in Nat \ {0} /\ (n - 1) * RunSize < e - i + 1 /\ e - i + 1 <= n * RunSize
    BY <2>2, <2>3
  <2>5. (n - 1) * RunSize \in Int
    BY <1>0, <2>4
  <2> QED BY <2>4, <2>5
<1>2. run = [k \in 1 .. n |->
              [first |-> i + (k - 1) * RunSize,
               last  |-> IF i + k * RunSize - 1 > e THEN e ELSE i + k * RunSize - 1]]
  BY DEF Pager!RunPages
<1> HIDE DEF run, n
<1>3. ASSUME NEW k \in 1 .. n
      PROVE  /\ (k - 1) * RunSize \in Nat /\ k * RunSize = (k - 1) * RunSize + RunSize
             /\ (k - 1) * RunSize <= e - i
             /\ k < n => k * RunSize <= e - i
             /\ k > 1 => (k - 1) * RunSize >= RunSize
  <2>1. k \in Nat /\ k - 1 \in Nat /\ n - k \in Nat /\ RunSize \in Nat
    BY <1>0, <1>1
  <2>2. (k - 1) * RunSize \in Nat /\ (n - k) * RunSize \in Nat
    BY <2>1
  <2>3. /\ k * RunSize = (k - 1) * RunSize + RunSize
        /\ (n - 1) * RunSize = (k - 1) * RunSize + (n - k) * RunSize
    BY <1>1, <2>1
  <2>4. k < n => (n - k) * RunSize >= RunSize
    <3>1. CASE k < n
      <4>1. n - k - 1 \in Nat
        BY <1>1, <2>1, <3>1
      <4>2. (n - k - 1) * RunSize \in Nat /\ (n - k) * RunSize = (n - k - 1) * RunSize + RunSize
        BY <2>1, <4>1
      <4> QED BY <2>1, <4>2
    <3> QED BY <3>1
  <2>5. k > 1 => (k - 1) * RunSize >= RunSize
    <3>1. CASE k > 1
      <4>1. k - 2 \in Nat
        BY <2>1, <3>1
      <4>2. (k - 2) * RunSize \in Nat /\ (k - 1) * RunSize = (k - 2) * RunSize + RunSize
        BY <2>1, <4>1
      <4> QED BY <2>1, <4>2
    <3> QED BY <3>1
  <2> QED BY <1>0, <1>1, <2>1, <2>2, <2>3, <2>4, <2>5
<1>4. ASSUME NEW k \in 1 .. n
      PROVE  /\ run[k].first = i + (k - 1) * RunSize
             /\ run[k].last = IF i + k * RunSize - 1 > e THEN e ELSE i + k * RunSize - 1
             /\ run[k] \in Pager!Page
             /\ run[k].first \in i .. e /\ run[k].last \in run[k].first .. e
             /\ run[k].last <= run[k].first + RunSize - 1
             /\ k > 1 => run[k].first - RunSize >= i
             /\ k < n => run[k].last = run[k].first + RunSize - 1
  <2>1. /\ run[k].first = i + (k - 1) * RunSize
        /\ run[k].last = IF i + k * RunSize - 1 > e THEN e ELSE i + k * RunSize - 1
        /\ run[k] = [first |-> run[k].first, last |-> run[k].last]
    BY <1>2
  <2>2. PICK a \in Nat : a = (k - 1) * RunSize
    BY <1>3
  <2>3. k * RunSize = a + RunSize /\ a <= e - i /\ (k < n => a + RunSize <= e - i)
        /\ (k > 1 => a >= RunSize)
    BY <1>3, <2>2
  <2>4. run[k].first = i + a
        /\ run[k].last = IF i + a + RunSize - 1 > e THEN e ELSE i + a + RunSize - 1
    BY <1>0, <2>1, <2>2, <2>3
  <2>5. run[k].first \in Nat /\ run[k].last \in Nat
    BY <1>0, <2>3, <2>4
  <2>6. run[k] \in Pager!Page
    BY <2>1, <2>5 DEF Pager!Page
  <2>7. /\ run[k].first \in i .. e /\ run[k].last \in run[k].first .. e
        /\ run[k].last <= run[k].first + RunSize - 1
        /\ k > 1 => run[k].first - RunSize >= i
        /\ k < n => run[k].last = run[k].first + RunSize - 1
    BY <1>0, <2>3, <2>4
  <2> QED BY <2>1, <2>6, <2>7
<1>5. ASSUME NEW k \in 1 .. n, k > 1
      PROVE  run[k].first = run[k - 1].last + 1
  <2>1. k - 1 \in 1 .. n /\ k - 1 < n
    BY <1>1, <1>5
  <2>2. /\ run[k - 1].last = run[k - 1].first + RunSize - 1
        /\ run[k - 1].first = i + (k - 1 - 1) * RunSize
    BY <1>4, <2>1
  <2>3. (k - 1) * RunSize = (k - 1 - 1) * RunSize + RunSize /\ (k - 1 - 1) * RunSize \in Nat
    BY <1>3, <2>1
  <2>4. run[k].first = i + (k - 1) * RunSize
    BY <1>4
  <2> QED BY <1>0, <2>2, <2>3, <2>4
<1>6. run \in Seq(Pager!Page) /\ Len(run) = n
  <2>1. \A k \in 1 .. n : run[k] \in Pager!Page
    BY <1>4
  <2>2. run \in [1 .. n -> Pager!Page]
    BY <1>2, <2>1
  <2> QED BY <1>1, <2>2
<1>7. run[1].first = i
  <2>1. 1 \in 1 .. n
    BY <1>1
  <2>2. run[1].first = i + (1 - 1) * RunSize
    BY <1>4, <2>1
  <2> QED BY <1>0, <2>2
<1>8. run[n].last = e
  <2>1. n \in 1 .. n
    BY <1>1
  <2>2. run[n].last = IF i + n * RunSize - 1 > e THEN e ELSE i + n * RunSize - 1
    BY <1>4, <2>1
  <2>3. n * RunSize \in Int
    BY <1>0, <1>1
  <2> QED BY <1>1, <2>2, <2>3
<1> QED BY <1>1, <1>4, <1>5, <1>6, <1>7, <1>8 DEF run, CutsRun

LEMMA PagerInitially == Pager!Init => Pager!PagingInv
<1> SUFFICES ASSUME Pager!Init PROVE Pager!PagingInv
  OBVIOUS
<1>1. Len(items) \in Nat /\ pages = <<>> /\ DOMAIN pages = {} /\ index = 1 /\ seen = {}
      /\ paged = "running" /\ items \in Pager!Inputs
  BY ItemsAreSequence DEF Pager!Init
<1>2. Pager!TypeOK
  BY <1>1 DEF Pager!TypeOK
<1>3. Pager!LoopRight
  BY <1>1 DEF Pager!LoopRight
<1> QED
  BY <1>1, <1>2, <1>3
     DEF Pager!PagingInv, Pager!PagesTile, Pager!AlbumsWhole, Pager!RefusedIffFragmented

(* What PagingInv says, with the types spelled out. *)
LEMMA PagerFacts ==
    ASSUME Pager!PagingInv
    PROVE  /\ items \in Pager!Inputs /\ Len(items) \in Nat /\ DOMAIN items = 1 .. Len(items)
           /\ index \in 1 .. Len(items) + 1
           /\ pages \in Seq(Pager!Page) /\ Len(pages) \in Nat /\ DOMAIN pages = 1 .. Len(pages)
           /\ \A p \in DOMAIN pages : pages[p].first \in Nat /\ pages[p].last \in Nat
           /\ seen \in SUBSET Group
<1>1. items \in Pager!Inputs /\ index \in 1 .. Len(items) + 1 /\ pages \in Seq(Pager!Page)
      /\ seen \in SUBSET Group
  BY DEF Pager!PagingInv, Pager!TypeOK
<1>2. ASSUME NEW p \in DOMAIN pages
      PROVE  pages[p].first \in Nat /\ pages[p].last \in Nat
  <2>1. pages[p] \in Pager!Page
    BY <1>1, <1>2
  <2> QED BY <2>1 DEF Pager!Page
<1> QED BY <1>1, <1>2, ItemsAreSequence

(* A round of the loop takes the run that begins at index. *)
LEMMA PagerRound ==
    ASSUME Pager!PagingInv, Pager!Round
    PROVE  Pager!PagingInv'
<1> DEFINE e == Pager!RunEnd(index)
           run == Pager!RunPages(index, e)
           n == Len(run)
           l == Len(pages)
<1>0. /\ items \in Pager!Inputs /\ Len(items) \in Nat /\ DOMAIN items = 1 .. Len(items)
      /\ pages \in Seq(Pager!Page) /\ l \in Nat /\ DOMAIN pages = 1 .. l
      /\ \A p \in DOMAIN pages : pages[p].first \in Nat /\ pages[p].last \in Nat
      /\ index \in 1 .. Len(items) /\ index \in Nat \ {0} /\ RunSize \in Nat \ {0}
      /\ seen \in SUBSET Group
  BY PagerFacts, PagerConstants DEF Pager!Round
<1>1. /\ paged = "running" /\ items[index] \notin seen
      /\ pages' = pages \o run /\ seen' = seen \cup ({items[index]} \ {NoGroup})
      /\ index' = e + 1 /\ items' = items /\ paged' = paged
  BY DEF Pager!Round, Pager!TakeRun, Pager!SeenBefore
<1>2. /\ e \in index .. Len(items) /\ e \in Nat /\ index <= e
      /\ \A k \in index .. e : items[k] = items[index]
      /\ e = Len(items) \/ items[e + 1] # items[index]
  BY <1>0, RunEndRight
<1> HIDE DEF e, run, n, l
<1>a. /\ index \in Nat /\ e \in Nat /\ Len(items) \in Nat /\ l \in Nat /\ RunSize \in Nat
      /\ 1 <= index /\ index <= e /\ e <= Len(items) /\ 1 <= RunSize
  <2>1. index \in Nat /\ 1 <= index /\ RunSize \in Nat /\ 1 <= RunSize
    BY <1>0
  <2>2. l \in Nat /\ Len(items) \in Nat
    BY <1>0
  <2>3. e \in Nat /\ index <= e
    BY <1>2
  <2>4. e \in index .. Len(items)
    BY <1>2
  <2>5. e <= Len(items)
    BY <2>1, <2>2, <2>3, <2>4
  <2> QED BY <2>1, <2>2, <2>3, <2>5
<1>3. /\ run \in Seq(Pager!Page) /\ n \in Nat \ {0}
      /\ run[1].first = index /\ run[n].last = e
      /\ \A k \in 1 .. n :
            /\ run[k].first \in index .. e /\ run[k].last \in run[k].first .. e
            /\ run[k].last <= run[k].first + RunSize - 1
            /\ k > 1 => run[k].first = run[k - 1].last + 1 /\ run[k].first - RunSize >= index
            /\ k < n => run[k].last = run[k].first + RunSize - 1
  <2>1. index \in Nat \ {0}
    BY <1>a
  <2>2. CutsRun(Pager!RunPages(index, e), index, e)
    BY <1>a, <2>1, RunPagesRight
  <2> QED BY <2>2 DEF run, n, CutsRun
<1>4. /\ pages' \in Seq(Pager!Page) /\ Len(pages') = l + n /\ DOMAIN pages' = 1 .. l + n
      /\ \A p \in 1 .. l : pages'[p] = pages[p]
      /\ \A k \in 1 .. n : pages'[l + k] = run[k]
  BY <1>0, <1>1, <1>3 DEF n, l
<1>5. /\ Pager!PagesTile /\ Pager!LoopRight
      /\ \A p \in DOMAIN pages : Pager!PageOfRun(pages[p].first, pages[p].last)
  BY DEF Pager!PagingInv
<1>6. \A p \in DOMAIN pages' : p \in 1 .. l \/ \E k \in 1 .. n : p = l + k
  <2> SUFFICES ASSUME NEW p \in DOMAIN pages', p \notin 1 .. l
               PROVE  p - l \in 1 .. n /\ p = l + (p - l)
    OBVIOUS
  <2> QED BY <1>0, <1>3, <1>4
<1>7. ASSUME NEW k \in 1 .. n PROVE Pager!PageOfRun(run[k].first, run[k].last)
  <2> DEFINE first == run[k].first
             last == run[k].last
  <2>1. /\ first \in index .. e /\ last \in first .. e
        /\ k > 1 => first - RunSize >= index
        /\ k < n => last = first + RunSize - 1
        /\ k \in Nat /\ k <= n
        /\ k = 1 => first = index
        /\ k = n => last = e
    <3> HIDE DEF run, n
    <3>1. k \in Nat /\ k <= n /\ n \in Nat
      BY <1>3
    <3>2. /\ first \in index .. e /\ last \in first .. e
          /\ k > 1 => first - RunSize >= index
          /\ k < n => last = first + RunSize - 1
      BY <1>3
    <3>3. (k = 1 => first = index) /\ (k = n => last = e)
      BY <1>3
    <3> HIDE DEF first, last
    <3> QED BY <3>1, <3>2, <3>3
  <2> HIDE DEF first, last
  <2>2. items[first] = items[index] /\ \A i \in first .. last : items[i] = items[first]
    <3>1. \A i \in first .. last : i \in index .. e
      BY <1>a, <2>1
    <3>2. \A i \in index .. e : items[i] = items[index]
      BY <1>2
    <3> QED BY <2>1, <3>1, <3>2
  <2>3. \/ first = 1 \/ items[first - 1] # items[first]
        \/ first > RunSize /\ items[first - RunSize] = items[first]
    <3>1. CASE k = 1
      <4>1. first = index /\ (index = 1 \/ index \in 2 .. Len(items))
        BY <1>0, <2>1, <3>1
      <4> QED BY <1>5, <4>1 DEF Pager!LoopRight
    <3>2. CASE k > 1
      <4>1. first > RunSize /\ first - RunSize \in index .. e
        BY <1>a, <2>1, <3>2
      <4> QED BY <1>2, <2>2, <4>1
    <3> QED BY <2>1, <3>1, <3>2
  <2>4. \/ last = Len(items) \/ items[last + 1] # items[first]
        \/ last = first + RunSize - 1
    <3>1. CASE k = n
      BY <1>2, <2>1, <2>2, <3>1
    <3>2. CASE k < n
      BY <2>1, <3>2
    <3> QED BY <1>3, <2>1, <3>1, <3>2
  <2>5. first \in 1 .. Len(items) /\ last \in first .. Len(items)
    BY <1>a, <2>1
  <2> QED BY <2>2, <2>3, <2>4, <2>5 DEF Pager!PageOfRun, first, last
<1>8. ASSUME NEW p \in DOMAIN pages' PROVE Pager!PageOfRun(pages'[p].first, pages'[p].last)
  <2>1. CASE p \in 1 .. l
    BY <1>0, <1>4, <1>5, <2>1
  <2>2. CASE \E k \in 1 .. n : p = l + k
    BY <1>4, <1>7, <2>2
  <2> QED BY <1>6, <2>1, <2>2
<1>10. Pager!TypeOK'
  <2>1. seen' \in SUBSET Group
    BY <1>0, <1>1, ItemsAreSequence
  <2>2. index' \in 1 .. Len(items) + 1
    BY <1>a, <1>1
  <2> QED BY <1>0, <1>1, <1>4, <2>1, <2>2 DEF Pager!TypeOK
<1>11. Pager!PagesTile'
  <2>1. index = IF l = 0 THEN 1 ELSE pages[l].last + 1
    BY <1>0, <1>5 DEF Pager!PagesTile, l
  <2>2. ASSUME NEW p \in DOMAIN pages'
        PROVE  /\ pages'[p].first = IF p = 1 THEN 1 ELSE pages'[p - 1].last + 1
               /\ pages'[p].last \in pages'[p].first .. pages'[p].first + RunSize - 1
    <3>1. CASE p \in 1 .. l
      <4>1. p = 1 \/ p - 1 \in 1 .. l
        BY <1>0, <3>1
      <4> QED BY <1>0, <1>4, <1>5, <3>1, <4>1 DEF Pager!PagesTile
    <3>2. ASSUME NEW k \in 1 .. n, p = l + k
          PROVE  /\ pages'[p].first = IF p = 1 THEN 1 ELSE pages'[p - 1].last + 1
                 /\ pages'[p].last \in pages'[p].first .. pages'[p].first + RunSize - 1
      <4>1. /\ pages'[p] = run[k] /\ run[k].first \in Nat
            /\ run[k].last \in run[k].first .. run[k].first + RunSize - 1
        <5>1. pages'[p] = run[k]
          BY <1>4, <3>2
        <5>2. /\ run[k].first \in index .. e /\ run[k].last \in run[k].first .. e
              /\ run[k].last <= run[k].first + RunSize - 1
          BY <1>3
        <5> QED BY <1>a, <5>1, <5>2
      <4>2. CASE k = 1
        <5>1. run[k].first = index
          BY <1>3, <4>2
        <5>2. CASE l = 0
          BY <2>1, <3>2, <4>1, <4>2, <5>1, <5>2
        <5>3. CASE l # 0
          <6>1. p # 1 /\ p - 1 = l /\ l \in 1 .. l
            BY <1>0, <3>2, <4>2, <5>3
          <6>2. pages'[p - 1] = pages[l]
            BY <1>4, <6>1
          <6> QED BY <2>1, <4>1, <5>1, <5>3, <6>1, <6>2
        <5> QED BY <5>2, <5>3
      <4>3. CASE k # 1
        <5>1. k > 1 /\ k - 1 \in 1 .. n /\ p - 1 = l + (k - 1) /\ p # 1
          BY <1>0, <1>3, <3>2, <4>3
        <5>2. pages'[p - 1] = run[k - 1] /\ run[k].first = run[k - 1].last + 1
          BY <1>3, <1>4, <5>1
        <5> QED BY <4>1, <5>1, <5>2
      <4> QED BY <4>2, <4>3
    <3> QED BY <1>6, <3>1, <3>2
  <2>3. index' = IF pages' = <<>> THEN 1 ELSE pages'[Len(pages')].last + 1
    <3>1. n \in 1 .. n /\ Len(pages') = l + n /\ Len(pages') # 0
      BY <1>0, <1>3, <1>4
    <3>2. pages' # <<>>
      BY <3>1
    <3>3. pages'[Len(pages')].last = e
      BY <1>3, <1>4, <3>1
    <3> QED BY <1>1, <3>2, <3>3
  <2> QED BY <2>2, <2>3 DEF Pager!PagesTile
<1>12. Pager!LoopRight'
  <2>1. seen' = {items[i] : i \in 1 .. e} \ {NoGroup}
    <3>1. seen = {items[i] : i \in 1 .. index - 1} \ {NoGroup}
      BY <1>5 DEF Pager!LoopRight
    <3>2. \A i \in 1 .. e : i \in 1 .. index - 1 \/ i \in index .. e
      BY <1>a
    <3>3. \A i \in 1 .. index - 1 : i \in 1 .. e
      BY <1>a
    <3>4. {items[i] : i \in 1 .. e} = {items[i] : i \in 1 .. index - 1} \cup {items[index]}
      <4>1. \A i \in 1 .. e :
              items[i] \in {items[j] : j \in 1 .. index - 1} \cup {items[index]}
        BY <1>2, <3>2
      <4>2. index \in 1 .. e
        BY <1>a
      <4> QED BY <3>3, <4>1, <4>2
    <3> QED BY <1>1, <3>1, <3>4
  <2>2. index' \in 2 .. Len(items) => items[index' - 1] # items[index']
    <3>1. index' = e + 1 /\ index' - 1 = e /\ e \in index .. e
      BY <1>a, <1>1
    <3>2. items[e] = items[index]
      BY <1>2, <3>1
    <3>3. CASE e = Len(items)
      BY <1>a, <3>1, <3>3
    <3>4. CASE items[e + 1] # items[index]
      BY <3>1, <3>2, <3>4
    <3> QED BY <1>2, <3>3, <3>4
  <2>3. ASSUME NEW i \in 1 .. e, NEW k \in 1 .. e, items[i] = items[k], items[i] # NoGroup,
               NEW j \in i .. k
        PROVE  items[j] = items[i]
    <3>1. CASE k \in 1 .. index - 1
      <4>1. i \in 1 .. index - 1
        BY <1>a, <2>3, <3>1
      <4> QED BY <1>5, <2>3, <3>1, <4>1 DEF Pager!LoopRight
    <3>2. CASE i \in index .. e
      <4>1. j \in index .. e
        BY <1>a, <3>2
      <4> QED BY <1>2, <3>2, <4>1
    <3>3. CASE i \in 1 .. index - 1 /\ k \in index .. e
      <4>1. items[i] \in seen
        BY <1>5, <2>3, <3>3 DEF Pager!LoopRight
      <4>2. items[k] = items[index]
        BY <1>2, <3>3
      <4> QED BY <1>1, <2>3, <4>1, <4>2
    <3> QED BY <1>a, <3>1, <3>2, <3>3
  <2>4. index' - 1 = e /\ paged' # "pages"
    BY <1>1, <1>2
  <2> QED BY <1>1, <2>1, <2>2, <2>3, <2>4 DEF Pager!LoopRight
<1>13. Pager!AlbumsWhole'
  <2>1. \A p \in DOMAIN pages' : \A i \in pages'[p].first .. pages'[p].last :
           items[i] = items[pages'[p].first]
    BY <1>8 DEF Pager!PageOfRun
  <2> QED BY <1>1, <2>1 DEF Pager!AlbumsWhole
<1>14. Pager!RefusedIffFragmented'
  BY <1>1 DEF Pager!RefusedIffFragmented
<1>15. \A p \in DOMAIN pages' : Pager!PageOfRun(pages[p].first, pages[p].last)'
  BY <1>1, <1>8 DEF Pager!PageOfRun
<1> QED BY <1>10, <1>11, <1>12, <1>13, <1>14, <1>15 DEF Pager!PagingInv

(* When the loop has passed all files, every album lies together, and one  *)
(* that fits a page is a page.                                             *)
LEMMA PagerReturnsPages ==
    ASSUME Pager!PagingInv, Pager!ReturnPages
    PROVE  Pager!PagingInv'
<1>0. /\ Len(items) \in Nat /\ DOMAIN items = 1 .. Len(items)
      /\ index \in 1 .. Len(items) + 1
      /\ \A p \in DOMAIN pages : pages[p].first \in Nat /\ pages[p].last \in Nat
      /\ DOMAIN pages = 1 .. Len(pages) /\ Len(pages) \in Nat /\ RunSize \in Nat \ {0}
  BY PagerFacts, PagerConstants
<1>1. /\ index > Len(items) /\ paged' = "pages"
      /\ UNCHANGED <<items, index, seen, pages>>
  BY DEF Pager!ReturnPages
<1>2. /\ Pager!TypeOK /\ Pager!PagesTile /\ Pager!AlbumsWhole /\ Pager!LoopRight
      /\ \A p \in DOMAIN pages : Pager!PageOfRun(pages[p].first, pages[p].last)
  BY DEF Pager!PagingInv
<1>3. index - 1 = Len(items)
  BY <1>0, <1>1
<1>4. \A i, k \in 1 .. Len(items) :
        items[i] = items[k] /\ items[i] # NoGroup => \A j \in i .. k : items[j] = items[i]
  BY <1>2, <1>3 DEF Pager!LoopRight
<1>5. ~Pager!Fragmented
  <2> SUFFICES ASSUME NEW i \in 1 .. Len(items), NEW j \in 1 .. Len(items),
                      NEW k \in 1 .. Len(items),
                      i < j, j < k, items[i] = items[k], items[i] # NoGroup,
                      items[j] # items[i]
               PROVE  FALSE
    BY <1>0 DEF Pager!Fragmented
  <2>1. j \in i .. k
    BY <1>0
  <2> QED BY <1>4, <2>1
<1>6. ASSUME NEW p \in DOMAIN pages
      PROVE  pages[p].first \in 1 .. Len(items) /\ pages[p].last \in pages[p].first .. Len(items)
  BY <1>2 DEF Pager!PageOfRun
<1>7. ASSUME NEW p \in DOMAIN pages, items[pages[p].first] # NoGroup,
             \A i, j \in 1 .. Len(items) :
                items[i] = items[pages[p].first] /\ items[j] = items[pages[p].first]
                => j - i < RunSize
      PROVE  {i \in 1 .. Len(items) : items[i] = items[pages[p].first]}
             = pages[p].first .. pages[p].last
  <2>1. PICK first \in Nat, last \in Nat, m \in Nat :
            first = pages[p].first /\ last = pages[p].last /\ m = Len(items)
    BY <1>0
  <2>2. first \in 1 .. m /\ last \in first .. m
    BY <1>6, <2>1
  <2>3. Pager!PageOfRun(first, last)
    BY <1>2, <2>1
  <2>4. \A i \in first .. last : items[i] = items[first]
    BY <2>3 DEF Pager!PageOfRun
  <2>5. first = 1 \/ items[first - 1] # items[first]
    <3> SUFFICES ASSUME first > RunSize, items[first - RunSize] = items[first] PROVE FALSE
      BY <2>3 DEF Pager!PageOfRun
    <3>1. first - RunSize \in 1 .. m /\ ~(first - (first - RunSize) < RunSize)
      BY <1>0, <2>2
    <3> QED BY <1>7, <2>1, <2>2, <3>1
  <2>6. last = m \/ items[last + 1] # items[first]
    <3> SUFFICES ASSUME last = first + RunSize - 1, last # m, items[last + 1] = items[first]
                 PROVE  FALSE
      BY <2>1, <2>3 DEF Pager!PageOfRun
    <3>1. last + 1 \in 1 .. m /\ ~((last + 1) - first < RunSize)
      BY <1>0, <2>2
    <3> QED BY <1>7, <2>1, <2>2, <3>1
  <2>7. ASSUME NEW i \in 1 .. m, items[i] = items[first] PROVE i \in first .. last
    <3>1. CASE i < first
      <4>1. first - 1 \in i .. first /\ first # 1
        BY <2>2, <3>1
      <4>2. items[first - 1] = items[i]
        BY <1>4, <1>7, <2>1, <2>2, <2>7, <4>1
      <4> QED BY <2>5, <2>7, <4>1, <4>2
    <3>2. CASE i > last
      <4>1. last + 1 \in first .. i /\ last # m
        BY <2>2, <3>2
      <4>2. items[last + 1] = items[first]
        BY <1>4, <1>7, <2>1, <2>2, <2>7, <4>1
      <4> QED BY <2>6, <4>1, <4>2
    <3> QED BY <2>2, <3>1, <3>2
  <2>8. \A i \in first .. last : i \in 1 .. m
    BY <2>2
  <2> QED BY <2>1, <2>4, <2>7, <2>8
<1>8. Pager!AlbumsWhole'
  <2> SUFFICES ASSUME NEW p \in DOMAIN pages
               PROVE  LET g == items[pages[p].first]
                          album == {i \in 1 .. Len(items) : items[i] = g}
                      IN  /\ \A i \in pages[p].first .. pages[p].last : items[i] = g
                          /\ g # NoGroup /\ (\A i \in album, j \in album : j - i < RunSize)
                             => album = pages[p].first .. pages[p].last
    BY <1>0, <1>1 DEF Pager!AlbumsWhole
  <2>1. \A i \in pages[p].first .. pages[p].last : items[i] = items[pages[p].first]
    BY <1>2 DEF Pager!PageOfRun
  <2> QED BY <1>7, <2>1
<1>9. Pager!RefusedIffFragmented'
  BY <1>1, <1>5 DEF Pager!RefusedIffFragmented, Pager!Fragmented
<1>10. Pager!TypeOK' /\ Pager!PagesTile' /\ Pager!LoopRight'
  BY <1>1, <1>2 DEF Pager!TypeOK, Pager!PagesTile, Pager!LoopRight
<1>11. \A p \in DOMAIN pages' : Pager!PageOfRun(pages[p].first, pages[p].last)'
  BY <1>1, <1>2 DEF Pager!PageOfRun
<1> QED BY <1>8, <1>9, <1>10, <1>11 DEF Pager!PagingInv

(* A group met again after another: files are refused with reason. *)
LEMMA PagerRefuses ==
    ASSUME Pager!PagingInv, Pager!ReturnFragmented
    PROVE  Pager!PagingInv'
<1>0. /\ Len(items) \in Nat /\ DOMAIN items = 1 .. Len(items)
      /\ index \in 1 .. Len(items)
  BY PagerFacts DEF Pager!ReturnFragmented
<1>1. /\ items[index] \in seen /\ paged' = "fragmented"
      /\ UNCHANGED <<items, index, seen, pages>>
  BY DEF Pager!ReturnFragmented, Pager!SeenBefore
<1>2. /\ Pager!TypeOK /\ Pager!PagesTile /\ Pager!AlbumsWhole /\ Pager!LoopRight
      /\ \A p \in DOMAIN pages : Pager!PageOfRun(pages[p].first, pages[p].last)
  BY DEF Pager!PagingInv
<1>3. PICK i \in 1 .. index - 1 : items[i] = items[index] /\ items[i] # NoGroup
  BY <1>1, <1>2 DEF Pager!LoopRight
<1>4. index \in 2 .. Len(items) /\ index - 1 \in 1 .. Len(items) /\ i \in 1 .. Len(items)
      /\ i <= index - 1 /\ index - 1 < index
  BY <1>0, <1>3
<1>5. items[index - 1] # items[index]
  BY <1>2, <1>4 DEF Pager!LoopRight
<1>6. i < index - 1
  <2>1. i # index - 1
    BY <1>3, <1>5
  <2> QED BY <1>0, <1>4, <2>1
<1>7. Pager!Fragmented
  <2> DEFINE j == index - 1
  <2>1. /\ i \in DOMAIN items /\ j \in DOMAIN items /\ index \in DOMAIN items
        /\ i < j /\ j < index /\ items[i] = items[index] /\ items[i] # NoGroup
        /\ items[j] # items[i]
    BY <1>0, <1>3, <1>4, <1>5, <1>6
  <2> HIDE DEF j
  <2> QED BY <2>1 DEF Pager!Fragmented
<1>8. Pager!RefusedIffFragmented'
  BY <1>1, <1>7 DEF Pager!RefusedIffFragmented, Pager!Fragmented
<1>9. Pager!TypeOK' /\ Pager!PagesTile' /\ Pager!LoopRight' /\ Pager!AlbumsWhole'
  BY <1>1, <1>2 DEF Pager!TypeOK, Pager!PagesTile, Pager!LoopRight, Pager!AlbumsWhole
<1>10. \A p \in DOMAIN pages' : Pager!PageOfRun(pages[p].first, pages[p].last)'
  BY <1>1, <1>2 DEF Pager!PageOfRun
<1> QED BY <1>8, <1>9, <1>10 DEF Pager!PagingInv

LEMMA PagerSteps ==
    ASSUME Pager!PagingInv, Pager!Next \/ UNCHANGED pagerVars
    PROVE  Pager!PagingInv'
<1>1. CASE UNCHANGED pagerVars
  <2>1. UNCHANGED <<items, index, seen, pages, paged>>
    BY <1>1 DEF pagerVars
  <2>2. /\ Pager!TypeOK /\ Pager!PagesTile /\ Pager!AlbumsWhole
        /\ Pager!RefusedIffFragmented /\ Pager!LoopRight
        /\ \A p \in DOMAIN pages : Pager!PageOfRun(pages[p].first, pages[p].last)
    BY DEF Pager!PagingInv
  <2>3. Pager!TypeOK' /\ Pager!PagesTile'
    BY <2>1, <2>2 DEF Pager!TypeOK, Pager!PagesTile
  <2>4. Pager!AlbumsWhole'
    BY <2>1, <2>2 DEF Pager!AlbumsWhole
  <2>5. Pager!RefusedIffFragmented' /\ Pager!LoopRight'
    BY <2>1, <2>2 DEF Pager!RefusedIffFragmented, Pager!Fragmented, Pager!LoopRight
  <2>6. \A p \in DOMAIN pages' : Pager!PageOfRun(pages[p].first, pages[p].last)'
    BY <2>1, <2>2 DEF Pager!PageOfRun
  <2> QED BY <2>3, <2>4, <2>5, <2>6 DEF Pager!PagingInv
<1> QED BY <1>1, PagerRound, PagerRefuses, PagerReturnsPages DEF Pager!Next

-----------------------------------------------------------------------------
(* The claims of a message.                                                *)

LEMMA MessagesConstants ==
    /\ FirstUpdate \in Nat \ {0} /\ LastUpdate \in Nat /\ Messages!Factor \in Nat
    /\ LastUpdate <= FirstUpdate * Messages!Factor
    /\ MaxCodes \in Nat /\ MaxCodes < Messages!Factor
    /\ MaxFaults \in Nat
    /\ \A u \in Messages!Update : u \in Nat /\ u # 0 /\ FirstUpdate <= u /\ u <= LastUpdate
    /\ Messages!NoUpdate \notin Messages!Update
BY ServingAssumption
   DEF Messages!NumberingAssumption, Messages!CodesAssumption, Messages!Factor,
       Messages!Update, Messages!NoUpdate

LEMMA MessagesCardinality ==
    \A S : Messages!Cardinality(S) = Cardinality(S)
BY DEF Messages!Cardinality, Cardinality

(* The numbers in a finite set S are counted through from 1: the rank of   *)
(* each, and each rank.                                                    *)
LEMMA RanksFill ==
    ASSUME NEW n \in Nat, NEW S \in SUBSET (1 .. n)
    PROVE  LET rank(i) == Cardinality({j \in S : j <= i})
           IN  /\ Cardinality(S) \in 0 .. n
               /\ \A i \in S : rank(i) \in 1 .. Cardinality(S)
               /\ \A i, k \in S : rank(i) = rank(k) => i = k
               /\ \A r \in 1 .. Cardinality(S) : \E i \in S : rank(i) = r
<1> DEFINE upTo(i) == {j \in S : j <= i}
           rank(i) == Cardinality(upTo(i))
           c == Cardinality(S)
           f == [i \in S |-> rank(i)]
<1>1. /\ IsFiniteSet(1 .. n) /\ Cardinality(1 .. n) = n
      /\ IsFiniteSet(S) /\ c \in Nat /\ c <= n
  <2>1. IsFiniteSet(1 .. n) /\ Cardinality(1 .. n) = n
    BY FS_Interval
  <2>2. IsFiniteSet(S) /\ Cardinality(S) <= n
    BY <2>1, FS_Subset
  <2> QED BY <2>1, <2>2, FS_CardinalityType
<1>2. \A i \in S : i \in Nat
  OBVIOUS
<1>3. ASSUME NEW i \in S
      PROVE  /\ IsFiniteSet(upTo(i)) /\ rank(i) \in 1 .. c /\ i \in upTo(i)
  <2>1. upTo(i) \in SUBSET S /\ i \in upTo(i)
    BY <1>2
  <2>2. IsFiniteSet(upTo(i)) /\ rank(i) \in Nat /\ rank(i) <= c
    BY <1>1, <2>1, FS_Subset, FS_CardinalityType
  <2>3. rank(i) # 0
    BY <2>1, <2>2, FS_EmptySet
  <2> HIDE DEF rank, c, upTo
  <2> QED BY <1>1, <2>1, <2>2, <2>3
<1>4. ASSUME NEW i \in S, NEW k \in S, i < k PROVE rank(i) # rank(k)
  <2>a. i \in Nat /\ k \in Nat /\ i < k
    BY <1>2, <1>4
  <2>b. k <= k /\ ~(k <= i) /\ \A j \in Nat : j <= i => j <= k
    BY <2>a
  <2>1. upTo(i) \in SUBSET upTo(k) /\ k \in upTo(k) /\ k \notin upTo(i)
    BY <1>2, <2>b
  <2>2. rank(i) = rank(k) => upTo(i) = upTo(k)
    <3>1. IsFiniteSet(upTo(k))
      BY <1>3
    <3> HIDE DEF upTo
    <3> QED BY <2>1, <3>1, FS_Subset
  <2> QED BY <2>1, <2>2
<1>5. \A i, k \in S : rank(i) = rank(k) => i = k
  <2> SUFFICES ASSUME NEW i \in S, NEW k \in S, rank(i) = rank(k), i # k PROVE FALSE
    OBVIOUS
  <2>1. i < k \/ k < i
    BY <1>2
  <2> HIDE DEF rank
  <2> QED BY <1>4, <2>1
<1>6. f \in Injection(S, 1 .. c)
  <2> HIDE DEF rank, c
  <2> QED BY <1>3, <1>5 DEF Injection, IsInjective
<1>7. f \in Surjection(S, 1 .. c)
  <2>1. IsFiniteSet(1 .. c) /\ Cardinality(1 .. c) = c
    BY <1>1, FS_Interval
  <2> HIDE DEF f, c
  <2>2. Cardinality(S) = Cardinality(1 .. c)
    BY <2>1 DEF c
  <2> QED BY <1>1, <1>6, <2>1, <2>2, FS_Injection
<1>8. \A r \in 1 .. c : \E i \in S : rank(i) = r
  <2> HIDE DEF rank, c
  <2> QED BY <1>7 DEF Surjection
<1>9. c \in 0 .. n
  BY <1>1
<1> QED BY <1>3, <1>5, <1>8, <1>9

LEMMA ContentIsSequence ==
    ASSUME NEW message \in Messages!Message
    PROVE  LET m == Messages!Content(message)
           IN  /\ Len(m) \in Nat /\ Len(m) <= MaxCodes /\ DOMAIN m = 1 .. Len(m)
<1>1. message.codes \in UNION {[1 .. n -> MCMatch] : n \in 0 .. MaxCodes}
  BY DEF Messages!Message, Messages!SeqOf
<1>2. PICK n \in 0 .. MaxCodes : message.codes \in [1 .. n -> MCMatch]
  BY <1>1
<1>3. n \in Nat /\ n <= MaxCodes
  BY <1>2, MessagesConstants
<1> QED BY <1>2, <1>3, MessagesConstants DEF Messages!Content

(* Claims lists each code of the message once. *)
LEMMA ClaimsRight ==
    ASSUME NEW message \in Messages!Message
    PROVE  LET claims == Messages!Claims(message)
               m == Messages!Content(message)
           IN  /\ Len(claims) \in 0 .. MaxCodes /\ DOMAIN claims = 1 .. Len(claims)
               /\ claims = <<>> \/ 1 \in 1 .. Len(claims)
               /\ \A i, k \in 1 .. Len(claims) : claims[i] = claims[k] => i = k
               /\ \A i \in DOMAIN m : \E k \in 1 .. Len(claims) : claims[k] = m[i].body
<1> DEFINE m == Messages!Content(message)
           F == Messages!Firsts(m)
           rank(i) == Cardinality({j \in F : j <= i})
           c == Cardinality(F)
           mRank(i) == Messages!Cardinality({j \in F : j <= i})
           position(k) == CHOOSE i \in F : mRank(i) = k
           claims == Messages!Claims(message)
<1>1. PICK n \in Nat : n = Len(m) /\ n <= MaxCodes /\ DOMAIN m = 1 .. n
  BY ContentIsSequence
<1>2. F \in SUBSET (1 .. n)
  BY <1>1 DEF Messages!Firsts
<1>3. /\ c \in 0 .. n
      /\ \A i \in F : rank(i) \in 1 .. c
      /\ \A i, k \in F : rank(i) = rank(k) => i = k
      /\ \A r \in 1 .. c : \E i \in F : rank(i) = r
  <2> HIDE DEF F
  <2> QED BY <1>2, RanksFill
<1>4. claims = [k \in 1 .. c |-> m[position(k)].body]
  <2>1. claims = [k \in 1 .. Messages!Cardinality(F) |-> m[position(k)].body]
    BY DEF Messages!Claims
  <2>2. Messages!Cardinality(F) = c
    BY MessagesCardinality
  <2> HIDE DEF claims, position
  <2> QED BY <2>1, <2>2
<1>a. \A i : mRank(i) = rank(i)
  BY MessagesCardinality
<1> HIDE DEF claims
<1>5. \A k \in 1 .. c : position(k) \in F /\ rank(position(k)) = k
  <2> HIDE DEF rank, c, F, mRank
  <2> QED BY <1>3, <1>a
<1>6. \A i, k \in F : m[i].body = m[k].body => i = k
  <2> SUFFICES ASSUME NEW i \in F, NEW k \in F, m[i].body = m[k].body, i < k PROVE FALSE
    <3>1. \A i \in F : i \in Nat
      BY <1>2
    <3>2. \A i, k \in F : i = k \/ i < k \/ k < i
      BY <3>1
    <3> HIDE DEF F, m
    <3> QED BY <3>2
  <2>1. i \in 1 .. k - 1
    BY <1>2
  <2> QED BY <2>1 DEF Messages!Firsts, Messages!CanonicalCode
<1>7. ASSUME NEW i \in 1 .. n PROVE \E k \in F : m[k].body = m[i].body
  <2> DEFINE T == {k \in 1 .. n : m[k].body = m[i].body}
  <2>1. T \in SUBSET Nat /\ i \in T
    OBVIOUS
  <2>2. PICK x \in T : \A y \in T : x <= y
    <3> HIDE DEF T
    <3> QED BY <2>1, LeastNumber
  <2>3. ASSUME NEW k \in 1 .. x - 1 PROVE m[k].body # m[x].body
    <3>1. k \in 1 .. n /\ ~(x <= k)
      BY <1>1
    <3>2. k \notin T
      BY <2>2, <3>1
    <3> QED BY <3>1, <3>2
  <2>4. x \in F
    BY <1>1, <2>3 DEF Messages!Firsts, Messages!CanonicalCode
  <2> QED BY <2>4
<1> HIDE DEF rank, mRank, c, F, m, position
<1>8. /\ DOMAIN claims = 1 .. c /\ Len(claims) = c
      /\ \A k \in 1 .. c : claims[k] = m[position(k)].body
  <2>1. c \in Nat
    BY <1>3
  <2> QED BY <1>4, <2>1
<1>9. \A i, k \in 1 .. c : claims[i] = claims[k] => i = k
  BY <1>5, <1>6, <1>8
<1>10. ASSUME NEW i \in 1 .. n PROVE \E k \in 1 .. c : claims[k] = m[i].body
  <2>1. PICK x \in F : m[x].body = m[i].body
    BY <1>7
  <2>2. rank(x) \in 1 .. c /\ position(rank(x)) = x
    BY <1>3, <1>5
  <2> QED BY <1>8, <2>1, <2>2
<1>11. c \in 0 .. MaxCodes
  BY <1>1, <1>3, MessagesConstants
<1>12. claims = <<>> \/ 1 \in 1 .. c
  <2>1. CASE c = 0
    BY <1>4, <2>1
  <2>2. CASE c # 0
    BY <1>11, <2>2, MessagesConstants
  <2> QED BY <2>1, <2>2
<1> QED BY <1>1, <1>8, <1>9, <1>10, <1>11, <1>12 DEF m, claims

(* Two claims have one request number only if they are one claim. *)
LEMMA RequestsApart ==
    ASSUME NEW u \in Messages!Update, NEW v \in Messages!Update,
           NEW n \in 0 .. MaxCodes, NEW m \in 0 .. MaxCodes,
           NEW i \in 1 .. n, NEW k \in 1 .. m,
           u = v => n = m,
           Messages!RequestId(u, n, i) = Messages!RequestId(v, m, k)
    PROVE  u = v /\ i = k
<1> DEFINE F == Messages!Factor
<1>1. /\ F \in Nat /\ u \in Nat /\ v \in Nat /\ FirstUpdate \in Nat
      /\ i \in Nat /\ k \in Nat /\ i > 0 /\ k > 0 /\ i < F /\ k < F
      /\ FirstUpdate <= u /\ FirstUpdate <= v /\ u <= LastUpdate /\ v <= LastUpdate
      /\ LastUpdate <= FirstUpdate * F /\ LastUpdate \in Nat
      /\ n \in Nat /\ m \in Nat /\ i <= n /\ k <= m
  BY MessagesConstants
<1> HIDE DEF F
<1>2. Messages!RequestId(u, n, i) = IF n = 1 THEN u ELSE u * F + i
  BY DEF Messages!RequestId, F
<1>3. Messages!RequestId(v, m, k) = IF m = 1 THEN v ELSE v * F + k
  BY DEF Messages!RequestId, F
<1>b. (IF n = 1 THEN u ELSE u * F + i) = (IF m = 1 THEN v ELSE v * F + k)
  BY <1>2, <1>3
<1>4. ASSUME NEW a \in Nat, NEW b \in Nat, a < b PROVE a * F + F <= b * F
  <2>1. b - a - 1 \in Nat
    BY <1>4
  <2>2. (b - a - 1) * F \in Nat /\ b * F = a * F + F + (b - a - 1) * F
    BY <1>1, <2>1
  <2> QED BY <1>1, <2>2
<1>5. ASSUME NEW a \in Nat, FirstUpdate <= a PROVE LastUpdate <= a * F
  <2>1. a - FirstUpdate \in Nat
    BY <1>1, <1>5
  <2>2. (a - FirstUpdate) * F \in Nat /\ a * F = FirstUpdate * F + (a - FirstUpdate) * F
    BY <1>1, <2>1
  <2> QED BY <1>1, <2>2
<1>6. CASE n = 1 /\ m = 1
  <2>1. u = v
    BY <1>b, <1>6
  <2> QED BY <1>1, <1>6, <2>1
<1>7. CASE n = 1 /\ m # 1
  <2>1. u = v * F + k /\ LastUpdate <= v * F /\ v * F \in Nat
    BY <1>1, <1>b, <1>5, <1>7
  <2> QED BY <1>1, <2>1
<1>8. CASE n # 1 /\ m = 1
  <2>1. v = u * F + i /\ LastUpdate <= u * F /\ u * F \in Nat
    BY <1>1, <1>b, <1>5, <1>8
  <2> QED BY <1>1, <2>1
<1>9. CASE n # 1 /\ m # 1
  <2>1. u * F + i = v * F + k /\ u * F \in Nat /\ v * F \in Nat
    BY <1>1, <1>b, <1>9
  <2>2. ~(u < v) /\ ~(v < u)
    BY <1>1, <1>4, <2>1
  <2>3. u = v
    BY <1>1, <2>2
  <2> QED BY <1>1, <2>1, <2>3
<1> QED BY <1>6, <1>7, <1>8, <1>9

(* The parts of MessagesInv. *)
HandlersRight == \A h \in Handler : Messages!HandlerRight(claimer[h])

NumbersRight == \A id \in DOMAIN deliveries : Messages!NumberRight(id)

FinishedRight ==
    \A u \in finished :
        u \in DOMAIN sent /\ \A k \in DOMAIN Messages!Claims(sent[u]) : Messages!Made(u, k)

LEMMA MessagesParts ==
    Messages!MessagesInv
        <=> Messages!TypeOK /\ Messages!ServedOnce /\ HandlersRight /\ NumbersRight /\ FinishedRight
BY DEF Messages!MessagesInv, HandlersRight, NumbersRight, FinishedRight

(* Messages, deliveries and failures are never taken back. *)
Kept ==
    /\ \A u \in DOMAIN sent : u \in DOMAIN sent' /\ sent'[u] = sent[u]
    /\ \A id \in DOMAIN deliveries : id \in DOMAIN deliveries' /\ deliveries'[id] = deliveries[id]
    /\ failed \subseteq failed'

LEMMA MadeStays ==
    ASSUME Kept, NEW u \in DOMAIN sent, NEW k, Messages!Made(u, k)
    PROVE  Messages!Made(u, k)'
<1>1. Messages!Claims(sent'[u]) = Messages!Claims(sent[u])
  BY DEF Kept
<1>2. ASSUME NEW c, Messages!Served(u, c) PROVE Messages!Served(u, c)'
  BY <1>2 DEF Kept, Messages!Served
<1>3. ASSUME NEW c, <<u, c>> \in failed PROVE <<u, c>> \in failed'
  BY <1>3 DEF Kept
<1>4. PICK c : c = Messages!Claims(sent[u])[k]
  OBVIOUS
<1>5. c \in MCKnown => <<u, c>> \in failed \/ Messages!Served(u, c)
  BY <1>4 DEF Messages!Made
<1>6. c \in MCKnown => <<u, c>> \in failed' \/ Messages!Served(u, c)'
  BY <1>2, <1>3, <1>5
<1>7. c = Messages!Claims(sent'[u])[k]
  BY <1>1, <1>4
<1> QED BY <1>6, <1>7 DEF Messages!Made, Messages!Served

LEMMA HandlerStays ==
    ASSUME Kept, NEW s, Messages!HandlerRight(s)
    PROVE  Messages!HandlerRight(s)'
<1> SUFFICES ASSUME s # Messages!Idle
    PROVE  /\ s.update \in DOMAIN sent'
           /\ s.next \in DOMAIN Messages!Claims(sent'[s.update])
           /\ \A k \in 1 .. s.next - 1 : Messages!Made(s.update, k)'
  BY DEF Messages!HandlerRight, Messages!Made, Messages!Served, Messages!Idle, Messages!NoUpdate
<1>1. /\ s.update \in DOMAIN sent
      /\ s.next \in DOMAIN Messages!Claims(sent[s.update])
      /\ \A k \in 1 .. s.next - 1 : Messages!Made(s.update, k)
  BY DEF Messages!HandlerRight
<1>2. s.update \in DOMAIN sent' /\ sent'[s.update] = sent[s.update]
  BY <1>1 DEF Kept
<1>3. \A k \in 1 .. s.next - 1 : Messages!Made(s.update, k)'
  BY <1>1, MadeStays
<1> QED BY <1>1, <1>2, <1>3

LEMMA HandlersMove ==
    ASSUME Kept, HandlersRight, Messages!TypeOK,
           NEW h \in Handler, NEW t, claimer' = [claimer EXCEPT ![h] = t],
           Messages!HandlerRight(t)'
    PROVE  HandlersRight'
<1> SUFFICES ASSUME NEW x \in Handler PROVE Messages!HandlerRight(claimer[x])'
  BY DEF HandlersRight
<1>1. PICK s : s = claimer'[x]
  OBVIOUS
<1>2. claimer \in [Handler -> Messages!HandlerState]
  BY DEF Messages!TypeOK
<1>3. Messages!HandlerRight(s)'
  <2>1. CASE x = h
    BY <1>1, <1>2, <2>1
  <2>2. CASE x # h
    <3>1. s = claimer[x]
      BY <1>1, <1>2, <2>2
    <3>2. Messages!HandlerRight(s)
      BY <3>1 DEF HandlersRight
    <3> QED BY <3>2, HandlerStays
  <2> QED BY <2>1, <2>2
<1> QED BY <1>1, <1>3 DEF Messages!HandlerRight

LEMMA FinishedStays ==
    ASSUME Kept, FinishedRight,
           \A u \in finished' \ finished :
               /\ u \in DOMAIN sent'
               /\ \A k \in DOMAIN Messages!Claims(sent'[u]) : Messages!Made(u, k)'
    PROVE  FinishedRight'
<1> SUFFICES ASSUME NEW u \in finished'
    PROVE  /\ u \in DOMAIN sent'
           /\ \A k \in DOMAIN Messages!Claims(sent'[u]) : Messages!Made(u, k)'
  BY DEF FinishedRight, Messages!Made, Messages!Served
<1>1. CASE u \in finished
  <2>1. u \in DOMAIN sent /\ \A k \in DOMAIN Messages!Claims(sent[u]) : Messages!Made(u, k)
    BY <1>1 DEF FinishedRight
  <2>2. u \in DOMAIN sent' /\ sent'[u] = sent[u]
    BY <2>1 DEF Kept
  <2> QED BY <2>1, <2>2, MadeStays
<1>2. CASE u \notin finished
  BY <1>2
<1> QED BY <1>1, <1>2

LEMMA NumbersStay ==
    ASSUME Kept, NumbersRight, deliveries' = deliveries
    PROVE  NumbersRight'
<1> SUFFICES ASSUME NEW id \in DOMAIN deliveries PROVE Messages!NumberRight(id)'
  BY DEF NumbersRight
<1>1. Messages!NumberRight(id)
  BY DEF NumbersRight
<1>2. PICK u : u = deliveries[id].update
  OBVIOUS
<1>3. u \in DOMAIN sent' /\ sent'[u] = sent[u]
  BY <1>1, <1>2 DEF Messages!NumberRight, Kept
<1> QED BY <1>1, <1>2, <1>3 DEF Messages!NumberRight

LEMMA MessagesInitially ==
    Messages!Init => Messages!MessagesInv
<1> SUFFICES ASSUME Messages!Init PROVE Messages!MessagesInv
  OBVIOUS
<1>1. Messages!Idle \in Messages!HandlerState
  BY DEF Messages!Idle, Messages!HandlerState
<1>2. DOMAIN sent = {} /\ DOMAIN deliveries = {}
  BY DEF Messages!Init
<1>3. Messages!TypeOK
  BY <1>1, <1>2, MessagesConstants DEF Messages!Init, Messages!TypeOK
<1>4. \A h \in Handler : claimer[h] = Messages!Idle
  BY DEF Messages!Init
<1>5. HandlersRight
  BY <1>4 DEF HandlersRight, Messages!HandlerRight
<1> QED
  BY <1>2, <1>3, <1>5, MessagesParts
     DEF Messages!Init, Messages!ServedOnce, NumbersRight, FinishedRight

(* The claims of a message that is on record. *)
LEMMA SentClaims ==
    ASSUME Messages!TypeOK, NEW u \in DOMAIN sent
    PROVE  LET claims == Messages!Claims(sent[u])
           IN  /\ u \in Messages!Update
               /\ Len(claims) \in 0 .. MaxCodes /\ DOMAIN claims = 1 .. Len(claims)
               /\ claims = <<>> \/ 1 \in 1 .. Len(claims)
               /\ \A i, k \in 1 .. Len(claims) : claims[i] = claims[k] => i = k
<1>1. sent[u] \in Messages!Message /\ u \in Messages!Update
  BY DEF Messages!TypeOK
<1> QED BY <1>1, ClaimsRight

LEMMA MessageSent ==
    Messages!MessagesInv /\ Messages!Send => Messages!MessagesInv'
<1> SUFFICES ASSUME Messages!MessagesInv, Messages!Send PROVE Messages!MessagesInv'
  OBVIOUS
<1>1. Messages!TypeOK /\ Messages!ServedOnce /\ HandlersRight /\ NumbersRight /\ FinishedRight
  BY MessagesParts
<1>2. PICK u \in Messages!Update \ DOMAIN sent, message \in Messages!Message :
          sent' = [v \in DOMAIN sent \cup {u} |-> IF v = u THEN message ELSE sent[v]]
  BY DEF Messages!Send
<1>3. /\ claimer' = claimer /\ deliveries' = deliveries /\ failed' = failed
      /\ finished' = finished /\ claimFaults' = claimFaults
  BY DEF Messages!Send
<1>4. Kept
  BY <1>2, <1>3 DEF Kept
<1>5. \A v \in DOMAIN sent' : v \in Messages!Update /\ sent'[v] \in Messages!Message
  BY <1>1, <1>2 DEF Messages!TypeOK
<1>6. Messages!TypeOK'
  BY <1>1, <1>3, <1>5 DEF Messages!TypeOK
<1>7. HandlersRight'
  <2> SUFFICES ASSUME NEW h \in Handler PROVE Messages!HandlerRight(claimer[h])'
    BY DEF HandlersRight
  <2>1. PICK s : s = claimer[h]
    OBVIOUS
  <2>2. Messages!HandlerRight(s)'
    BY <1>1, <1>4, <2>1, HandlerStays DEF HandlersRight
  <2> QED BY <1>3, <2>1, <2>2 DEF Messages!HandlerRight
<1>8. FinishedRight'
  BY <1>1, <1>3, <1>4, FinishedStays
<1>9. NumbersRight'
  BY <1>1, <1>3, <1>4, NumbersStay
<1>10. Messages!ServedOnce'
  BY <1>1, <1>3 DEF Messages!ServedOnce
<1> QED BY <1>6, <1>7, <1>8, <1>9, <1>10, MessagesParts, PTL

LEMMA MessageReceived ==
    ASSUME Messages!MessagesInv, NEW h \in Handler, Messages!Receive(h)
    PROVE  Messages!MessagesInv'
<1>1. Messages!TypeOK /\ Messages!ServedOnce /\ HandlersRight /\ NumbersRight /\ FinishedRight
  BY MessagesParts
<1>2. /\ sent' = sent /\ deliveries' = deliveries /\ failed' = failed
      /\ claimFaults' = claimFaults
  BY DEF Messages!Receive
<1>3. Kept
  BY <1>2 DEF Kept
<1>4. PICK u \in DOMAIN sent :
          IF Messages!Claims(sent[u]) = <<>>
          THEN finished' = finished \cup {u} /\ UNCHANGED claimer
          ELSE claimer' = [claimer EXCEPT ![h].update = u] /\ UNCHANGED finished
  BY DEF Messages!Receive
<1>5. claimer \in [Handler -> Messages!HandlerState] /\ claimer[h] = Messages!Idle
  BY <1>1 DEF Messages!TypeOK, Messages!Receive
<1>6. u \in Messages!Update
  BY <1>1, SentClaims
<1>7. /\ claimer' \in [Handler -> Messages!HandlerState] /\ finished' \subseteq Messages!Update
      /\ HandlersRight' /\ FinishedRight'
  <2>1. CASE Messages!Claims(sent[u]) = <<>>
    <3>1. finished' = finished \cup {u} /\ claimer' = claimer
      BY <1>4, <2>1
    <3>2. \A k \in DOMAIN Messages!Claims(sent'[u]) : FALSE
      BY <1>2, <2>1
    <3>3. FinishedRight'
      BY <1>1, <1>2, <1>3, <3>1, <3>2, FinishedStays
    <3>4. claimer' = [claimer EXCEPT ![h] = Messages!Idle]
      BY <1>5, <3>1
    <3>5. Messages!HandlerRight(Messages!Idle)'
      BY DEF Messages!HandlerRight, Messages!Idle, Messages!NoUpdate
    <3>6. HandlersRight'
      BY <1>1, <1>3, <3>4, <3>5, HandlersMove
    <3> QED BY <1>1, <1>5, <1>6, <3>1, <3>3, <3>6 DEF Messages!TypeOK
  <2>2. CASE Messages!Claims(sent[u]) # <<>>
    <3> DEFINE t == [update |-> u, next |-> 1]
    <3>1. claimer' = [claimer EXCEPT ![h] = t] /\ finished' = finished
      BY <1>4, <1>5, <2>2 DEF Messages!Idle
    <3>2. t \in Messages!HandlerState
      BY <1>6 DEF Messages!HandlerState
    <3>3. 1 \in DOMAIN Messages!Claims(sent[u])
      BY <1>1, <2>2, SentClaims
    <3>4. Messages!HandlerRight(t)'
      BY <1>2, <3>3 DEF Messages!HandlerRight
    <3> HIDE DEF t
    <3>5. HandlersRight'
      BY <1>1, <1>3, <3>1, <3>4, HandlersMove
    <3>6. FinishedRight'
      BY <1>1, <1>3, <3>1, FinishedStays
    <3> QED BY <1>1, <1>5, <3>1, <3>2, <3>5, <3>6 DEF Messages!TypeOK
  <2> QED BY <2>1, <2>2
<1>8. Messages!TypeOK'
  BY <1>1, <1>2, <1>7 DEF Messages!TypeOK
<1>9. NumbersRight'
  BY <1>1, <1>2, <1>3, NumbersStay
<1>10. Messages!ServedOnce'
  BY <1>1, <1>2 DEF Messages!ServedOnce
<1> QED BY <1>7, <1>8, <1>9, <1>10, MessagesParts, PTL

(* A handler whose claim has been made goes on to the next, or is done     *)
(* with its message.                                                       *)
LEMMA HandlerAdvances ==
    ASSUME Messages!TypeOK, HandlersRight, FinishedRight, Kept, sent' = sent,
           NEW h \in Handler, claimer[h] # Messages!Idle, Messages!Advance(h),
           \A u \in DOMAIN sent, k \in Nat :
               u = claimer[h].update /\ k = claimer[h].next => Messages!Made(u, k)'
    PROVE  /\ claimer' \in [Handler -> Messages!HandlerState]
           /\ finished' \subseteq Messages!Update
           /\ HandlersRight' /\ FinishedRight'
<1>1. claimer \in [Handler -> Messages!HandlerState] /\ finished \subseteq Messages!Update
  BY DEF Messages!TypeOK
<1>2. PICK s \in Messages!HandlerState : s = claimer[h]
  BY <1>1
<1>3. PICK u, k : u = s.update /\ k = s.next
  OBVIOUS
<1>4. Messages!HandlerRight(s) /\ s # Messages!Idle
  BY <1>2 DEF HandlersRight
<1>5. /\ u \in DOMAIN sent
      /\ k \in DOMAIN Messages!Claims(sent[u])
      /\ \A j \in 1 .. k - 1 : Messages!Made(u, j)
  BY <1>3, <1>4 DEF Messages!HandlerRight
<1>6. PICK n \in Nat :
          /\ n = Len(Messages!Claims(sent[u])) /\ DOMAIN Messages!Claims(sent[u]) = 1 .. n
          /\ u \in Messages!Update
  BY <1>5, SentClaims, MessagesConstants
<1>7. k \in Nat /\ k \in 1 .. n /\ s = [update |-> u, next |-> k]
  BY <1>2, <1>3, <1>5, <1>6 DEF Messages!HandlerState
<1>8. Messages!Made(u, k)'
  BY <1>2, <1>3, <1>5, <1>7
<1>9. \A j \in 1 .. k - 1 : Messages!Made(u, j)'
  BY <1>5, MadeStays
<1>10. \A j \in 1 .. k : j = k \/ j \in 1 .. k - 1
  BY <1>7
<1>11. \A j \in 1 .. k : Messages!Made(u, j)'
  BY <1>8, <1>9, <1>10
<1>12. CASE k < n
  <2> DEFINE t == [update |-> u, next |-> k + 1]
  <2>1. claimer' = [claimer EXCEPT ![h].next = @ + 1] /\ finished' = finished
    BY <1>2, <1>3, <1>6, <1>12 DEF Messages!Advance
  <2>2. claimer' = [claimer EXCEPT ![h] = t]
    <3>1. [s EXCEPT !.next = @ + 1] = t
      BY <1>7
    <3>2. claimer' = [claimer EXCEPT ![h] = [claimer[h] EXCEPT !.next = @ + 1]]
      BY <2>1
    <3> HIDE DEF t
    <3> QED BY <1>2, <3>1, <3>2
  <2>3. t \in Messages!HandlerState
    BY <1>6, <1>7 DEF Messages!HandlerState
  <2>4. t.update = u /\ t.next = k + 1 /\ t.next - 1 = k /\ k + 1 \in 1 .. n
    BY <1>6, <1>7, <1>12
  <2> HIDE DEF t
  <2>5. Messages!HandlerRight(t)'
    BY <1>5, <1>6, <1>11, <2>4 DEF Messages!HandlerRight
  <2>6. HandlersRight'
    BY <2>2, <2>5, HandlersMove
  <2>7. FinishedRight'
    BY <2>1, FinishedStays
  <2> QED BY <1>1, <2>1, <2>2, <2>3, <2>6, <2>7
<1>13. CASE ~(k < n)
  <2>1. claimer' = [claimer EXCEPT ![h] = Messages!Idle] /\ finished' = finished \cup {u}
    BY <1>2, <1>3, <1>6, <1>13 DEF Messages!Advance
  <2>2. Messages!Idle \in Messages!HandlerState
    BY DEF Messages!Idle, Messages!HandlerState
  <2>3. Messages!HandlerRight(Messages!Idle)'
    BY DEF Messages!HandlerRight, Messages!Idle, Messages!NoUpdate
  <2>4. HandlersRight'
    BY <2>1, <2>3, HandlersMove
  <2>5. k = n
    BY <1>7, <1>13
  <2>6. \A j \in DOMAIN Messages!Claims(sent'[u]) : Messages!Made(u, j)'
    BY <1>6, <1>11, <2>5
  <2>7. FinishedRight'
    BY <1>5, <2>1, <2>6, FinishedStays
  <2> QED BY <1>1, <1>6, <2>1, <2>2, <2>4, <2>7
<1> QED BY <1>12, <1>13

LEMMA ClaimMade ==
    ASSUME Messages!MessagesInv, NEW h \in Handler, Messages!Claim(h)
    PROVE  Messages!MessagesInv'
<1>1. Messages!TypeOK /\ Messages!ServedOnce /\ HandlersRight /\ NumbersRight /\ FinishedRight
  BY MessagesParts
<1>2. claimer \in [Handler -> Messages!HandlerState] /\ claimer[h] # Messages!Idle
  BY <1>1 DEF Messages!TypeOK, Messages!Claim
<1>3. /\ sent' = sent /\ failed' = failed /\ claimFaults' = claimFaults
      /\ Messages!Advance(h)
  BY DEF Messages!Claim
<1>4. PICK u, k : u = claimer[h].update /\ k = claimer[h].next
  OBVIOUS
<1>5. u \in DOMAIN sent /\ k \in DOMAIN Messages!Claims(sent[u])
  BY <1>1, <1>2, <1>4 DEF HandlersRight, Messages!HandlerRight
<1>6. PICK n \in 0 .. MaxCodes :
          /\ n = Len(Messages!Claims(sent[u])) /\ k \in 1 .. n /\ u \in Messages!Update
  BY <1>1, <1>5, SentClaims
<1>7. PICK c : c = Messages!Claims(sent[u])[k]
  OBVIOUS
<1>8. PICK r : r = Messages!RequestId(u, n, k)
  OBVIOUS
<1>9. /\ c \in MCKnown
      /\ deliveries' = [id \in DOMAIN deliveries \cup {r} |->
                            IF id \in DOMAIN deliveries THEN deliveries[id]
                            ELSE [update |-> u, relay |-> c]]
  BY <1>4, <1>6, <1>7, <1>8
     DEF Messages!Claim, Messages!Current, Messages!RequestOf
<1>10. Kept
  BY <1>3, <1>9 DEF Kept
<1>11. \A id \in DOMAIN deliveries :
           /\ id \in Nat /\ deliveries[id] \in Messages!Delivery
           /\ deliveries'[id] = deliveries[id]
  BY <1>1, <1>9 DEF Messages!TypeOK
<1>12. ASSUME NEW v \in DOMAIN sent, NEW j \in DOMAIN Messages!Claims(sent[v]),
              r = Messages!RequestId(v, Len(Messages!Claims(sent[v])), j)
       PROVE  v = u /\ j = k
  <2>1. PICK m \in 0 .. MaxCodes :
            /\ m = Len(Messages!Claims(sent[v])) /\ j \in 1 .. m /\ v \in Messages!Update
    BY <1>1, SentClaims
  <2>2. u = v => n = m
    BY <1>6, <2>1
  <2>3. Messages!RequestId(u, n, k) = Messages!RequestId(v, m, j)
    BY <1>8, <1>12, <2>1
  <2> QED BY <1>6, <2>1, <2>2, <2>3, RequestsApart
<1>13. r \in DOMAIN deliveries => deliveries[r] = [update |-> u, relay |-> c]
  <2> SUFFICES ASSUME r \in DOMAIN deliveries PROVE deliveries[r] = [update |-> u, relay |-> c]
    OBVIOUS
  <2>1. PICK v : v = deliveries[r].update
    OBVIOUS
  <2>2. PICK j \in DOMAIN Messages!Claims(sent[v]) :
            /\ v \in DOMAIN sent
            /\ Messages!Claims(sent[v])[j] = deliveries[r].relay
            /\ r = Messages!RequestId(v, Len(Messages!Claims(sent[v])), j)
    BY <1>1, <2>1 DEF NumbersRight, Messages!NumberRight
  <2>3. v = u /\ j = k
    BY <1>12, <2>2
  <2> QED BY <1>7, <1>11, <2>1, <2>2, <2>3 DEF Messages!Delivery
<1>14. deliveries'[r] = [update |-> u, relay |-> c] /\ r \in DOMAIN deliveries'
  BY <1>9, <1>13
<1>15. Messages!Served(u, c)'
  BY <1>14 DEF Messages!Served
<1>16. Messages!Made(u, k)'
  BY <1>3, <1>7, <1>15 DEF Messages!Made, Messages!Served
<1>17. /\ claimer' \in [Handler -> Messages!HandlerState]
       /\ finished' \subseteq Messages!Update
       /\ HandlersRight' /\ FinishedRight'
  BY <1>1, <1>2, <1>3, <1>4, <1>10, <1>16, HandlerAdvances
<1>18. r \in Nat /\ [update |-> u, relay |-> c] \in Messages!Delivery
  <2>1. /\ u \in Nat /\ k \in Nat /\ Messages!Factor \in Nat
    BY <1>6, MessagesConstants
  <2>2. u * Messages!Factor + k \in Nat
    BY <2>1
  <2> QED BY <1>6, <1>8, <1>9, <2>1, <2>2 DEF Messages!RequestId, Messages!Delivery
<1>19. Messages!TypeOK'
  <2>1. \A id \in DOMAIN deliveries' : id \in Nat /\ deliveries'[id] \in Messages!Delivery
    BY <1>9, <1>11, <1>14, <1>18
  <2> QED BY <1>1, <1>3, <1>17, <2>1 DEF Messages!TypeOK
<1>20. NumbersRight'
  <2> SUFFICES ASSUME NEW id \in DOMAIN deliveries' PROVE Messages!NumberRight(id)'
    BY DEF NumbersRight
  <2>1. CASE id = r
    <3>1. deliveries'[id].update = u /\ deliveries'[id].relay = c
      BY <1>14, <2>1
    <3> QED BY <1>3, <1>5, <1>6, <1>7, <1>8, <2>1, <3>1 DEF Messages!NumberRight
  <2>2. CASE id # r
    <3>1. id \in DOMAIN deliveries /\ deliveries'[id] = deliveries[id]
      BY <1>9, <2>2
    <3>2. Messages!NumberRight(id)
      BY <1>1, <3>1 DEF NumbersRight
    <3> QED BY <1>3, <3>1, <3>2 DEF Messages!NumberRight
  <2> QED BY <2>1, <2>2
<1>21. Messages!ServedOnce'
  <2>1. ASSUME NEW id \in DOMAIN deliveries, deliveries[id] = [update |-> u, relay |-> c]
        PROVE  id = r
    <3>1. deliveries[id].update = u /\ deliveries[id].relay = c
      BY <2>1
    <3>2. PICK j \in DOMAIN Messages!Claims(sent[u]) :
              /\ Messages!Claims(sent[u])[j] = c
              /\ id = Messages!RequestId(u, Len(Messages!Claims(sent[u])), j)
      BY <1>1, <3>1 DEF NumbersRight, Messages!NumberRight
    <3>3. j = k
      BY <1>1, <1>5, <1>7, <3>2, SentClaims
    <3> QED BY <1>6, <1>8, <3>2, <3>3
  <2> SUFFICES ASSUME NEW i \in DOMAIN deliveries', NEW j \in DOMAIN deliveries',
                      deliveries'[i] = deliveries'[j]
      PROVE  i = j
    BY DEF Messages!ServedOnce
  <2>2. \A id \in DOMAIN deliveries' : id = r \/ id \in DOMAIN deliveries
    BY <1>9
  <2>3. CASE i \in DOMAIN deliveries /\ j \in DOMAIN deliveries
    BY <1>1, <1>11, <2>3 DEF Messages!ServedOnce
  <2>4. CASE i = r /\ j \in DOMAIN deliveries
    BY <1>11, <1>14, <2>1, <2>4
  <2>5. CASE j = r /\ i \in DOMAIN deliveries
    BY <1>11, <1>14, <2>1, <2>5
  <2> QED BY <2>2, <2>3, <2>4, <2>5
<1> QED BY <1>17, <1>19, <1>20, <1>21, MessagesParts, PTL

LEMMA ClaimNotMade ==
    ASSUME Messages!MessagesInv, NEW h \in Handler,
           Messages!ClaimUnknown(h) \/ Messages!ClaimFails(h)
    PROVE  Messages!MessagesInv'
<1>1. Messages!TypeOK /\ Messages!ServedOnce /\ HandlersRight /\ NumbersRight /\ FinishedRight
  BY MessagesParts
<1>2. claimer \in [Handler -> Messages!HandlerState] /\ claimer[h] # Messages!Idle
  BY <1>1 DEF Messages!TypeOK, Messages!ClaimUnknown, Messages!ClaimFails
<1>3. sent' = sent /\ deliveries' = deliveries /\ Messages!Advance(h)
  BY DEF Messages!ClaimUnknown, Messages!ClaimFails
<1>4. PICK u, k : u = claimer[h].update /\ k = claimer[h].next
  OBVIOUS
<1>5. PICK c : c = Messages!Claims(sent[u])[k]
  OBVIOUS
<1>6. u \in DOMAIN sent /\ u \in Messages!Update
  <2>1. u \in DOMAIN sent
    BY <1>1, <1>2, <1>4 DEF HandlersRight, Messages!HandlerRight
  <2> QED BY <1>1, <2>1, SentClaims
<1>7. /\ failed \subseteq failed' /\ failed' \subseteq Messages!Update \X MCKnown
      /\ claimFaults' \in 0 .. MaxFaults
      /\ c \in MCKnown => <<u, c>> \in failed'
  <2>1. failed \subseteq Messages!Update \X MCKnown /\ claimFaults \in 0 .. MaxFaults
    BY <1>1 DEF Messages!TypeOK
  <2>2. CASE Messages!ClaimUnknown(h)
    BY <1>4, <1>5, <2>1, <2>2 DEF Messages!ClaimUnknown, Messages!Current
  <2>3. CASE Messages!ClaimFails(h)
    <3>1. /\ c \in MCKnown /\ failed' = failed \cup {<<u, c>>}
          /\ claimFaults < MaxFaults /\ claimFaults' = claimFaults + 1
      BY <1>4, <1>5, <2>3 DEF Messages!ClaimFails, Messages!Current
    <3>2. claimFaults' \in 0 .. MaxFaults
      BY <2>1, <3>1, MessagesConstants
    <3> QED BY <1>6, <2>1, <3>1, <3>2
  <2> QED BY <2>2, <2>3
<1>8. Kept
  BY <1>3, <1>7 DEF Kept
<1>9. Messages!Made(u, k)'
  BY <1>3, <1>5, <1>7 DEF Messages!Made, Messages!Served
<1>10. /\ claimer' \in [Handler -> Messages!HandlerState]
       /\ finished' \subseteq Messages!Update
       /\ HandlersRight' /\ FinishedRight'
  BY <1>1, <1>2, <1>3, <1>4, <1>8, <1>9, HandlerAdvances
<1>11. Messages!TypeOK'
  BY <1>1, <1>3, <1>7, <1>10 DEF Messages!TypeOK
<1>12. NumbersRight'
  BY <1>1, <1>3, <1>8, NumbersStay
<1>13. Messages!ServedOnce'
  BY <1>1, <1>3 DEF Messages!ServedOnce
<1> QED BY <1>10, <1>11, <1>12, <1>13, MessagesParts, PTL

LEMMA ProcessStops ==
    ASSUME Messages!MessagesInv, Messages!Crash
    PROVE  Messages!MessagesInv'
<1>1. Messages!TypeOK /\ Messages!ServedOnce /\ HandlersRight /\ NumbersRight /\ FinishedRight
  BY MessagesParts
<1>2. /\ sent' = sent /\ deliveries' = deliveries /\ failed' = failed /\ finished' = finished
      /\ claimFaults < MaxFaults /\ claimFaults' = claimFaults + 1
      /\ claimer' = [h \in Handler |-> Messages!Idle]
  BY DEF Messages!Crash
<1>3. Kept
  BY <1>2 DEF Kept
<1>4. claimFaults' \in 0 .. MaxFaults
  <2>1. claimFaults \in 0 .. MaxFaults
    BY <1>1 DEF Messages!TypeOK
  <2> QED BY <1>2, <2>1, MessagesConstants
<1>5. claimer' \in [Handler -> Messages!HandlerState]
  BY <1>2 DEF Messages!Idle, Messages!HandlerState
<1>6. Messages!TypeOK'
  BY <1>1, <1>2, <1>4, <1>5 DEF Messages!TypeOK
<1>7. \A h \in Handler : claimer'[h] = Messages!Idle
  BY <1>2
<1>8. HandlersRight'
  BY <1>7 DEF HandlersRight, Messages!HandlerRight, Messages!Idle, Messages!NoUpdate
<1>9. FinishedRight'
  BY <1>1, <1>2, <1>3, FinishedStays
<1>10. NumbersRight'
  BY <1>1, <1>2, <1>3, NumbersStay
<1>11. Messages!ServedOnce'
  BY <1>1, <1>2 DEF Messages!ServedOnce
<1> QED BY <1>6, <1>8, <1>9, <1>10, <1>11, MessagesParts, PTL

LEMMA MessagesSteps ==
    ASSUME Messages!MessagesInv, Messages!Next \/ UNCHANGED messageVars
    PROVE  Messages!MessagesInv'
<1>1. CASE Messages!Send
  BY <1>1, MessageSent
<1>2. ASSUME NEW h \in Handler, Messages!Receive(h) PROVE Messages!MessagesInv'
  BY <1>2, MessageReceived
<1>3. ASSUME NEW h \in Handler, Messages!Claim(h) PROVE Messages!MessagesInv'
  BY <1>3, ClaimMade
<1>4. ASSUME NEW h \in Handler, Messages!ClaimUnknown(h) \/ Messages!ClaimFails(h)
      PROVE  Messages!MessagesInv'
  BY <1>4, ClaimNotMade
<1>5. CASE Messages!Crash
  BY <1>5, ProcessStops
<1>6. CASE UNCHANGED messageVars
  <2>1. /\ sent' = sent /\ claimer' = claimer /\ deliveries' = deliveries /\ failed' = failed
        /\ finished' = finished /\ claimFaults' = claimFaults
    BY <1>6 DEF messageVars
  <2>2. Messages!TypeOK /\ Messages!ServedOnce /\ HandlersRight /\ NumbersRight /\ FinishedRight
    BY MessagesParts
  <2>3. Kept
    BY <2>1 DEF Kept
  <2>4. Messages!TypeOK' /\ Messages!ServedOnce'
    BY <2>1, <2>2 DEF Messages!TypeOK, Messages!ServedOnce
  <2>5. HandlersRight'
    BY <2>1, <2>2
       DEF HandlersRight, Messages!HandlerRight, Messages!Made, Messages!Served
  <2>6. NumbersRight' /\ FinishedRight'
    BY <2>1, <2>2, <2>3, NumbersStay, FinishedStays
  <2> QED BY <2>4, <2>5, <2>6, MessagesParts, PTL
<1> QED BY <1>1, <1>2, <1>3, <1>4, <1>5, <1>6 DEF Messages!Next

(* What is finished has every claim made, and the claims cover the codes.  *)
LEMMA ClaimsCoverCodes ==
    Messages!MessagesInv => Messages!EveryCodeServed
<1> SUFFICES ASSUME Messages!MessagesInv,
                    NEW u \in finished, NEW c \in Messages!KnownIn(sent[u])
    PROVE  <<u, c>> \in failed \/ Messages!Served(u, c)
  BY DEF Messages!EveryCodeServed
<1>1. Messages!TypeOK /\ FinishedRight
  BY MessagesParts
<1>2. u \in DOMAIN sent /\ \A k \in DOMAIN Messages!Claims(sent[u]) : Messages!Made(u, k)
  BY <1>1 DEF FinishedRight
<1>3. PICK message \in Messages!Message : message = sent[u]
  BY <1>1, <1>2 DEF Messages!TypeOK
<1>4. PICK i \in DOMAIN Messages!Content(message) :
          c \in MCKnown /\ Messages!Content(message)[i].body = c
  BY <1>3 DEF Messages!KnownIn
<1>5. PICK k \in DOMAIN Messages!Claims(message) : Messages!Claims(message)[k] = c
  BY <1>4, ClaimsRight
<1>6. Messages!Made(u, k) /\ Messages!Claims(sent[u])[k] = c
  BY <1>2, <1>3, <1>5
<1> QED BY <1>4, <1>6 DEF Messages!Made

-----------------------------------------------------------------------------
(* The theorems.                                                           *)

(* Every code of a known relay in a message that was gone through has a    *)
(* delivery of its own, if its claim did not fail, and no claim has two:   *)
(* the request numbers of the claims of all messages are distinct          *)
(* (extract.go:98-123, 171).                                               *)
THEOREM CodesAlwaysServed == ServingSpec => []CodesServed
<1>1. ServingInit => CodesServed
  BY MessagesInitially, ClaimsCoverCodes DEF ServingInit, CodesServed
<1>2. CodesServed /\ [ServingNext]_servingVars => CodesServed'
  <2> SUFFICES ASSUME CodesServed, [ServingNext]_servingVars, active' = "messages"
      PROVE  Messages!MessagesInv' /\ Messages!EveryCodeServed'
    BY DEF CodesServed
  <2>1. active = "messages" /\ (Messages!Next \/ UNCHANGED messageVars)
    BY ServingSteps
  <2>2. Messages!MessagesInv'
    BY <2>1, MessagesSteps DEF CodesServed
  <2> QED BY <2>2, ClaimsCoverCodes, PTL
<1> QED BY <1>1, <1>2, PTL DEF ServingSpec

(* The pages a claim is served in hold every file of the relay once and in *)
(* order, within their size, and keep an album that fits together; the     *)
(* relay is refused only when an album is scattered (paging.go:25-73).     *)
THEOREM PagesAlwaysRight == ServingSpec => []PagesRight
<1>1. ServingInit => PagesRight
  BY PagerInitially DEF ServingInit, PagesRight
<1>2. PagesRight /\ [ServingNext]_servingVars => PagesRight'
  <2> SUFFICES ASSUME PagesRight, [ServingNext]_servingVars, active' = "pager"
      PROVE  Pager!PagingInv'
    BY DEF PagesRight
  <2>1. active = "pager" /\ (Pager!Next \/ UNCHANGED pagerVars)
    BY ServingSteps
  <2> QED BY <2>1, PagerSteps DEF PagesRight
<1> QED BY <1>1, <1>2, PTL DEF ServingSpec

(* The page the buttons' message shows as sent was sent, to the end and    *)
(* while its relay could be claimed, whatever failed, was pressed twice or *)
(* crashed in between (router.go:558, 631, service.go:925).                *)
THEOREM ShownAlwaysSent == ServingSpec => []ShownWasSent
<1>1. ServingInit => ShownWasSent
  BY NavigatorInitially DEF ServingInit, ShownWasSent
<1>2. ShownWasSent /\ [ServingNext]_servingVars => ShownWasSent'
  <2> SUFFICES ASSUME ShownWasSent, [ServingNext]_servingVars, active' = "navigator"
      PROVE  Navigator!NavigatorInv'
    BY DEF ShownWasSent
  <2>1. active = "navigator" /\ (Navigator!Next \/ UNCHANGED navigatorVars)
    BY ServingSteps
  <2> QED BY <2>1, NavigatorSteps DEF ShownWasSent
<1> QED BY <1>1, <1>2, PTL DEF ServingSpec

(* The buttons never lead out of range: the answer `page out of range' is  *)
(* given only for a relay that was deleted after it was looked up          *)
(* (service.go:940).                                                       *)
THEOREM OutOfRangeAlwaysDeleted == ServingSpec => OutOfRangeOnlyIfDeleted
<1>1. ASSUME ShownWasSent, [ServingNext]_servingVars
      PROVE  [\A h \in Handler :
                 Navigator!At(h, "list") /\ presser'[h] = Navigator!Idle
                     /\ navigatorFaults' = navigatorFaults
                 => status = "deleted"]_(Navigator!vars)
  <2>1. CASE UNCHANGED navigatorVars
    BY <2>1 DEF navigatorVars, Navigator!vars
  <2>2. CASE active = "navigator" /\ Navigator!Next
    BY <1>1, <2>2, OnlyDeletedOutOfRange DEF ShownWasSent
  <2> QED BY <1>1, <2>1, <2>2, ServingSteps
<1> QED BY <1>1, ShownAlwaysSent, PTL DEF ServingSpec, OutOfRangeOnlyIfDeleted, Navigator!OutOfRangeOnlyIfDeleted

-----------------------------------------------------------------------------
(* The rate limit.                                                         *)
(*                                                                         *)
(* The key lives from one first call to the end of its window, so two of   *)
(* its lives begin at least a window apart (LivesApart) and each call      *)
(* falls into the window of its own life (CallsInLife). Within one life    *)
(* the counter counts the calls (Counted), hence no more than the limit    *)
(* are allowed in it, and a call that is refused has at least the limit    *)
(* before it. A stretch of time as long as a window meets two lives at     *)
(* most.                                                                   *)

CallsOf(l) == {i \in DOMAIN log : log[i].life = l}

AllowedOf(l) == {i \in DOMAIN log : log[i].life = l /\ log[i].answer = "allowed"}

EarlierOf(i) == {j \in 1 .. i - 1 : log[j].life = log[i].life}

LivesApart ==
    \A a, b \in DOMAIN lives : a < b => lives[a] + Window <= lives[b]

CallsInLife ==
    \A i \in DOMAIN log :
        /\ log[i].life \in DOMAIN lives
        /\ lives[log[i].life] <= log[i].at
        /\ log[i].at < lives[log[i].life] + Window

(* The key belongs to the last life. *)
KeyOfLastLife ==
    /\ lives = <<>> => deadline = 0
    /\ lives # <<>> => /\ lives[Len(lives)] <= clock
                       /\ deadline = lives[Len(lives)] + Window

Counted == lives # <<>> => count >= 1 /\ count = Cardinality(CallsOf(Len(lives)))

AllowedWithinLimit == \A l \in DOMAIN lives : Cardinality(AllowedOf(l)) <= Limit

RefusedAboveLimit ==
    \A i \in DOMAIN log : log[i].answer = "refused" => Cardinality(EarlierOf(i)) >= Limit

RateInv ==
    /\ LimitTypeOK
    /\ LivesApart
    /\ CallsInLife
    /\ KeyOfLastLife
    /\ Counted
    /\ AllowedWithinLimit
    /\ RefusedAboveLimit

-----------------------------------------------------------------------------
(* Any set of calls is finite. *)
LEMMA CallsFinite ==
    ASSUME log \in Seq(Call), NEW S \in SUBSET DOMAIN log
    PROVE  IsFiniteSet(S) /\ Cardinality(S) \in Nat
<1>1. DOMAIN log = 1 .. Len(log) /\ Len(log) \in Nat
    OBVIOUS
<1>2. IsFiniteSet(DOMAIN log)
    BY <1>1, FS_Interval
<1>3. IsFiniteSet(S)
    BY <1>2, FS_Subset
<1> QED
    BY <1>3, FS_CardinalityType

(* A set of calls has at least as many members as each of its subsets. *)
LEMMA FewerCalls ==
    ASSUME log \in Seq(Call), NEW S \in SUBSET DOMAIN log, NEW T \in SUBSET S
    PROVE  /\ Cardinality(T) \in Nat /\ Cardinality(S) \in Nat
           /\ Cardinality(T) <= Cardinality(S)
<1>1. IsFiniteSet(S)
    BY CallsFinite
<1> QED
    BY <1>1, FS_Subset, FS_CardinalityType

(* What the script adds to the log: its call is the last one, in the last  *)
(* life of the key.                                                        *)
LEMMA NewCall ==
    ASSUME LimitTypeOK, Allow
    PROVE  /\ Len(log') = Len(log) + 1 /\ Len(log) \in Nat
           /\ DOMAIN log = 1 .. Len(log) /\ DOMAIN log' = 1 .. Len(log) + 1
           /\ \A i \in DOMAIN log : log'[i] = log[i]
           /\ log'[Len(log) + 1].at = clock
           /\ log'[Len(log) + 1].life = Len(lives')
           /\ log'[Len(log) + 1].answer \in {Answer(Incremented), "lost"}
<1>1. PICK answer \in {Answer(Incremented), "lost"} :
          log' = Append(log, [at |-> clock, life |-> Len(lives'), answer |-> answer])
    BY DEF Allow
<1>2. log \in Seq(Call)
    BY DEF LimitTypeOK
<1>3. /\ Len(log') = Len(log) + 1 /\ Len(log) \in Nat
      /\ DOMAIN log = 1 .. Len(log) /\ DOMAIN log' = 1 .. Len(log) + 1
      /\ \A i \in 1 .. Len(log) : log'[i] = log[i]
      /\ log'[Len(log) + 1] = [at |-> clock, life |-> Len(lives'), answer |-> answer]
    BY <1>1, <1>2
<1> QED
    BY <1>3

-----------------------------------------------------------------------------
LEMMA InitRateInv ==
    LimitInit => RateInv
<1> SUFFICES ASSUME LimitInit PROVE RateInv
    OBVIOUS
<1>1. LimitTypeOK
    BY LimitIsNat, WindowPositive DEF LimitInit, LimitTypeOK
<1>2. DOMAIN log = {} /\ DOMAIN lives = {}
    BY DEF LimitInit
<1> QED
    BY <1>1, <1>2 DEF LimitInit, RateInv, LivesApart, CallsInLife, KeyOfLastLife, Counted,
                      AllowedWithinLimit, RefusedAboveLimit

(* Time passes: nothing but the clock changes. *)
LEMMA TickRateInv ==
    ASSUME RateInv, Tick PROVE RateInv'
<1>1. /\ count' = count /\ deadline' = deadline /\ log' = log /\ lives' = lives
      /\ clock' = clock + 1
    BY DEF Tick
<1>2. LimitTypeOK'
    BY <1>1, WindowPositive DEF RateInv, LimitTypeOK
<1>3. KeyOfLastLife'
    BY <1>1 DEF RateInv, LimitTypeOK, KeyOfLastLife
<1>4. LivesApart' /\ CallsInLife' /\ Counted' /\ AllowedWithinLimit' /\ RefusedAboveLimit'
    BY <1>1 DEF RateInv, LivesApart, CallsInLife, Counted, CallsOf, AllowedWithinLimit,
                AllowedOf, RefusedAboveLimit, EarlierOf
<1> QED
    BY <1>2, <1>3, <1>4 DEF RateInv

(* What the script does to the key, whether it finds it or creates it: the *)
(* call falls into the last life, and is counted in it.                    *)
LEMMA KeyAfterCall ==
    ASSUME RateInv, Allow
    PROVE  /\ Len(lives') \in DOMAIN lives' /\ lives' # <<>>
           /\ DOMAIN lives \subseteq DOMAIN lives'
           /\ \A l \in DOMAIN lives : lives'[l] = lives[l]
           /\ \A l \in DOMAIN lives' : l \notin DOMAIN lives => l = Len(lives')
           /\ lives' \in Seq(Nat)
           /\ lives'[Len(lives')] <= clock
           /\ deadline' = lives'[Len(lives')] + Window
           /\ clock < deadline'
           /\ LivesApart'
           /\ count' = Incremented
           /\ count' = Cardinality(CallsOf(Len(lives'))) + 1
<1>0. /\ log \in Seq(Call) /\ lives \in Seq(Nat) /\ clock \in Nat /\ count \in Nat
      /\ deadline \in Nat /\ Window \in Nat /\ Window > 0
    BY WindowPositive DEF RateInv, LimitTypeOK
<1>1. count' = Incremented /\ deadline' = Deadline(Incremented)
    BY DEF Allow
<1>2. CASE clock < deadline
    <2>1. lives' = lives /\ Incremented = count + 1
        BY <1>2 DEF Allow, Incremented
    <2>2. lives # <<>>
        BY <1>0, <1>2 DEF RateInv, KeyOfLastLife
    <2>3. Len(lives) \in DOMAIN lives
        BY <1>0, <2>2
    <2>4. count >= 1 /\ count = Cardinality(CallsOf(Len(lives)))
        BY <2>2 DEF RateInv, Counted
    <2>5. deadline' = deadline
        BY <1>0, <1>1, <2>1, <2>4 DEF Deadline
    <2>6. lives[Len(lives)] <= clock /\ deadline = lives[Len(lives)] + Window
        BY <2>2 DEF RateInv, KeyOfLastLife
    <2>7. LivesApart'
        BY <2>1 DEF RateInv, LivesApart
    <2> QED
        BY <1>1, <1>2, <1>0, <2>1, <2>2, <2>3, <2>4, <2>5, <2>6, <2>7
<1>3. CASE ~(clock < deadline)
    <2>1. lives' = Append(lives, clock) /\ Incremented = 1
        BY <1>3 DEF Allow, Incremented
    <2>2. /\ DOMAIN lives = 1 .. Len(lives) /\ DOMAIN lives' = 1 .. Len(lives) + 1
          /\ Len(lives') = Len(lives) + 1 /\ Len(lives) \in Nat
          /\ \A l \in 1 .. Len(lives) : lives'[l] = lives[l]
          /\ lives'[Len(lives) + 1] = clock
          /\ lives' \in Seq(Nat) /\ lives' # <<>>
        BY <1>0, <2>1
    <2>3. deadline' = clock + Window
        BY <1>1, <2>1 DEF Deadline
    <2>4. CallsOf(Len(lives')) = {}
        BY <2>2 DEF RateInv, CallsInLife, CallsOf
    <2>5. \A l \in DOMAIN lives : lives[l] + Window <= clock
        <3> SUFFICES ASSUME NEW l \in DOMAIN lives PROVE lives[l] + Window <= clock
            OBVIOUS
        <3>1. lives # <<>> /\ Len(lives) \in DOMAIN lives
            BY <1>0, <2>2
        <3>2. lives[Len(lives)] + Window <= clock
            BY <1>0, <1>3, <3>1 DEF RateInv, KeyOfLastLife
        <3>3. lives[l] \in Nat /\ lives[Len(lives)] \in Nat
            BY <1>0, <3>1
        <3>4. l = Len(lives) \/ lives[l] + Window <= lives[Len(lives)]
            BY <2>2, <3>1 DEF RateInv, LivesApart
        <3> QED
            BY <1>0, <3>2, <3>3, <3>4
    <2>6. LivesApart'
        <3> SUFFICES ASSUME NEW a \in DOMAIN lives', NEW b \in DOMAIN lives', a < b
                     PROVE  lives'[a] + Window <= lives'[b]
            BY DEF LivesApart
        <3>1. CASE b \in DOMAIN lives
            <4>1. a \in DOMAIN lives /\ lives'[a] = lives[a] /\ lives'[b] = lives[b]
                BY <2>2, <3>1
            <4> QED
                BY <3>1, <4>1 DEF RateInv, LivesApart
        <3>2. CASE b \notin DOMAIN lives
            <4>1. b = Len(lives) + 1 /\ a \in DOMAIN lives /\ lives'[a] = lives[a]
                BY <2>2, <3>2
            <4> QED
                BY <2>2, <2>5, <4>1
        <3> QED
            BY <3>1, <3>2
    <2>7. Cardinality(CallsOf(Len(lives'))) = 0
        BY <2>4, FS_EmptySet
    <2>8. count' = Incremented /\ count' = Cardinality(CallsOf(Len(lives'))) + 1
        BY <1>1, <2>1, <2>7
    <2>9. /\ lives'[Len(lives')] = clock /\ lives'[Len(lives')] <= clock
          /\ deadline' = lives'[Len(lives')] + Window /\ clock < deadline'
        BY <1>0, <2>2, <2>3
    <2>10. /\ Len(lives') \in DOMAIN lives' /\ DOMAIN lives \subseteq DOMAIN lives'
           /\ \A l \in DOMAIN lives' : l \notin DOMAIN lives => l = Len(lives')
        BY <2>2
    <2> QED
        BY <2>2, <2>6, <2>8, <2>9, <2>10
<1> QED
    BY <1>2, <1>3

(* The calls of each life after the script's call. *)
LEMMA CallsAfterCall ==
    ASSUME RateInv, Allow, NEW l
    PROVE  LET new == Len(log) + 1
           IN  /\ new \notin DOMAIN log
               /\ CallsOf(l)' = IF l = Len(lives') THEN CallsOf(l) \cup {new} ELSE CallsOf(l)
               /\ AllowedOf(l)' = IF l = Len(lives') /\ log'[new].answer = "allowed"
                                  THEN AllowedOf(l) \cup {new} ELSE AllowedOf(l)
<1> DEFINE new == Len(log) + 1
<1>1. LimitTypeOK
    BY DEF RateInv
<1>2. /\ DOMAIN log = 1 .. Len(log) /\ DOMAIN log' = DOMAIN log \cup {new} /\ new \notin DOMAIN log
      /\ \A i \in DOMAIN log : log'[i] = log[i]
      /\ log'[new].life = Len(lives')
    BY <1>1, NewCall
<1>3. CallsOf(l)' = {i \in DOMAIN log' : log'[i].life = l}
    BY DEF CallsOf
<1>4. AllowedOf(l)' = {i \in DOMAIN log' : log'[i].life = l /\ log'[i].answer = "allowed"}
    BY DEF AllowedOf
<1>5. CallsOf(l)' = IF l = Len(lives') THEN CallsOf(l) \cup {new} ELSE CallsOf(l)
    BY <1>2, <1>3 DEF CallsOf
<1>6. AllowedOf(l)' = IF l = Len(lives') /\ log'[new].answer = "allowed"
                      THEN AllowedOf(l) \cup {new} ELSE AllowedOf(l)
    BY <1>2, <1>4 DEF AllowedOf
<1> QED
    BY <1>2, <1>5, <1>6

(* The script's call keeps the invariant. *)
LEMMA AllowRateInv ==
    ASSUME RateInv, Allow PROVE RateInv'
<1> DEFINE new == Len(log) + 1
<1>0. /\ LimitTypeOK /\ log \in Seq(Call) /\ lives \in Seq(Nat) /\ clock \in Nat
      /\ clock' = clock /\ Limit \in Nat /\ Window \in Nat
    BY LimitIsNat, WindowPositive DEF RateInv, LimitTypeOK, Allow
<1>life. PICK life \in Nat : life = Len(lives')
    BY KeyAfterCall
<1>1. /\ DOMAIN log = 1 .. Len(log) /\ DOMAIN log' = DOMAIN log \cup {new}
      /\ Len(log) \in Nat /\ new \notin DOMAIN log
      /\ \A i \in DOMAIN log : log'[i] = log[i]
      /\ log'[new].at = clock /\ log'[new].life = life
      /\ log'[new].answer \in {Answer(Incremented), "lost"}
    BY <1>0, <1>life, NewCall
<1>2. /\ life \in DOMAIN lives' /\ lives' # <<>>
      /\ DOMAIN lives \subseteq DOMAIN lives'
      /\ \A l \in DOMAIN lives : lives'[l] = lives[l]
      /\ \A l \in DOMAIN lives' : l \notin DOMAIN lives => l = life
      /\ lives' \in Seq(Nat) /\ lives'[life] <= clock
      /\ deadline' = lives'[life] + Window /\ clock < deadline'
      /\ LivesApart'
      /\ count' = Incremented /\ count' = Cardinality(CallsOf(life)) + 1
    BY <1>life, KeyAfterCall
<1>3. CallsOf(life) \in SUBSET DOMAIN log /\ IsFiniteSet(CallsOf(life))
      /\ Cardinality(CallsOf(life)) \in Nat
    BY <1>0, CallsFinite DEF CallsOf
<1>4. LimitTypeOK'
    <2>1. log' \in Seq(Call)
        <3>1. PICK answer \in {Answer(Incremented), "lost"} :
                 log' = Append(log, [at |-> clock, life |-> Len(lives'), answer |-> answer])
            BY DEF Allow
        <3>2. answer \in {"allowed", "refused", "lost"} /\ Len(lives') \in Nat
            BY <1>life, <3>1 DEF Answer
        <3> QED
            BY <1>0, <3>1, <3>2 DEF Call
    <2>2. lives'[life] \in Nat
        BY <1>2
    <2>3. count' \in Nat
        BY <1>2, <1>3
    <2>4. deadline' \in 0 .. clock' + Window
        BY <1>0, <1>2, <2>2
    <2> QED
        BY <1>0, <1>2, <2>1, <2>3, <2>4 DEF LimitTypeOK
<1>5. CallsInLife'
    <2> SUFFICES ASSUME NEW i \in DOMAIN log'
                 PROVE  /\ log'[i].life \in DOMAIN lives'
                        /\ lives'[log'[i].life] <= log'[i].at
                        /\ log'[i].at < lives'[log'[i].life] + Window
        BY DEF CallsInLife
    <2>1. CASE i = new
        BY <1>1, <1>2, <2>1
    <2>2. CASE i \in DOMAIN log
        <3>1. /\ log[i].life \in DOMAIN lives
              /\ lives[log[i].life] <= log[i].at
              /\ log[i].at < lives[log[i].life] + Window
            BY <2>2 DEF RateInv, CallsInLife
        <3> QED
            BY <1>1, <1>2, <2>2, <3>1
    <2> QED
        BY <1>1, <2>1, <2>2
<1>6. KeyOfLastLife'
    BY <1>0, <1>2, <1>life DEF KeyOfLastLife
<1>7. CallsOf(life)' = CallsOf(life) \cup {new}
    BY <1>life, CallsAfterCall
<1>8. Counted'
    <2>1. Cardinality(CallsOf(life)') = Cardinality(CallsOf(life)) + 1
        <3>1. new \notin CallsOf(life)
            BY <1>1 DEF CallsOf
        <3> QED
            BY <1>3, <1>7, <3>1, FS_AddElement
    <2>2. CallsOf(Len(lives))' = CallsOf(life)'
        BY <1>life DEF CallsOf
    <2> QED
        BY <1>2, <1>3, <2>1, <2>2 DEF Counted
<1>9. ASSUME NEW l \in DOMAIN lives' PROVE Cardinality(AllowedOf(l)') <= Limit
    <2>1. /\ AllowedOf(l) \in SUBSET DOMAIN log /\ IsFiniteSet(AllowedOf(l))
          /\ Cardinality(AllowedOf(l)) \in Nat /\ new \notin AllowedOf(l)
        BY <1>0, <1>1, CallsFinite DEF AllowedOf
    <2>2. CASE l = life /\ log'[new].answer = "allowed"
        <3>1. AllowedOf(l)' = AllowedOf(l) \cup {new}
            BY <1>life, <2>2, CallsAfterCall
        <3>2. Cardinality(AllowedOf(l)') = Cardinality(AllowedOf(l)) + 1
            BY <2>1, <3>1, FS_AddElement
        <3>3. AllowedOf(l) \subseteq CallsOf(life)
            BY <2>2 DEF AllowedOf, CallsOf
        <3>4. Cardinality(AllowedOf(l)) <= Cardinality(CallsOf(life))
            BY <1>3, <3>3, FS_Subset
        <3>5. Incremented <= Limit
            <4>1. Answer(Incremented) = "allowed"
                BY <1>1, <2>2
            <4> QED
                BY <1>0, <1>2, <1>3, <4>1 DEF Answer
        <3> QED
            BY <1>0, <1>2, <1>3, <2>1, <3>2, <3>4, <3>5
    <2>3. CASE ~(l = life /\ log'[new].answer = "allowed")
        <3>1. AllowedOf(l)' = AllowedOf(l)
            BY <1>life, <2>3, CallsAfterCall
        <3>2. CASE l \in DOMAIN lives
            BY <3>1, <3>2 DEF RateInv, AllowedWithinLimit
        <3>3. CASE l \notin DOMAIN lives
            <4>1. AllowedOf(l) = {}
                BY <3>3 DEF RateInv, CallsInLife, AllowedOf
            <4> QED
                BY <1>0, <3>1, <4>1, FS_EmptySet
        <3> QED
            BY <3>2, <3>3
    <2> QED
        BY <2>2, <2>3
<1>10. AllowedWithinLimit'
    BY <1>9 DEF AllowedWithinLimit
<1>11. ASSUME NEW i \in DOMAIN log', log'[i].answer = "refused"
       PROVE  Cardinality(EarlierOf(i)') >= Limit
    <2>0. EarlierOf(i)' = {j \in 1 .. i - 1 : log'[j].life = log'[i].life}
        BY DEF EarlierOf
    <2>1. CASE i = new
        <3>1. EarlierOf(i)' = CallsOf(life)
            BY <1>1, <2>0, <2>1 DEF CallsOf
        <3>2. Incremented > Limit
            <4>1. Answer(Incremented) = "refused"
                BY <1>1, <1>11, <2>1
            <4> QED
                BY <1>0, <1>2, <1>3, <4>1 DEF Answer
        <3> QED
            BY <1>0, <1>2, <1>3, <3>1, <3>2
    <2>2. CASE i \in DOMAIN log
        <3>1. EarlierOf(i)' = EarlierOf(i)
            BY <1>1, <2>0, <2>2 DEF EarlierOf
        <3>2. log[i].answer = "refused"
            BY <1>1, <1>11, <2>2
        <3> QED
            BY <2>2, <3>1, <3>2 DEF RateInv, RefusedAboveLimit
    <2> QED
        BY <1>1, <2>1, <2>2
<1>12. RefusedAboveLimit'
    BY <1>11 DEF RefusedAboveLimit
<1> QED
    BY <1>2, <1>4, <1>5, <1>6, <1>8, <1>10, <1>12 DEF RateInv

(* RateInv holds of every state: LimitInit => RateInv and each step keeps it.   *)
LEMMA RateInvariant ==
    LimitSpec => []RateInv
<1>1. RateInv /\ [LimitNext]_limitVars => RateInv'
    <2> SUFFICES ASSUME RateInv, [LimitNext]_limitVars PROVE RateInv'
        OBVIOUS
    <2>1. CASE Allow
        BY <2>1, AllowRateInv
    <2>2. CASE Tick
        BY <2>2, TickRateInv
    <2>3. CASE UNCHANGED limitVars
        BY <2>3 DEF limitVars, RateInv, LimitTypeOK, LivesApart, CallsInLife, KeyOfLastLife, Counted,
                    CallsOf, AllowedWithinLimit, AllowedOf, RefusedAboveLimit, EarlierOf
    <2> QED
        BY <2>1, <2>2, <2>3 DEF LimitNext
<1> QED
    BY <1>1, InitRateInv, PTL DEF LimitSpec

-----------------------------------------------------------------------------
(* Within any stretch of time as long as a window at most two lives of the *)
(* key have calls, and each lets at most the limit through.                *)
LEMMA TwoLivesAtMost ==
    ASSUME RateInv, NEW t \in Nat
    PROVE  Cardinality(AllowedFrom(t)) <= 2 * Limit
<1>0. /\ log \in Seq(Call) /\ lives \in Seq(Nat) /\ Limit \in Nat /\ Window \in Nat
    BY LimitIsNat, WindowPositive DEF RateInv, LimitTypeOK
<1>1. ASSUME NEW i \in DOMAIN log PROVE log[i].at \in Nat /\ log[i].life \in Nat
    <2>1. log[i] \in Call
        BY <1>0
    <2> QED
        BY <2>1 DEF Call
<1>start. \A l \in DOMAIN lives : lives[l] \in Nat
    BY <1>0
<1>2. AllowedFrom(t) \in SUBSET DOMAIN log
    BY DEF AllowedFrom
<1>3. \A l \in DOMAIN lives : /\ AllowedOf(l) \in SUBSET DOMAIN log
                              /\ Cardinality(AllowedOf(l)) \in Nat
                              /\ IsFiniteSet(AllowedOf(l))
                              /\ Cardinality(AllowedOf(l)) <= Limit
    BY <1>0, CallsFinite DEF AllowedOf, RateInv, AllowedWithinLimit
<1>4. CASE AllowedFrom(t) = {}
    BY <1>0, <1>4, FS_EmptySet
<1>5. CASE \E l \in DOMAIN lives : AllowedFrom(t) \subseteq AllowedOf(l)
    <2>1. PICK l \in DOMAIN lives : AllowedFrom(t) \subseteq AllowedOf(l)
        BY <1>5
    <2>2. Cardinality(AllowedFrom(t)) <= Cardinality(AllowedOf(l))
          /\ Cardinality(AllowedFrom(t)) \in Nat
        BY <1>0, <1>3, <2>1, FewerCalls
    <2> QED
        BY <1>0, <1>3, <2>2
<1>6. CASE AllowedFrom(t) # {} /\ ~\E l \in DOMAIN lives : AllowedFrom(t) \subseteq AllowedOf(l)
    <2>1. PICK i \in AllowedFrom(t) : TRUE
        BY <1>6
    <2>2. log[i].life \in DOMAIN lives
        BY <1>2, <2>1 DEF RateInv, CallsInLife
    <2>3. PICK k \in AllowedFrom(t) : log[k].life # log[i].life
        <3>1. ~(AllowedFrom(t) \subseteq AllowedOf(log[i].life))
            BY <1>6, <2>2
        <3>2. PICK k \in AllowedFrom(t) : k \notin AllowedOf(log[i].life)
            BY <3>1
        <3>3. k \in DOMAIN log /\ log[k].answer = "allowed"
            BY <3>2 DEF AllowedFrom
        <3> QED
            BY <3>2, <3>3 DEF AllowedOf
    <2> DEFINE a == log[i].life
               b == log[k].life
    <2>4. a \in DOMAIN lives /\ b \in DOMAIN lives /\ a # b
        BY <1>2, <2>1, <2>2, <2>3 DEF RateInv, CallsInLife
    <2>5. ASSUME NEW j \in AllowedFrom(t) PROVE log[j].life \in {a, b}
        <3> DEFINE c == log[j].life
        <3>1. /\ i \in DOMAIN log /\ j \in DOMAIN log /\ k \in DOMAIN log
              /\ a \in DOMAIN lives /\ b \in DOMAIN lives /\ c \in DOMAIN lives
            BY <1>2, <2>1, <2>4 DEF RateInv, CallsInLife
        <3>2. /\ lives[a] <= log[i].at /\ log[i].at < lives[a] + Window
              /\ lives[b] <= log[k].at /\ log[k].at < lives[b] + Window
              /\ lives[c] <= log[j].at /\ log[j].at < lives[c] + Window
            BY <3>1 DEF RateInv, CallsInLife
        <3>3. /\ t <= log[i].at /\ log[i].at < t + Window
              /\ t <= log[j].at /\ log[j].at < t + Window
              /\ t <= log[k].at /\ log[k].at < t + Window
            BY <2>1, <2>3, <2>5 DEF AllowedFrom
        <3>4. /\ lives[a] \in Nat /\ lives[b] \in Nat /\ lives[c] \in Nat
              /\ a \in Nat /\ b \in Nat /\ c \in Nat
              /\ log[i].at \in Nat /\ log[j].at \in Nat /\ log[k].at \in Nat
            <4>1. lives[a] \in Nat /\ lives[b] \in Nat /\ lives[c] \in Nat
                BY <1>start, <3>1, Zenon
            <4> QED
                BY <1>1, <3>1, <4>1
        <3>5. /\ a < b => lives[a] + Window <= lives[b]
              /\ b < a => lives[b] + Window <= lives[a]
              /\ a < c => lives[a] + Window <= lives[c]
              /\ c < a => lives[c] + Window <= lives[a]
              /\ b < c => lives[b] + Window <= lives[c]
              /\ c < b => lives[c] + Window <= lives[b]
            BY <3>1 DEF RateInv, LivesApart
        <3> DEFINE startA == lives[a]
                   startB == lives[b]
                   startC == lives[c]
                   atI == log[i].at
                   atJ == log[j].at
                   atK == log[k].at
        <3>6. c = a \/ c = b
            <4>1. /\ startA \in Nat /\ startB \in Nat /\ startC \in Nat
                  /\ a \in Nat /\ b \in Nat /\ c \in Nat
                  /\ atI \in Nat /\ atJ \in Nat /\ atK \in Nat
                BY <3>4
            <4>2. /\ startA <= atI /\ atI < startA + Window /\ t <= atI /\ atI < t + Window
                  /\ startB <= atK /\ atK < startB + Window /\ t <= atK /\ atK < t + Window
                  /\ startC <= atJ /\ atJ < startC + Window /\ t <= atJ /\ atJ < t + Window
                BY <3>2, <3>3
            <4>3. /\ a < b => startA + Window <= startB
                  /\ b < a => startB + Window <= startA
                  /\ a < c => startA + Window <= startC
                  /\ c < a => startC + Window <= startA
                  /\ b < c => startB + Window <= startC
                  /\ c < b => startC + Window <= startB
                BY <3>5
            <4>4. a # b
                BY <2>4
            <4> HIDE DEF startA, startB, startC, atI, atJ, atK, a, b, c
            <4> QED
                BY <1>0, <4>1, <4>2, <4>3, <4>4
        <3> QED
            BY <3>6
    <2>6. AllowedFrom(t) \subseteq AllowedOf(a) \cup AllowedOf(b)
        BY <2>5 DEF AllowedFrom, AllowedOf
    <2>7. /\ IsFiniteSet(AllowedOf(a)) /\ IsFiniteSet(AllowedOf(b))
          /\ Cardinality(AllowedOf(a)) <= Limit /\ Cardinality(AllowedOf(b)) <= Limit
          /\ Cardinality(AllowedOf(a)) \in Nat /\ Cardinality(AllowedOf(b)) \in Nat
          /\ AllowedOf(a) \in SUBSET DOMAIN log /\ AllowedOf(b) \in SUBSET DOMAIN log
        BY <1>3, <2>4
    <2>8. AllowedOf(a) \cap AllowedOf(b) = {}
        BY <2>4 DEF AllowedOf
    <2>9. Cardinality(AllowedOf(a) \cup AllowedOf(b))
          = Cardinality(AllowedOf(a)) + Cardinality(AllowedOf(b))
        BY <2>7, <2>8, FS_Union, FS_EmptySet
    <2>10. Cardinality(AllowedFrom(t)) <= Cardinality(AllowedOf(a) \cup AllowedOf(b))
           /\ Cardinality(AllowedFrom(t)) \in Nat
        BY <1>0, <2>6, <2>7, FewerCalls
    <2> QED
        BY <1>0, <2>7, <2>9, <2>10
<1> QED
    BY <1>4, <1>5, <1>6

(* Every state of the rate limiter is well-typed (rediscache.go:30-46).    *)
THEOREM RateLimitTypeOK ==
    LimitSpec => []LimitTypeOK
<1>1. RateInv => LimitTypeOK
    BY DEF RateInv
<1> QED
    BY <1>1, RateInvariant, PTL

(* Whatever the limit and the window, and however the calls are spaced, no *)
(* stretch of time as long as a window sees more than twice the limit      *)
(* allowed (rediscache.go:30-46).                                          *)
THEOREM AtMostTwiceLimitHolds ==
    LimitSpec => []AtMostTwiceLimit
<1>1. RateInv => AtMostTwiceLimit
    <2> SUFFICES ASSUME RateInv, NEW t \in 0 .. clock
                 PROVE  Cardinality(AllowedFrom(t)) <= 2 * Limit
        BY DEF AtMostTwiceLimit
    <2>1. t \in Nat
        BY DEF RateInv, LimitTypeOK
    <2> QED
        BY <2>1, TwoLivesAtMost
<1> QED
    BY <1>1, RateInvariant, PTL

(* A call is refused only after the limit has been used up by calls less   *)
(* than a window older (rediscache.go:38-43).                              *)
THEOREM RefusedOnlyOverLimitHolds ==
    LimitSpec => []RefusedOnlyOverLimit
<1>1. RateInv => RefusedOnlyOverLimit
    <2> SUFFICES ASSUME RateInv, NEW i \in DOMAIN log, log[i].answer = "refused"
                 PROVE  Cardinality(CallsBefore(i)) >= Limit
        BY DEF RefusedOnlyOverLimit
    <2>0. log \in Seq(Call) /\ lives \in Seq(Nat) /\ Limit \in Nat /\ Window \in Nat
        BY LimitIsNat, WindowPositive DEF RateInv, LimitTypeOK
    <2>1. Cardinality(EarlierOf(i)) >= Limit
        BY DEF RateInv, RefusedAboveLimit
    <2>2. EarlierOf(i) \subseteq CallsBefore(i)
        <3> SUFFICES ASSUME NEW j \in EarlierOf(i) PROVE j \in CallsBefore(i)
            OBVIOUS
        <3>1. j \in 1 .. i - 1 /\ j \in DOMAIN log /\ log[j].life = log[i].life
            BY <2>0 DEF EarlierOf
        <3>2. /\ log[i].life \in DOMAIN lives
              /\ lives[log[i].life] <= log[j].at
              /\ log[i].at < lives[log[i].life] + Window
            BY <3>1 DEF RateInv, CallsInLife
        <3>3. log[i].at \in Nat /\ log[j].at \in Nat /\ lives[log[i].life] \in Nat
            <4>1. log[i] \in Call /\ log[j] \in Call
                BY <2>0, <3>1
            <4>2. lives[log[i].life] \in Nat
                BY <2>0, <3>2
            <4> QED
                BY <4>1, <4>2 DEF Call
        <3> QED
            BY <2>0, <3>1, <3>2, <3>3 DEF CallsBefore
    <2>3. CallsBefore(i) \in SUBSET DOMAIN log
        BY <2>0 DEF CallsBefore
    <2>4. /\ Cardinality(EarlierOf(i)) \in Nat /\ Cardinality(CallsBefore(i)) \in Nat
          /\ Cardinality(EarlierOf(i)) <= Cardinality(CallsBefore(i))
        BY <2>0, <2>2, <2>3, FewerCalls
    <2> QED
        BY <2>0, <2>1, <2>4
<1> QED
    BY <1>1, RateInvariant, PTL

=============================================================================
