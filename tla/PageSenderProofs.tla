-------------------------- MODULE PageSenderProofs --------------------------
(***************************************************************************)
(* What TLAPS proves of PageSender, for every chunk size and every page.   *)
(*                                                                         *)
(* The argument: a request begins with the first file that is not in the   *)
(* chat and ends on the page (RequestOnPage), and no request follows one   *)
(* that was not answered; so the chat always holds a beginning of the page *)
(* (Progress), and all of it when the last request is answered. A chunk    *)
(* that may go out as one group is begun at its first file                 *)
(* (GroupsAreWhole), so a group is a chunk and has its size.               *)
(***************************************************************************)
EXTENDS PageSender, SequenceTheorems, TLAPS

-----------------------------------------------------------------------------
(* The inductive invariant. *)

(* Where the page stands, by how it ended. *)
Progress ==
    /\ outcome = "sending" => ~pending
    /\ outcome = "sent" => ~pending /\ Len(chat) = Len(page)
    /\ outcome = "sending" \/ pending => Len(chat) = next - 1 /\ next <= Len(page)

(* A chunk that goes out as one media group is begun at its first file. *)
GroupsAreWhole ==
    outcome = "sending" =>
        \/ next = ChunkStart(next)
        \/ ~CanSendAsMediaGroup(ChunkStart(next), ChunkEnd(next))

SenderInv == TypeOK /\ InOrderOnce /\ Progress /\ GroupsAreWhole

-----------------------------------------------------------------------------
(* A page is a sequence of one to PageSize files. *)
LEMMA PageIsSequence ==
    ASSUME page \in Pages
    PROVE  page \in Seq(Kind) /\ Len(page) \in 1 .. PageSize /\ DOMAIN page = 1 .. Len(page)
<1>1. PICK n \in 1 .. PageSize : page \in [1 .. n -> Kind]
    BY DEF Pages
<1>2. n \in Nat
    BY <1>1, PageSizeIsNat
<1> QED
    BY <1>1, <1>2

(* The chunk of file i ends with it or later. *)
LEMMA ChunkHoldsFile ==
    ASSUME NEW i \in Nat \ {0}
    PROVE  ChunkStart(i) \in Nat /\ i <= ChunkStart(i) + ChunkSize - 1
<1> DEFINE a == i - 1
           q == a \div ChunkSize
<1>1. a \in Nat /\ ChunkSize \in Nat /\ ChunkSize > 0
    BY ChunkSizePositive
<1>2. q \in Nat /\ a = ChunkSize * q + (a % ChunkSize) /\ a % ChunkSize \in 0 .. ChunkSize - 1
    BY <1>1
<1> QED
    BY <1>1, <1>2 DEF ChunkStart

(* A chunk ends where the next file begins another one, and only there. *)
LEMMA NextChunk ==
    ASSUME NEW i \in Nat \ {0}
    PROVE  ChunkStart(i + 1) = IF i = ChunkStart(i) + ChunkSize - 1
                               THEN i + 1
                               ELSE ChunkStart(i)
<1> DEFINE a == i - 1
           q == a \div ChunkSize
           r == a % ChunkSize
<1>1. a \in Nat /\ ChunkSize \in Nat /\ ChunkSize > 0
    BY ChunkSizePositive
<1>2. q \in Nat /\ a = ChunkSize * q + r /\ r \in 0 .. ChunkSize - 1
    BY <1>1
<1>3. ChunkStart(i) = q * ChunkSize + 1 /\ q * ChunkSize = ChunkSize * q
    BY <1>1, <1>2 DEF ChunkStart
<1>4. ChunkStart(i + 1) = (i \div ChunkSize) * ChunkSize + 1
    BY DEF ChunkStart
<1> HIDE DEF q, r
<1>5. CASE r = ChunkSize - 1
    <2>1. i = ChunkSize * (q + 1)
        BY <1>1, <1>2, <1>5
    <2>2. i \div ChunkSize = q + 1
        BY <1>1, <1>2, <2>1
    <2> QED
        BY <1>1, <1>2, <1>3, <1>4, <1>5, <2>1, <2>2
<1>6. CASE r < ChunkSize - 1
    <2>1. i = ChunkSize * q + (r + 1) /\ r + 1 \in 0 .. ChunkSize - 1
        BY <1>1, <1>2, <1>6
    <2>2. i \div ChunkSize = q
        BY <1>1, <1>2, <2>1
    <2> QED
        BY <1>1, <1>2, <1>3, <1>4, <1>6, <2>2
<1> QED
    BY <1>1, <1>2, <1>5, <1>6

(* The files up to the end of a chunk are in the chunk. *)
LEMMA SameChunk ==
    ASSUME NEW i \in Nat \ {0}, NEW j \in Nat \ {0},
           i <= j, j <= ChunkStart(i) + ChunkSize - 1
    PROVE  ChunkStart(j) = ChunkStart(i)
<1> DEFINE a == i - 1
           q == a \div ChunkSize
           b == j - 1
<1>1. a \in Nat /\ b \in Nat /\ ChunkSize \in Nat /\ ChunkSize > 0
    BY ChunkSizePositive
<1>2. q \in Nat /\ a = ChunkSize * q + (a % ChunkSize) /\ a % ChunkSize \in 0 .. ChunkSize - 1
    BY <1>1
<1>3. ChunkStart(i) = ChunkSize * q + 1
    BY <1>1, <1>2 DEF ChunkStart
<1> HIDE DEF q
<1>4. ChunkSize * q \in Nat /\ ChunkSize * q <= b /\ b <= ChunkSize * q + ChunkSize - 1
    BY <1>1, <1>2, <1>3
<1>5. PICK d \in Nat : d = b - ChunkSize * q /\ d <= ChunkSize - 1
    BY <1>1, <1>4
<1>6. b = ChunkSize * q + d
    BY <1>1, <1>4, <1>5
<1>7. b \div ChunkSize = q
    BY <1>1, <1>2, <1>5, <1>6
<1> QED
    BY <1>1, <1>2, <1>3, <1>7 DEF ChunkStart

(* A request that begins with a file of the page ends with one. *)
LEMMA RequestOnPage ==
    ASSUME page \in Pages, NEW i \in 1 .. Len(page)
    PROVE  RequestEnd(i) \in i .. Len(page)
<1>1. Len(page) \in Nat
    BY PageIsSequence
<1>2. i \in Nat \ {0} /\ ChunkSize \in Nat
    BY <1>1, ChunkSizePositive
<1>3. ChunkStart(i) \in Nat /\ i <= ChunkStart(i) + ChunkSize - 1
    BY <1>2, ChunkHoldsFile
<1>4. ChunkEnd(i) \in i .. Len(page)
    BY <1>1, <1>2, <1>3 DEF ChunkEnd
<1> QED
    BY <1>1, <1>2, <1>4 DEF RequestEnd

(* The files of a request follow one another. *)
LEMMA RunIsSequence ==
    ASSUME NEW m \in Nat, NEW i \in 1 .. m, NEW n \in Nat, i + n - 1 <= m
    PROVE  LET request == [k \in 1 .. n |-> i + k - 1]
           IN  request \in Seq(1 .. m) /\ Len(request) = n
<1> DEFINE request == [k \in 1 .. n |-> i + k - 1]
<1>1. ASSUME NEW k \in 1 .. n PROVE i + k - 1 \in 1 .. m
    OBVIOUS
<1>2. request \in [1 .. n -> 1 .. m]
    BY <1>1
<1> HIDE DEF request
<1>3. request \in Seq(1 .. m) /\ Len(request) = n
    BY <1>2
<1> QED
    BY <1>3 DEF request

(* What a served request adds to a chat that holds the files before it. *)
LEMMA ServedInOrder ==
    ASSUME TypeOK, InOrderOnce, Len(chat) = next - 1, next <= Len(page), Served
    PROVE  /\ chat' \in Seq(1 .. Len(page))
           /\ Len(chat') = RequestEnd(next)
           /\ \A k \in DOMAIN chat' : chat'[k] = k
           /\ RequestEnd(next) \in next .. Len(page)
<1>1. PICK m \in Nat : m = Len(page)
    <2>1. page \in Pages
        BY DEF TypeOK
    <2>2. Len(page) \in 1 .. PageSize
        BY <2>1, PageIsSequence
    <2> QED
        BY <2>2, PageSizeIsNat
<1>2. PICK i \in 1 .. m : i = next
    BY <1>1 DEF TypeOK
<1>3. PICK end \in i .. m : end = RequestEnd(next)
    BY <1>1, <1>2, RequestOnPage DEF TypeOK
<1> DEFINE n == end - i + 1
           request == [k \in 1 .. n |-> i + k - 1]
<1>4. n \in Nat /\ i + n - 1 <= m
    BY <1>2, <1>3
<1>5. request \in Seq(1 .. m) /\ Len(request) = n
    BY <1>1, <1>2, <1>4, RunIsSequence
<1>6. \A k \in 1 .. n : request[k] = i + k - 1
    OBVIOUS
<1>7. chat \in Seq(1 .. m) /\ Len(chat) = i - 1 /\ chat' = chat \o request
    BY <1>1, <1>2, <1>3 DEF TypeOK, Served
<1> HIDE DEF request
<1>8. /\ chat' \in Seq(1 .. m) /\ Len(chat') = Len(chat) + Len(request)
      /\ DOMAIN chat' = 1 .. Len(chat')
    <2>1. /\ chat \o request \in Seq(1 .. m)
          /\ Len(chat \o request) = Len(chat) + Len(request)
        BY <1>5, <1>7, ConcatProperties
    <2> QED
        BY <1>7, <2>1, LenProperties
<1>9. Len(chat') = end
    BY <1>2, <1>3, <1>5, <1>7, <1>8
<1>10. ASSUME NEW k \in DOMAIN chat' PROVE chat'[k] = k
    <2>1. k \in 1 .. end
        BY <1>8, <1>9
    <2>2. CASE k <= Len(chat)
        <3>1. k \in DOMAIN chat /\ chat'[k] = chat[k]
            BY <1>3, <1>5, <1>7, <2>1, <2>2
        <3> QED
            BY <3>1 DEF InOrderOnce
    <2>3. CASE k > Len(chat)
        <3>1. k - Len(chat) \in 1 .. n
            BY <1>2, <1>3, <1>7, <2>1, <2>3
        <3>2. chat'[k] = request[k - Len(chat)]
            BY <1>5, <1>7, <2>1, <2>3, <3>1
        <3> QED
            BY <1>2, <1>6, <1>7, <2>1, <3>1, <3>2
    <2> QED
        BY <1>7, <2>1, <2>2, <2>3
<1> QED
    BY <1>1, <1>2, <1>3, <1>8, <1>9, <1>10

-----------------------------------------------------------------------------
LEMMA InitSenderInv ==
    Init => SenderInv
<1> SUFFICES ASSUME Init PROVE SenderInv
    OBVIOUS
<1>1. Len(page) \in 1 .. PageSize
    BY PageIsSequence DEF Init
<1>2. chat \in Seq(1 .. Len(page)) /\ Len(chat) = 0 /\ DOMAIN chat = {}
    BY DEF Init
<1>3. TypeOK
    <2>1. page \in Pages /\ next = 1 /\ pending = FALSE /\ outcome = "sending"
        BY DEF Init
    <2>2. next \in 1 .. Len(page) + 1
        BY <1>1, <2>1, PageSizeIsNat
    <2> QED
        BY <1>2, <2>1, <2>2 DEF TypeOK, Outcome
<1>4. InOrderOnce
    BY <1>2 DEF InOrderOnce
<1>5. Progress
    BY <1>1, <1>2, PageSizeIsNat DEF Init, Progress
<1>6. GroupsAreWhole
    <2>1. next = 1 /\ ChunkSize \in Nat /\ ChunkSize > 0
        BY ChunkSizePositive DEF Init
    <2>2. (next - 1) \div ChunkSize = 0
        BY <2>1
    <2> QED
        BY <2>1, <2>2 DEF GroupsAreWhole, ChunkStart
<1> QED
    BY <1>3, <1>4, <1>5, <1>6 DEF SenderInv

LEMMA NextSenderInv ==
    SenderInv /\ [Next]_vars => SenderInv'
<1> SUFFICES ASSUME SenderInv, [Next]_vars PROVE SenderInv'
    OBVIOUS
<1>0. /\ TypeOK /\ InOrderOnce /\ Progress /\ GroupsAreWhole
      /\ Len(page) \in Nat /\ Len(page) > 0
    BY PageIsSequence, PageSizeIsNat DEF SenderInv, TypeOK
<1>1. CASE Answered
    <2>1. Len(chat) = next - 1 /\ next <= Len(page) /\ ~pending /\ Served
        BY <1>0, <1>1 DEF Progress, Answered
    <2>2. /\ chat' \in Seq(1 .. Len(page)) /\ Len(chat') = RequestEnd(next)
          /\ \A k \in DOMAIN chat' : chat'[k] = k
          /\ RequestEnd(next) \in next .. Len(page)
        BY <1>0, <2>1, ServedInOrder
    <2>3. page' = page /\ pending' = pending /\ next' = RequestEnd(next) + 1
          /\ outcome' = AfterRequest(RequestEnd(next))
        BY <1>1 DEF Answered
    <2>4. TypeOK'
        BY <1>0, <2>2, <2>3 DEF TypeOK, AfterRequest, Outcome
    <2>5. InOrderOnce'
        BY <2>2 DEF InOrderOnce
    <2>6. Progress'
        BY <1>0, <2>1, <2>2, <2>3 DEF Progress, AfterRequest, TypeOK
    <2>7. GroupsAreWhole'
        <3>1. next \in Nat \ {0} /\ next <= Len(page) /\ outcome = "sending"
            BY <1>0, <1>1, <2>1 DEF TypeOK, Answered
        <3>2. ChunkStart(next) \in Nat /\ next <= ChunkStart(next) + ChunkSize - 1
            BY <3>1, ChunkHoldsFile
        <3>3. RequestEnd(next) \in Nat /\ ChunkSize \in Nat
            BY <2>2, <1>0, <3>1, ChunkSizePositive
        <3>4. CASE RequestEnd(next) = ChunkStart(next) + ChunkSize - 1
            <4>1. CASE RequestEnd(next) = next
                <5>1. next' = ChunkStart(next')
                    BY <2>3, <3>1, <3>4, <4>1, NextChunk
                <5> QED
                    BY <5>1 DEF GroupsAreWhole, ChunkStart
            <4>2. CASE RequestEnd(next) # next
                <5> DEFINE last == RequestEnd(next)
                <5>1. last \in Nat \ {0} /\ ChunkStart(last) = ChunkStart(next)
                    BY <2>2, <3>1, <3>2, <3>3, <3>4, <4>2, SameChunk
                <5>2. ChunkStart(last + 1) = last + 1
                    BY <3>4, <5>1, NextChunk
                <5> QED
                    BY <2>3, <5>2 DEF GroupsAreWhole, ChunkStart
            <4> QED
                BY <4>1, <4>2
        <3>5. CASE RequestEnd(next) # ChunkStart(next) + ChunkSize - 1
            <4>1. CASE CanSendAsMediaGroup(ChunkStart(next), ChunkEnd(next))
                <5>1. RequestEnd(next) = Len(page)
                    BY <3>5, <4>1 DEF RequestEnd, ChunkEnd
                <5>2. outcome' = "sent"
                    BY <2>3, <5>1 DEF AfterRequest
                <5> QED
                    BY <5>2 DEF GroupsAreWhole
            <4>2. CASE ~CanSendAsMediaGroup(ChunkStart(next), ChunkEnd(next))
                <5>1. RequestEnd(next) = next
                    BY <4>2 DEF RequestEnd
                <5>2. ChunkStart(next + 1) = ChunkStart(next)
                    BY <3>1, <3>5, <5>1, NextChunk
                <5>3. next' = next + 1 /\ page' = page
                    BY <2>3, <5>1
                <5>4. ChunkEnd(next + 1) = ChunkEnd(next)
                    BY <5>2 DEF ChunkEnd
                <5> QED
                    BY <4>2, <5>2, <5>3, <5>4
                       DEF GroupsAreWhole, CanSendAsMediaGroup, ChunkEnd, ChunkStart
            <4> QED
                BY <4>1, <4>2
        <3> QED
            BY <3>4, <3>5
    <2> QED
        BY <2>4, <2>5, <2>6, <2>7 DEF SenderInv
<1>2. CASE Fails
    <2>0. GroupsAreWhole'
        BY <1>2 DEF Fails, GroupsAreWhole
    <2>1. Len(chat) = next - 1 /\ next <= Len(page) /\ ~pending
        BY <1>0, <1>2 DEF Progress, Fails
    <2>2. page' = page /\ next' = next /\ outcome' \in {"failed", "unknown", "stopped"}
        BY <1>2 DEF Fails
    <2>3. CASE Served /\ pending' = FALSE
        <3>1. /\ chat' \in Seq(1 .. Len(page))
              /\ \A k \in DOMAIN chat' : chat'[k] = k
            BY <1>0, <2>1, <2>3, ServedInOrder
        <3> QED
            BY <1>0, <2>0, <2>2, <2>3, <3>1 DEF SenderInv, TypeOK, InOrderOnce, Progress, Outcome
    <2>4. CASE UNCHANGED chat /\ pending' \in BOOLEAN
        BY <1>0, <2>0, <2>1, <2>2, <2>4 DEF SenderInv, TypeOK, InOrderOnce, Progress, Outcome
    <2> QED
        BY <1>2, <2>3, <2>4 DEF Fails
<1>3. CASE ServedLate
    <2>1. Len(chat) = next - 1 /\ next <= Len(page) /\ Served
        BY <1>0, <1>3 DEF Progress, ServedLate
    <2>2. /\ chat' \in Seq(1 .. Len(page))
          /\ \A k \in DOMAIN chat' : chat'[k] = k
        BY <1>0, <2>1, ServedInOrder
    <2>3. page' = page /\ next' = next /\ outcome' = outcome /\ pending' = FALSE
          /\ outcome \notin {"sending", "sent"}
        BY <1>0, <1>3 DEF Progress, ServedLate
    <2> QED
        BY <1>0, <2>2, <2>3
           DEF SenderInv, TypeOK, InOrderOnce, Progress, GroupsAreWhole, Outcome
<1>4. CASE UNCHANGED vars
    BY <1>0, <1>4
       DEF vars, SenderInv, TypeOK, InOrderOnce, Progress, GroupsAreWhole, ChunkStart,
           ChunkEnd, CanSendAsMediaGroup
<1> QED
    BY <1>1, <1>2, <1>3, <1>4 DEF Next

LEMMA SenderInvariant ==
    Spec => []SenderInv
<1> QED
    BY InitSenderInv, NextSenderInv, PTL DEF Spec

(* Every state of DeliverPage is well-typed (sender.go:42-90).             *)
THEOREM PageSenderTypeOK ==
    Spec => []TypeOK
<1>1. SenderInv => TypeOK
    BY DEF SenderInv
<1> QED
    BY <1>1, SenderInvariant, PTL

(* However long the page, however it is cut into requests, and however it  *)
(* ends, the chat holds its first files, each once and in order            *)
(* (sender.go:103).                                                        *)
THEOREM InOrderOnceHolds ==
    Spec => []InOrderOnce
<1>1. SenderInv => InOrderOnce
    BY DEF SenderInv
<1> QED
    BY <1>1, SenderInvariant, PTL

(* A page that is reported as sent is in the chat to its last file         *)
(* (sender.go:89).                                                         *)
THEOREM SentInFullHolds ==
    Spec => []SentInFull
<1>1. SenderInv => SentInFull
    BY DEF SenderInv, Progress, SentInFull
<1> QED
    BY <1>1, SenderInvariant, PTL

(* A request of several files is a media group Telegram accepts, however   *)
(* large the chunks and whatever kinds the page mixes (sender.go:159-201). *)
THEOREM GroupsAlwaysAcceptable ==
    Spec => []GroupsAcceptable
<1>1. SenderInv => GroupsAcceptable
    <2> SUFFICES ASSUME SenderInv, outcome = "sending", RequestEnd(next) > next
                 PROVE  /\ RequestEnd(next) < next + ChunkSize
                        /\ RequestEnd(next) <= Len(page)
                        /\ \E m \in {"visual", "audio", "document"} :
                              \A i \in next .. RequestEnd(next) : Mode(page[i]) = m
        BY DEF GroupsAcceptable
    <2> DEFINE start == ChunkStart(next)
               end == ChunkEnd(next)
    <2>1. next \in Nat \ {0} /\ Len(page) \in Nat /\ ChunkSize \in Nat
        BY PageIsSequence, PageSizeIsNat, ChunkSizePositive DEF SenderInv, TypeOK
    <2>2. CanSendAsMediaGroup(start, end) /\ RequestEnd(next) = end
        BY <2>1 DEF RequestEnd
    <2>3. next = start
        BY <2>2 DEF SenderInv, GroupsAreWhole
    <2>4. end <= Len(page) /\ end < start + ChunkSize
        BY <2>1, <2>3 DEF ChunkEnd
    <2>5. /\ Mode(page[next]) \in {"visual", "audio", "document"}
          /\ \A i \in next .. end : Mode(page[i]) = Mode(page[next])
        BY <2>2, <2>3 DEF CanSendAsMediaGroup, Mode
    <2> QED
        BY <2>2, <2>3, <2>4, <2>5
<1> QED
    BY <1>1, SenderInvariant, PTL

-----------------------------------------------------------------------------
(* The initial states of DeliverPage are those of the abstract delivery. *)
LEMMA InitRefines ==
    Init => Delivery!AbstractInit
<1> SUFFICES ASSUME Init PROVE Delivery!AbstractInit
    OBVIOUS
<1>1. Len(page) \in 1 .. PageSize
    BY PageIsSequence DEF Init
<1> QED
    BY <1>1 DEF Init, Delivery!AbstractInit

(* A request that is answered is a stuttering step unless it is the last;  *)
(* every other step is the abstract report, or an arrival after it.        *)
LEMMA NextRefines ==
    SenderInv /\ SenderInv' /\ [Next]_vars => [Delivery!AbstractNext]_Delivery!abstractVars
<1> SUFFICES ASSUME SenderInv, SenderInv', [Next]_vars
             PROVE  [Delivery!AbstractNext]_Delivery!abstractVars
    OBVIOUS
<1> DEFINE size == Len(page)
           received == IF outcome = "sending" THEN 0 ELSE Len(chat)
           result == IF outcome = "sending" THEN "none" ELSE outcome
<1>0. /\ Len(page) \in Nat /\ Len(chat) \in Nat
      /\ TypeOK /\ InOrderOnce /\ Progress /\ TypeOK' /\ InOrderOnce' /\ Progress'
    BY PageIsSequence, PageSizeIsNat DEF SenderInv, TypeOK
<1>1. page' = page
    BY DEF Next, Answered, Fails, ServedLate, vars
<1>2. Len(chat') \in 0 .. Len(page)
    <2>1. chat' \in Seq(1 .. Len(page))
        BY <1>0, <1>1 DEF TypeOK
    <2>2. Len(chat') \in Nat /\ (Len(chat') > 0 => chat'[Len(chat')] \in 1 .. Len(page))
        BY <2>1
    <2>3. Len(chat') > 0 => chat'[Len(chat')] = Len(chat')
        BY <1>0, <2>1, <2>2 DEF InOrderOnce
    <2> QED
        BY <1>0, <2>2, <2>3
<1>3. CASE Answered
    <2>1. outcome = "sending" /\ outcome' \in {"sent", "sending"}
        BY <1>3 DEF Answered, AfterRequest
    <2>2. CASE outcome' = "sending"
        BY <1>1, <2>1, <2>2 DEF Delivery!abstractVars
    <2>3. CASE outcome' = "sent"
        <3>1. Len(chat') = Len(page)
            BY <1>0, <1>1, <2>3 DEF Progress
        <3>2. Delivery!ReportSent
            BY <1>1, <2>1, <2>3, <3>1 DEF Delivery!ReportSent
        <3> QED
            BY <3>2 DEF Delivery!AbstractNext
    <2> QED
        BY <2>1, <2>2, <2>3
<1>4. CASE Fails
    <2>1. outcome = "sending" /\ outcome' \in {"failed", "unknown", "stopped"}
        BY <1>4 DEF Fails
    <2>2. Delivery!ReportError
        BY <1>1, <1>2, <2>1 DEF Delivery!ReportError
    <2> QED
        BY <2>2 DEF Delivery!AbstractNext
<1>5. CASE ServedLate
    <2>1. /\ outcome \in {"failed", "unknown", "stopped"} /\ outcome' = outcome
          /\ Served /\ Len(chat) = next - 1 /\ next <= Len(page)
        BY <1>0, <1>5 DEF ServedLate, Progress, TypeOK, Outcome
    <2>2. Len(chat') = RequestEnd(next) /\ RequestEnd(next) \in next .. Len(page)
        BY <1>0, <2>1, ServedInOrder
    <2>3. next \in Nat
        BY <1>0 DEF TypeOK
    <2>4. Len(chat') \in Len(chat) .. Len(page)
        BY <1>0, <2>1, <2>2, <2>3
    <2>5. Delivery!ArrivesAfterwards
        BY <1>1, <2>1, <2>4 DEF Delivery!ArrivesAfterwards
    <2> QED
        BY <2>5 DEF Delivery!AbstractNext
<1>6. CASE UNCHANGED vars
    BY <1>6 DEF vars, Delivery!abstractVars
<1> QED
    BY <1>3, <1>4, <1>5, <1>6 DEF Next

(* DeliverPage, request by request, implements the delivery of a page as   *)
(* one step, which ClaimDelivery relies on (sender.go:42-111).             *)
THEOREM SenderImplementsPageDelivery ==
    Spec => ImplementsPageDelivery
<1> QED
    BY InitRefines, NextRefines, SenderInvariant, PTL
       DEF Spec, ImplementsPageDelivery, Delivery!AbstractSpec

=============================================================================
