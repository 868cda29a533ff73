--------------------------- MODULE ClaimMessages ---------------------------
(***************************************************************************)
(* From messages to deliveries: the codes a message holds, one claim for   *)
(* each, and the request number under which its delivery is recorded       *)
(* (ExtractClaimRelayInputs in internal/telegram/extract.go, Normalize in  *)
(* internal/relay/code.go, handleClaimRelays in internal/telegram/router.go *)
(* and CreateDelivery in internal/store/postgres).                         *)
(*                                                                         *)
(* A message may be delivered again at any time, also while it is being    *)
(* handled. The unique request number is all that keeps a claim from being *)
(* served again; what follows CreateDelivery is in ClaimDelivery.          *)
(***************************************************************************)
EXTENDS Integers, Sequences, SequencesExt

CONSTANTS
    Handler,
    FirstUpdate,   \* the update ids Telegram gives the messages
    LastUpdate,
    SequenceBits,  \* claimRequestSequenceBits
    Letters,       \* codes up to the case of their letters
    Match,         \* the codes as messages write them
    Known,         \* the codes that lead to a relay
    MaxCodes,      \* codes in one message; a message has 4096 characters
    MaxFaults      \* bound: crashes and claims that fail

(* A code is written with a prefix, in any case, and a body, where letter  *)
(* case matters.                                                           *)
Body == [letters : Letters, upper : BOOLEAN]
Prefix == {"relaybot_", "RelayBot_"}

Update == FirstUpdate .. LastUpdate

Factor == 2 ^ SequenceBits

(* Telegram counts its updates up from a number of its own choosing, and   *)
(* the ids a database ever holds lie within a factor of 2^16; the codes of *)
(* a message, at most 141, are numbered in 16 bits.                        *)
NumberingAssumption ==
    /\ FirstUpdate \in Nat \ {0} /\ LastUpdate \in Nat /\ SequenceBits \in Nat
    /\ LastUpdate <= FirstUpdate * Factor
    /\ MaxCodes \in Nat /\ MaxCodes < Factor

CodesAssumption ==
    Match \subseteq [prefix : Prefix, body : Body] /\ Known \subseteq Body /\ MaxFaults \in Nat

VARIABLES
    sent,        \* the messages the claimer has written
    handler,
    deliveries,  \* relay_deliveries, by request_update_id
    failed,      \* history: the claims that failed
    finished,    \* history: the messages a handler went through to the end
    faults

vars == <<sent, handler, deliveries, failed, finished, faults>>

Message == [kind  : {"text", "caption or forwarded"},
            codes : SeqOf(Match, MaxCodes)]

NoUpdate == 0

HandlerState == [update : Update \cup {NoUpdate},
                 next   : Nat]  \* the claim it has come to
Idle == [update |-> NoUpdate, next |-> 1]

(* Whose claim a delivery is, and which relay it hands out. *)
Delivery == [update : Update, relay : Known]

TypeOK ==
    /\ \A u \in DOMAIN sent : u \in Update /\ sent[u] \in Message
    /\ handler \in [Handler -> HandlerState]
    /\ \A id \in DOMAIN deliveries : id \in Nat /\ deliveries[id] \in Delivery
    /\ failed \subseteq Update \X Known
    /\ finished \subseteq Update
    /\ faults \in 0 .. MaxFaults

-----------------------------------------------------------------------------
(* Extraction. *)

(* claimContent: the text; captions are not looked at, forwarded messages  *)
(* are skipped.                                                            *)
Content(message) == IF message.kind = "text" THEN message.codes ELSE <<>>

(* canonicalClaimCode, and Normalize: the prefix in lower case. *)
CanonicalCode(match) == match.body

(* The first occurrences of codes among a message's matches. *)
Firsts(m) ==
    {i \in 1 .. Len(m) : \A k \in 1 .. i - 1 : CanonicalCode(m[k]) # CanonicalCode(m[i])}

(* Each code once, in the order of first occurrence, as the relay it claims. *)
Claims(message) ==
    LET m == Content(message)
        position(k) ==
            CHOOSE i \in Firsts(m) : Cardinality({j \in Firsts(m) : j <= i}) = k
    IN  [k \in 1 .. Cardinality(Firsts(m)) |-> m[position(k)].body]

(* Fault: the claims of a message numbered on from its update id. *)
CountedOn(update, total, index) == update + index - 1

(* The update's own id for a single code, else the id shifted and a number *)
(* from 1 (claimRequestUpdateID).                                          *)
RequestId(update, total, index) ==
    IF total = 1 THEN update ELSE update * Factor + index

-----------------------------------------------------------------------------
Send ==
    /\ \E u \in Update \ DOMAIN sent, message \in Message :
          /\ \A v \in Update : v < u => v \in DOMAIN sent
          /\ sent' = [v \in DOMAIN sent \cup {u} |-> IF v = u THEN message ELSE sent[v]]
    /\ UNCHANGED <<handler, deliveries, failed, finished, faults>>

(* A message without a claim is answered at once. *)
Receive(h) ==
    /\ handler[h] = Idle
    /\ \E u \in DOMAIN sent :
          IF Claims(sent[u]) = <<>>
          THEN finished' = finished \cup {u} /\ UNCHANGED handler
          ELSE handler' = [handler EXCEPT ![h].update = u] /\ UNCHANGED finished
    /\ UNCHANGED <<sent, deliveries, failed, faults>>

(* A claim that fails is listed in the reply, and the next one is made. *)
Advance(h) ==
    LET s == handler[h]
    IN  IF s.next < Len(Claims(sent[s.update]))
        THEN handler' = [handler EXCEPT ![h].next = @ + 1] /\ UNCHANGED finished
        ELSE handler' = [handler EXCEPT ![h] = Idle] /\ finished' = finished \cup {s.update}

Current(h) == Claims(sent[handler[h].update])[handler[h].next]

RequestOf(h) ==
    RequestId(handler[h].update, Len(Claims(sent[handler[h].update])), handler[h].next)

(* CreateDelivery: a delivery whose number exists is found and not sent    *)
(* again, whatever claim it belongs to.                                    *)
Claim(h) ==
    /\ handler[h] # Idle /\ Current(h) \in Known
    /\ deliveries' = [id \in DOMAIN deliveries \cup {RequestOf(h)} |->
           IF id \in DOMAIN deliveries THEN deliveries[id]
           ELSE [update |-> handler[h].update, relay |-> Current(h)]]
    /\ Advance(h)
    /\ UNCHANGED <<sent, failed, faults>>

ClaimUnknown(h) ==
    /\ handler[h] # Idle /\ Current(h) \notin Known
    /\ Advance(h)
    /\ UNCHANGED <<sent, deliveries, failed, faults>>

(* The rate limit, or a failed call, before the delivery is created. *)
ClaimFails(h) ==
    /\ handler[h] # Idle /\ Current(h) \in Known
    /\ faults < MaxFaults /\ faults' = faults + 1
    /\ failed' = failed \cup {<<handler[h].update, Current(h)>>}
    /\ Advance(h)
    /\ UNCHANGED <<sent, deliveries>>

(* The process stops half way through a message. Telegram delivers it      *)
(* again or, when it was acknowledged, never.                              *)
Crash ==
    /\ \E h \in Handler : handler[h] # Idle
    /\ faults < MaxFaults /\ faults' = faults + 1
    /\ handler' = [h \in Handler |-> Idle]
    /\ UNCHANGED <<sent, deliveries, failed, finished>>

Init ==
    /\ sent = <<>>
    /\ handler = [h \in Handler |-> Idle]
    /\ deliveries = <<>>
    /\ failed = {}
    /\ finished = {}
    /\ faults = 0

Next ==
    \/ Send
    \/ \E h \in Handler : Receive(h) \/ Claim(h) \/ ClaimUnknown(h) \/ ClaimFails(h)
    \/ Crash

Spec == Init /\ [][Next]_vars

-----------------------------------------------------------------------------
(* The codes of known relays in a message. *)
KnownIn(message) ==
    {c \in Known : \E k \in DOMAIN Content(message) : Content(message)[k].body = c}

Served(u, c) == \E id \in DOMAIN deliveries : deliveries[id] = [update |-> u, relay |-> c]

(* A code written twice in a message, in whatever case the prefix is, or a *)
(* message delivered twice, is served once: one delivery for each message  *)
(* and relay (extract.go:98-104, 171).                                     *)
ServedOnce ==
    \A i, k \in DOMAIN deliveries : deliveries[i] = deliveries[k] => i = k

(* When a message has been gone through, every code of a relay in it has a *)
(* delivery, if its claim did not fail: neither another code of the        *)
(* message, which may differ in the case of a letter only, nor another     *)
(* message takes its place or its request number (extract.go:118, 123).    *)
EveryCodeServed ==
    \A u \in finished : \A c \in KnownIn(sent[u]) : <<u, c>> \in failed \/ Served(u, c)

(* Claim number k of a message has been made, or there was nothing to do.  *)
Made(u, k) ==
    LET c == Claims(sent[u])[k]
    IN  c \in Known => <<u, c>> \in failed \/ Served(u, c)

(* What a handler has gone through of its message. *)
HandlerRight(s) ==
    s # Idle =>
        /\ s.update \in DOMAIN sent
        /\ s.next \in DOMAIN Claims(sent[s.update])
        /\ \A k \in 1 .. s.next - 1 : Made(s.update, k)

(* A delivery stands under the number of the claim it was made for. *)
NumberRight(id) ==
    LET u == deliveries[id].update
    IN  /\ u \in DOMAIN sent
        /\ \E k \in DOMAIN Claims(sent[u]) :
              /\ Claims(sent[u])[k] = deliveries[id].relay
              /\ id = RequestId(u, Len(Claims(sent[u])), k)

(* The inductive invariant of the claims. *)
MessagesInv ==
    /\ TypeOK /\ ServedOnce
    /\ \A h \in Handler : HandlerRight(handler[h])
    /\ \A id \in DOMAIN deliveries : NumberRight(id)
    /\ \A u \in finished : u \in DOMAIN sent /\ \A k \in DOMAIN Claims(sent[u]) : Made(u, k)

=============================================================================
