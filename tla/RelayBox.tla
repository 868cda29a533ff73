------------------------------ MODULE RelayBox ------------------------------
(***************************************************************************)
(* What a relay is to the rest of the program, with no tables, locks or    *)
(* transactions: a box that is opened, takes files in order up to a limit, *)
(* is sealed under a code, expires, and may be thrown away with its files. *)
(* The abstract counterpart of relay.Store (internal/relay/ports.go).      *)
(***************************************************************************)
EXTENDS Naturals, Sequences

CONSTANTS RelayId, Update, Code, MaxBatchItems, NoCode

VARIABLES
    phase,  \* where in its life each relay is
    files,  \* the uploads in it, in the order a claimer will get them
    code    \* the code it can be claimed with

boxVars == <<phase, files, code>>

Filed(u) == \E r \in RelayId : \E i \in DOMAIN files[r] : files[r][i] = u

NewCode(c) == \A r \in RelayId : code[r] # c

BoxInit ==
    /\ phase = [r \in RelayId |-> "unused"]
    /\ files = [r \in RelayId |-> <<>>]
    /\ code = [r \in RelayId |-> NoCode]

Open(r) ==
    /\ phase[r] = "unused"
    /\ phase' = [phase EXCEPT ![r] = "collecting"]
    /\ UNCHANGED <<files, code>>

(* A file goes to the end of an open box, and is in no other box. *)
Put(r, u) ==
    /\ phase[r] = "collecting"
    /\ ~Filed(u)
    /\ Len(files[r]) < MaxBatchItems
    /\ files' = [files EXCEPT ![r] = Append(@, u)]
    /\ UNCHANGED <<phase, code>>

Seal(r, c) ==
    /\ phase[r] = "collecting"
    /\ NewCode(c)
    /\ phase' = [phase EXCEPT ![r] = "ready"]
    /\ code' = [code EXCEPT ![r] = c]
    /\ UNCHANGED files

(* A single upload is a box opened, filled and sealed at once; when the    *)
(* upload already lies in another box, the new one stays empty.            *)
Publish(r, u, c) ==
    /\ phase[r] = "unused"
    /\ NewCode(c)
    /\ phase' = [phase EXCEPT ![r] = "ready"]
    /\ code' = [code EXCEPT ![r] = c]
    /\ files' = IF Filed(u) THEN files ELSE [files EXCEPT ![r] = <<u>>]

Expire(S) ==
    /\ \A r \in S : phase[r] = "ready"
    /\ phase' = [r \in RelayId |-> IF r \in S THEN "expired" ELSE phase[r]]
    /\ UNCHANGED <<files, code>>

Discard(S) ==
    /\ \A r \in S : phase[r] \in {"collecting", "ready", "expired"}
    /\ phase' = [r \in RelayId |-> IF r \in S THEN "deleted" ELSE phase[r]]
    /\ files' = [r \in RelayId |-> IF r \in S THEN <<>> ELSE files[r]]
    /\ UNCHANGED code

BoxNext ==
    \/ \E r \in RelayId : Open(r)
    \/ \E r \in RelayId, u \in Update : Put(r, u)
    \/ \E r \in RelayId, c \in Code : Seal(r, c)
    \/ \E r \in RelayId, u \in Update, c \in Code : Publish(r, u, c)
    \/ \E S \in SUBSET RelayId : Expire(S)
    \/ \E S \in SUBSET RelayId : Discard(S)

BoxSpec == BoxInit /\ [][BoxNext]_boxVars

=============================================================================
