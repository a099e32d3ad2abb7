------------------------------ MODULE Checkout ------------------------------
(***************************************************************************)
(* What core-api and offshore-collector do for one customer before money   *)
(* arrives: his KYC status, his recipient, and the creation of transfers.  *)
(*                                                                         *)
(* POST /v1/transfers of core-api checks the status and the recipient and  *)
(* passes the call, with its idempotency key, to the collector, whose      *)
(* endpoint runs TransferService.createTransfer inside withIdempotency     *)
(* (module Idempotency).  createTransfer keeps a second record of the key, *)
(* which it shares with the collector's other endpoint.                    *)
(*                                                                         *)
(* A transfer is named by the request that made it.                        *)
(***************************************************************************)
EXTENDS Naturals, FiniteSets

CONSTANTS
    Request,
    Direct,       \* the requests sent to the collector's own endpoint
    Key,          \* idempotency keys
    Quote,
    MaxAccount,   \* bound on the edits of the recipient's bank account
    MaxReview,    \* bound on the decisions of the KYC provider
    MaxFaults     \* bound on failed queries, lost answers and crashes

ASSUME CheckoutAssumption ==
    /\ Direct \subseteq Request
    /\ {MaxAccount, MaxReview, MaxFaults} \subseteq Nat /\ MaxAccount # 0

VARIABLES
    kyc,        \* sender_kyc_profile.kyc_status
    decision,   \* the provider's decisions so far, in order (external)
    webhook,    \* per decision: is its webhook answered for good?
    applied,    \* the decisions applied (history)
    overtaken,  \* was one applied after a later one? (history)
    recipient,  \* recipient: its status and bank account
    live,       \* the quotes that have not expired
    made,       \* the requests that made a transfer: transfers, deposit_routes
    payee,      \* the accounts in a transfer's outbox event: none before it is funded
    owned,      \* accounts the recipient has had since a transfer was made
    outer,      \* idempotency_record of withIdempotency, per scope and key
    inner,      \* idempotency_record "transfer:create:" of a key
    pc, key, quote, answer,  \* per request
    unsaved,    \* transfers made without an inner record (history)
    released,   \* requests whose outer record was deleted (history)
    faults

kycVars == <<kyc, decision, webhook, applied, overtaken>>
payVars == <<recipient, payee, owned>>
idemVars == <<outer, inner, unsaved, released>>
vars == <<kycVars, payVars, live, made, idemVars, pc, key, quote, answer, faults>>

Status == {"pending", "approved", "rejected"}
Scope == {"internal", "public"}
ScopeOf(r) == IF r \in Direct THEN "public" ELSE "internal"
None == "none"
Account == 1 .. MaxAccount

(* Answers: a transfer, or the error classes of mapError, deny and
   withIdempotency. *)
Created(t) == [kind |-> "created", transfer |-> t]
Error(kind) == [kind |-> kind, transfer |-> None]
Answer == {Created(t) : t \in Request} \cup {Error(kind) : kind \in {"refused", "conflict", "failed"}}

(* The row of recipient: deleted ones stay, with their bank account. *)
RecipientRow == [active : BOOLEAN, account : Account]

(* Rows of idempotency_record; the hash is that of the payload: the quote. *)
Absent == [state |-> "absent"]
Reserved(q) == [state |-> "reserved", hash |-> q]
Stored(q, a) == [state |-> "stored", hash |-> q, answer |-> a]

Creating == {"inner", "quote", "address", "provision", "persist", "save"}
InCollector == Creating \cup {"reserve", "wait", "store"}

TypeOK ==
    /\ kyc \in Status /\ webhook \in [DOMAIN decision -> BOOLEAN]
    /\ DOMAIN decision \in {1 .. n : n \in 0 .. MaxReview}
    /\ \A i \in DOMAIN decision : decision[i] \in Status
    /\ applied \subseteq DOMAIN decision /\ overtaken \in BOOLEAN
    /\ recipient \in RecipientRow
    /\ live \subseteq Quote /\ made \subseteq Request
    /\ payee \in [Request -> SUBSET Account]
    /\ owned \in [Request -> SUBSET Account]
    /\ \A s \in Scope, k \in Key : outer[s][k] \in
          {Absent} \cup {Reserved(q) : q \in Quote} \cup {Stored(q, a) : q \in Quote, a \in Answer}
    /\ \A k \in Key : inner[k] \in {Absent} \cup {Stored(q, Created(t)) : q \in Quote, t \in made}
    /\ pc \in [Request -> InCollector \cup {"unsent", "kyc", "recipient", "relay", "answered", "dead"}]
    /\ key \in [Request -> Key] /\ quote \in [Request -> Quote]
    /\ answer \in [Request -> Answer \cup {Error(None)}]
    /\ unsaved \subseteq made /\ released \subseteq Request
    /\ faults \in 0 .. MaxFaults

Init ==
    /\ kyc = "pending"
    /\ decision = [i \in {} |-> "pending"] /\ webhook = [i \in {} |-> FALSE]
    /\ applied = {} /\ overtaken = FALSE
    /\ recipient = [active |-> TRUE, account |-> 1]
    /\ live = Quote
    /\ made = {}
    /\ payee = [r \in Request |-> {}]
    /\ owned = [r \in Request |-> {}]
    /\ outer = [s \in Scope |-> [k \in Key |-> Absent]]
    /\ inner = [k \in Key |-> Absent]
    /\ pc = [r \in Request |-> "unsent"]
    /\ key \in [Request -> Key] /\ quote \in [Request -> Quote]
    /\ answer = [r \in Request |-> Error(None)]
    /\ unsaved = {} /\ released = {}
    /\ faults = 0

-----------------------------------------------------------------------------
(***************************************************************************)
(* KYC.                                                                    *)
(***************************************************************************)

(* The provider decides, and will send a webhook until it is answered. *)
Review(d) ==
    LET n == Cardinality(DOMAIN decision) + 1 IN
    /\ n <= MaxReview
    /\ decision' = [i \in 1 .. n |-> IF i = n THEN d ELSE decision[i]]
    /\ webhook' = [i \in 1 .. n |-> IF i = n THEN FALSE ELSE webhook[i]]
    /\ UNCHANGED <<kyc, applied, overtaken, payVars, live, made, idemVars, pc, key, quote, answer, faults>>

(* The webhook of decision i: the upsert, and then the audit row.  If that or
   the record of the answer fails, withIdempotency deletes the reservation, and
   the webhook, sent again, is processed again. *)
Webhook(i) ==
    /\ i \in DOMAIN decision /\ ~webhook[i]
    /\ kyc' = decision[i]
    /\ applied' = applied \cup {i}
    /\ overtaken' = (overtaken \/ \E j \in applied : j > i)
    /\ \/ webhook' = [webhook EXCEPT ![i] = TRUE] /\ UNCHANGED faults
       \/ faults < MaxFaults /\ faults' = faults + 1 /\ UNCHANGED webhook
    /\ UNCHANGED <<decision, payVars, live, made, idemVars, pc, key, quote, answer>>

(* Mutated form of SessionToken: the row is written as a new one. *)
SessionTokenResets ==
    /\ kyc' = "pending"
    /\ UNCHANGED <<decision, webhook, applied, overtaken, payVars, live, made, idemVars,
                   pc, key, quote, answer, faults>>

(* POST sumsub-token: the upsert leaves the status of a row as it is. *)
SessionToken == UNCHANGED vars

-----------------------------------------------------------------------------
(***************************************************************************)
(* The recipient, and the account a funded transfer is paid to.            *)
(***************************************************************************)
payUnchanged == <<kycVars, live, made, idemVars, pc, key, quote, answer, faults>>

(* updateForCustomer: a deleted recipient is not found. *)
Updated(account) ==
    /\ recipient.active
    /\ recipient' = [recipient EXCEPT !.account = account]

(* softDeleteForCustomer keeps the row. *)
SoftDeleted ==
    /\ recipient.active
    /\ recipient' = [recipient EXCEPT !.active = FALSE]

(* PATCH. *)
EditRecipient ==
    /\ recipient.account < MaxAccount
    /\ Updated(recipient.account + 1)
    /\ owned' = [r \in Request |-> IF r \in made THEN owned[r] \cup {recipient.account + 1}
                                                 ELSE owned[r]]
    /\ UNCHANGED <<payee, payUnchanged>>

(* Mutated form of DeleteRecipient: the account is deleted with it. *)
DeleteRecipientRow ==
    /\ recipient.active
    /\ recipient' = [active |-> FALSE, account |-> 0]
    /\ UNCHANGED <<payee, owned, payUnchanged>>

(* DELETE. *)
DeleteRecipient ==
    /\ SoftDeleted
    /\ UNCHANGED <<payee, owned, payUnchanged>>

(* applyFundingConfirmation copies the account, whatever the status of the
   recipient, into the outbox event. *)
Fund(r) ==
    /\ r \in made /\ payee[r] = {}
    /\ payee' = [payee EXCEPT ![r] = {recipient.account}]
    /\ UNCHANGED <<recipient, owned, payUnchanged>>

-----------------------------------------------------------------------------
(***************************************************************************)
(* core-api: POST /v1/transfers.                                           *)
(***************************************************************************)
Goto(r, s) == pc' = [pc EXCEPT ![r] = s]
Give(r, a, s) == answer' = [answer EXCEPT ![r] = a] /\ Goto(r, s)
callUnchanged == <<kycVars, payVars, live, made, idemVars, key, quote, faults>>

Send(r) ==
    /\ pc[r] = "unsent"
    /\ Goto(r, IF r \in Direct THEN "reserve" ELSE "kyc")
    /\ UNCHANGED <<answer, callUnchanged>>

(* findSenderKycStatus and hasActiveRecipient. *)
Approved == kyc = "approved"
HasActiveRecipient == recipient.active

CheckKyc(r) ==
    /\ pc[r] = "kyc"
    /\ IF Approved THEN Goto(r, "recipient") /\ UNCHANGED answer
                           ELSE Give(r, Error("refused"), "answered")
    /\ UNCHANGED callUnchanged

(* The collector is called next. *)
CheckRecipient(r) ==
    /\ pc[r] = "recipient"
    /\ IF HasActiveRecipient THEN Goto(r, "reserve") /\ UNCHANGED answer
                           ELSE Give(r, Error("refused"), "answered")
    /\ UNCHANGED callUnchanged

(* The collector's answer is passed on, unless the connection breaks. *)
Relay(r) ==
    /\ pc[r] = "relay"
    /\ \/ Goto(r, "answered") /\ UNCHANGED <<answer, faults>>
       \/ /\ faults < MaxFaults /\ faults' = faults + 1
          /\ Give(r, Error("failed"), "answered")
    /\ UNCHANGED <<kycVars, payVars, live, made, idemVars, key, quote>>

-----------------------------------------------------------------------------
(***************************************************************************)
(* The collector: withIdempotency around create.                           *)
(***************************************************************************)
Row(r) == outer[ScopeOf(r)][key[r]]
SetRow(r, row) == outer' = [outer EXCEPT ![ScopeOf(r)][key[r]] = row]

Reserve(r) ==
    /\ pc[r] = "reserve"
    /\ IF Row(r) = Absent
       THEN SetRow(r, Reserved(quote[r])) /\ Goto(r, "inner")
       ELSE UNCHANGED outer /\ Goto(r, "wait")
    /\ UNCHANGED <<kycVars, payVars, live, made, inner, unsaved, released, key, quote, answer, faults>>

(* Mutated form of Wait: the payload is not compared. *)
WaitAnyPayload(r) ==
    /\ pc[r] = "wait"
    /\ \/ Row(r).state = "stored" /\ Give(r, Row(r).answer, "relay")
       \/ Row(r).state # "stored" /\ Give(r, Error("conflict"), "relay")
    /\ UNCHANGED callUnchanged

(* The stored answer of the same payload is replayed; a row that is missing, of
   another payload, or still reserved after 5 s, is a conflict. *)
Wait(r) ==
    /\ pc[r] = "wait"
    /\ IF Row(r).state = "stored" /\ Row(r).hash = quote[r]
       THEN Give(r, Row(r).answer, "relay")
       ELSE Give(r, Error("conflict"), "relay")
    /\ UNCHANGED callUnchanged

-----------------------------------------------------------------------------
(***************************************************************************)
(* TransferService.createTransfer.  An error is an answer too: mapError.   *)
(***************************************************************************)
Refuse(r, kind) == Give(r, Error(kind), "store")

(* Mutated form of FindInner: only withIdempotency guards the key. *)
FindInnerSkipped(r) ==
    /\ pc[r] = "inner"
    /\ Goto(r, "quote")
    /\ UNCHANGED <<answer, callUnchanged>>

FindIdempotency(r) == inner[key[r]]

(* The transfer of an earlier call with the key and the payload is the answer. *)
FindInner(r) ==
    LET row == FindIdempotency(r) IN
    /\ pc[r] = "inner"
    /\ CASE row = Absent -> Goto(r, "quote") /\ UNCHANGED answer
         [] row # Absent -> IF row.hash = quote[r] THEN Give(r, row.answer, "store")
                                                   ELSE Refuse(r, "conflict")
    /\ UNCHANGED callUnchanged

(* findQuoteById, and its expiry. *)
FindQuote(r) ==
    /\ pc[r] = "quote"
    /\ IF quote[r] \in live THEN Goto(r, "address") /\ UNCHANGED answer
                            ELSE Refuse(r, "refused")
    /\ UNCHANGED callUnchanged

(* generateAddress computes the address of the route, or, on Solana with unique
   routes, goes on to create its account. *)
GenerateAddress(r) ==
    /\ pc[r] = "address"
    /\ \E next \in {"provision", "persist"} : Goto(r, next)
    /\ UNCHANGED <<answer, callUnchanged>>

(* provisionUniqueSolanaAddress: the account is created on chain; one "already in
   use" is as good. *)
ProvisionAddress(r) ==
    /\ pc[r] = "provision"
    /\ Goto(r, "persist")
    /\ UNCHANGED <<answer, callUnchanged>>

(* persistTransferWithRoute: one transaction. *)
Insert(r) ==
    /\ made' = made \cup {r}
    /\ owned' = [owned EXCEPT ![r] = {recipient.account}]

Persist(r) ==
    /\ pc[r] = "persist"
    /\ Insert(r)
    /\ Goto(r, "save")
    /\ UNCHANGED <<kycVars, recipient, payee, live, idemVars, key, quote, answer, faults>>

(* saveIdempotencyRecord: the first record of a key stays. *)
Save(r) ==
    /\ pc[r] = "save"
    /\ inner' = [inner EXCEPT ![key[r]] = IF @ = Absent THEN Stored(quote[r], Created(r)) ELSE @]
    /\ Give(r, Created(r), "store")
    /\ UNCHANGED <<kycVars, payVars, live, made, outer, unsaved, released, key, quote, faults>>

(* A query or an RPC call of createTransfer fails, perhaps after it took
   effect: 500 or 503. *)
CreateFails(r) ==
    /\ faults < MaxFaults /\ pc[r] \in Creating
    /\ faults' = faults + 1
    /\ \/ pc[r] = "persist" /\ Insert(r) /\ unsaved' = unsaved \cup {r}
       \/ pc[r] = "save" /\ unsaved' = unsaved \cup {r} /\ UNCHANGED <<made, owned>>
       \/ pc[r] # "save" /\ UNCHANGED <<made, owned, unsaved>>
    /\ Refuse(r, "failed")
    /\ UNCHANGED <<kycVars, recipient, payee, live, outer, inner, released, key, quote>>

(* withIdempotency records the answer, *)
Store(r) ==
    /\ pc[r] = "store"
    /\ SetRow(r, Stored(quote[r], answer[r]))
    /\ Goto(r, "relay")
    /\ UNCHANGED <<kycVars, payVars, live, made, inner, unsaved, released, key, quote, answer, faults>>

(* or fails to, deletes its reservation, and the endpoint answers 400. *)
StoreFails(r) ==
    /\ pc[r] = "store" /\ faults < MaxFaults
    /\ faults' = faults + 1
    /\ SetRow(r, Absent)
    /\ released' = released \cup {r}
    /\ Give(r, Error("failed"), "relay")
    /\ UNCHANGED <<kycVars, payVars, live, made, inner, unsaved, key, quote>>

(* The collector dies: its reservation stays. *)
Crash(r) ==
    /\ faults < MaxFaults /\ pc[r] \in InCollector
    /\ faults' = faults + 1
    /\ unsaved' = IF pc[r] = "save" THEN unsaved \cup {r} ELSE unsaved
    /\ Give(r, Error("failed"), "dead")
    /\ UNCHANGED <<kycVars, payVars, live, made, outer, inner, released, key, quote>>

-----------------------------------------------------------------------------
(* A quote lives half an hour at most. *)
Expire(q) ==
    /\ q \in live
    /\ live' = live \ {q}
    /\ UNCHANGED <<kycVars, payVars, made, idemVars, pc, key, quote, answer, faults>>

(* The retention job deletes a key's records three days after. *)
Purge(k) ==
    /\ live = {}
    /\ \A r \in Request : key[r] = k => pc[r] \notin InCollector
    /\ inner' = [inner EXCEPT ![k] = Absent]
    /\ outer' = [s \in Scope |-> [outer[s] EXCEPT ![k] = Absent]]
    /\ UNCHANGED <<kycVars, payVars, live, made, unsaved, released, pc, key, quote, answer, faults>>

Customer ==
    \/ \E d \in Status : Review(d)
    \/ \E i \in DOMAIN decision : Webhook(i)
    \/ SessionToken
    \/ EditRecipient \/ DeleteRecipient
    \/ \E r \in Request : Fund(r) \/ Send(r)

Serve(r) ==
    \/ CheckKyc(r) \/ CheckRecipient(r) \/ Reserve(r) \/ Wait(r)
    \/ FindInner(r) \/ FindQuote(r) \/ GenerateAddress(r) \/ ProvisionAddress(r)
    \/ Persist(r) \/ Save(r)
    \/ CreateFails(r) \/ Store(r) \/ StoreFails(r) \/ Relay(r) \/ Crash(r)

Next ==
    \/ Customer
    \/ \E r \in Request : Serve(r)
    \/ \E q \in Quote : Expire(q)
    \/ \E k \in Key : Purge(k)

Spec == Init /\ [][Next]_vars

-----------------------------------------------------------------------------
(***************************************************************************)
(* Properties                                                              *)
(***************************************************************************)

(* The status is that of the provider's latest decision that has arrived, unless
   webhooks were applied out of order, whatever the customer asks for meanwhile
   and however often a webhook is sent again (kyc.ts:100). *)
KycLatest ==
    ~overtaken /\ applied # {} =>
        kyc = decision[CHOOSE i \in applied : \A j \in applied : j <= i]

(* One key makes one transfer (service.ts:38): although a failure may leave the
   transfer without the inner record, or make withIdempotency forget the call,
   both must happen to one call for a second transfer; or the key is used on
   both endpoints.  No retention of records lets a retry make one. *)
OneTransferPerKey ==
    \A r, s \in made : r # s /\ key[r] = key[s] =>
        \/ ScopeOf(r) # ScopeOf(s)
        \/ \E t \in {r, s} : t \in unsaved \cap released

(* A caller who is told of a transfer is told of one that exists, made with his
   key for his quote, and a caller who is refused has made none. *)
AnswersHold ==
    \A r \in Request : pc[r] = "answered" =>
        IF answer[r].kind = "created"
        THEN LET t == answer[r].transfer IN t \in made /\ key[t] = key[r] /\ quote[t] = quote[r]
        ELSE answer[r].kind \in {"refused", "conflict"} => r \notin made

(* A funded transfer is paid to an account the recipient has had since the
   transfer was made, even one edited or deleted in the meantime. *)
PaidToRecipient ==
    \A r \in made : payee[r] \subseteq owned[r]
=============================================================================
